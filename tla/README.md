# A verification of expresso

expresso is an HTTP server framework in C++: a reactor (one event-loop thread
over non-blocking sockets, epoll or kqueue), a pool of worker threads that run
the request handlers, a router with middlewares, and a response object that can
stream files with `sendfile`. This directory holds TLA+ modules that model it,
TLC configurations that check them on small instances, and proofs that TLAPS
checks for every value of the constants. Line numbers refer to the repository
at the commit this was written for.

## 1. The system

| component | state it keeps | operations | what makes it hard |
|---|---|---|---|
| `Server` event loop (`src/core/server.cpp`, `server.h`) | `connections` (fd → connection), `processingConnections`, the listening socket, `lastSweep` | `runEventLoop`, `acceptConnections`, `handleReadable`, `handleWritable`, `flushProcessedConnections`, `closeIdleConnections`, `closeConnection` | descriptor numbers are reused; events of one batch are handled after the state they were taken from has changed; every handler may close |
| hand-off to and from the pool (`handleReadable`, `processRequest`, `flushProcessedConnections`) | the pool's task queue, `processedConnections` with its mutex, the wakeup pipe | enqueue, push, write to the pipe, drain, swap | threads interleave at every point; the wakeup pipe is bounded; the queue holds descriptors, not connections |
| `Connection` (`src/core/io/connection.cpp`) | phase, read and write buffers, `bytesWritten`, file region, `lastActivity` | `read`, `write`, `flushBuffer`, `flushFile`, `setResponse`, destructor | no lock on any member; partial writes; a file that shrinks while it is sent; who closes which descriptor |
| `Poller` (`poller_epoll.cpp`, `poller_kqueue.cpp`) | the kernel's interest list | `add`, `remove`, `wait` | one label per event; at most `MAX_EVENTS` a batch; kqueue accepts a second filter for a number, epoll refuses it |
| `Response` (`src/messages/response.cpp`, `helpers/response.cpp`, `file_region.h`) | status, headers, body, `hasEnded`, the file region | `set`, `setCookie`, `status`, `send`, `json`, `sendFile`, `sendFiles`, `sendNotFound`, `sendInvalidRange`, `end`, `takeData`, `takeFileRegion` | handlers may call them in any order and throw between any two; the open file changes owner |
| request parsing (`Server::makeRequest`, `helpers/request.cpp`) | none | `isRequestComplete`, `makeRequest` | runs on partial input; the two read the same headers with different code |
| `Router` (`src/core/router.cpp`) | method → path → handler maps, mounted routers, middlewares | `use`, the verbs, `handleRequest`, destructor | prefix matching over mounts; middlewares of several routers in a row; routers owned by those they are mounted in |
| middlewares (`src/middleware/*`) | options, fixed before `listen` | `use` | run in order on worker threads; read headers as clients spell them; one that refuses ends the response with what is set by then |
| construction and destruction of `Server` | all of it | constructor, `listen`, destructor | the order in which descriptors are closed and threads joined |
| `nexus::pool`, `brewtils`, `logger`, `mochios`, `libjson` | — | — | submodules, not in this repository |
| benchmark scripts, example, CI | — | — | tools around the server |

How they interact: the loop thread owns all sockets. When `handleReadable` has a
complete request it stops watching the socket, marks the descriptor in
`processingConnections`, sets the phase to `PROCESSING` and enqueues a task that
holds a `shared_ptr` to the connection. A worker parses and routes the request,
stores the response in the connection (`setResponse`), pushes the descriptor on
`processedConnections` under the mutex and writes one byte to the wakeup pipe.
The loop, on the pipe's event and also after every batch, drains the pipe, swaps
the queue and watches each descriptor for writing. It writes until the response
is out, then closes; there is no keep-alive. Once a second it sweeps connections
idle for more than 60 s, except those in `processingConnections`.

Assumptions about code that is not in the repository: `nexus::pool` runs every
enqueued task exactly once, in FIFO order, and drops the task (and with it the
`shared_ptr`) when it is done; `logger::error` with a place as second argument
throws, with one argument it only logs. Both are read off the callers.

What makes each part correct: of the loop and the hand-off, that a connection has
one owner at a time, that nothing is applied to a connection it was not meant for
although descriptors are reused, and that no finished response and no dead
connection stays for ever; of the descriptors, that each is closed once, by its
owner, whatever fails; of the writing half, that the bytes arrive in order and
that "complete" is true; of `Response`, that header and body agree whatever a
handler does; of parsing, that a request is handed over whole and means the same
to both readers; of `Router`, that no middleware is passed by and no handler gets
another's request; of the middlewares, that what they set arrives, that what they
read is what the client spelled, and that a refusal keeps handlers and files from
whom it refuses.

## 2. Modules

| module | models | role |
|---|---|---|
| `ConnectionLifecycle` | what the comment on class `Connection` promises of a connection | abstract specification |
| `Reactor` | event loop, poller, hand-off, workers, connection phases | implements `ConnectionLifecycle` |
| `ReactorInvariant`, `ReactorProofs` | the inductive invariant in parts; theorems | checked by TLC, proved by TLAPS |
| `Descriptors` | the process's descriptors and who closes them: accept with all its failures, connections, files, `~Server` | |
| `DescriptorsInvariant`, `DescriptorsProofs` | inductive invariant; theorems | checked by TLC, proved by TLAPS |
| `ByteStream` | what a client sees of a response: bytes, then an end | abstract specification |
| `Delivery` | `Connection::write`, `flushBuffer`, `flushFile` | implements `ByteStream` |
| `DeliveryInvariant`, `DeliveryProofs` | inductive invariant; theorems | checked by TLC, proved by TLAPS |
| `Response` | class `Response` under any sequence of calls | |
| `ResponseProofs` | inductive invariant; theorems | proved by TLAPS |
| `Answer` | `Response` handed over to `Delivery` | composition |
| `AnswerProofs` | theorems, from those about both halves | proved by TLAPS |
| `Router` | registration, dispatch, middlewares, deletion of routers | |
| `RouterProofs` | inductive invariants; theorems | proved by TLAPS |
| `Request` | arrival of a request, `isRequestComplete`, `makeRequest` | |
| `RequestProofs` | inductive invariant; theorems | proved by TLAPS |
| `Strings` | `split`, `trim` and the reading of numerals, of the libraries | operators |
| `Middlewares` | what each middleware keeps and makes of a request's headers | operators |
| `Service` | `processRequest` with `Router`, `Middlewares` and `Response`; the example program | composition |
| `ServiceProofs` | inductive invariant; theorems | proved by TLAPS |
| `MC*` | constants, symmetry and views for TLC | model checking |

Definitions whose name ends in an underscore and a word and whose comment begins
with "Bug:" are faults that somebody could make in the code. They are used by no
action; each is there to be put in place of the definition it follows, and the
property listed for it must then fail.

### Reactor

State and code correspond one to one where the code has a variable:
`connections`, `processingConnections`, `processedConnections`, `ready` and
`phase` are the members and locals of those names, `pipe` is the number of bytes
in the wakeup pipe, `watched` is the interest list of the poller, `tasks` the
pool's queue. `readBuffer` and `unsent` count pieces: a request arrives in
`ReqParts` pieces that bring it nearer to its end (so that it can be incomplete), and
any number that do not: only the client knows where its request ends, nothing limits
the code's buffer, and so `ReadPartOfRequest` may count fewer pieces than it read. A
response leaves in `RespParts`. `idle` counts whole poll intervals since `lastActivity`, capped one
above `IdleTimeout`. `life` and `sock` stand for the `Connection` object and the
descriptor it holds: it is `"live"` from `accept` until its last `shared_ptr`
goes, so a connection that left the map while a worker still refers to it keeps
its descriptor occupied, as in the code.

`loop` is the program counter of the loop thread: `wait`, `dispatch` (the `for`
over events), `setPhase` and `enqueue` (what `handleReadable` still has to do with the
connection `handing` once it is marked, in the order of `HandOff`: the worker may run as
soon as the task is queued), `accept` (the loop in `acceptConnections`), `drain`, `swap`,
`watch` (the three parts of `flushProcessedConnections`, run for a wakeup event
and, with `afterBatch`, after each batch) and `sweep`. A step of the loop that
touches nothing another thread can see is merged with its neighbours; `drain`,
`swap`, the watching of each descriptor and the two steps of the hand-off are separate
because workers run in between. A worker goes through `handle`, `push`, `wake` and `release`.

The environment may do what a kernel and TCP clients may do: connect, send a
piece, send FIN, reset, stop reading, stop altogether; `accept`, `poller.add` and
`epoll_wait` may fail where the code handles it; a batch holds any `MaxEvents` of
the ready descriptors in any order; a hang-up of a connection registered for
writing may be labelled `READ`, as `Poller::wait` does with an event that lacks
`EPOLLOUT`; with `LossyWakeup`, a write to the pipe may be lost with room in it,
the case the comment at `server.cpp:134` is about. An event carries, for the
properties only, the connection it was reported for.

`Kqueue` chooses the Poller. `watched[f]` is a set of filters, because with kqueue
it can be: `Poller::add` refuses a second one only where `epoll_ctl` does, and a
batch may then hold two events of one number. A hang-up of a connection that waits
to be written is an event of its write filter there and never labelled `READ`.

Bounds: `ReqParts`, `RespParts`, `PipeCapacity`, `DrainSize`, `MaxEvents`,
`IdleTimeout`, the number of connections, descriptors and workers. `idle` and
`lag` (a history variable) are capped where larger values change nothing.

Not modelled here: bytes after the end of a request (no pipelining), what the
handler computes (`Response`, `Router`, `Request`, `Service`), and which descriptor
belongs to whom in setup failures, during destruction and when
`threadPool.enqueue` throws (`Descriptors`).

### Descriptors

One table maps every number to what it stands for; `open`, `accept` and `pipe`
give out the lowest free one and `close` frees a number whoever calls it. The
numbers that the Server, the `Connection` objects and the `Response` on a worker's
stack hold are variables of their own, so that a number can be held by somebody
it no longer belongs to. The stages of the main thread follow
`acceptConnections` statement by statement (`construct`, `insert`, `watch`, and
`catch`, each of which may be reached by an exception) and then `~Server`: its
body closes the listener and both ends of the pipe, then members are destroyed in
reverse order, the pool first, which drops the tasks and joins the workers. The
protocol between loop and workers is as coarse as ownership allows, since
`Reactor` has it in detail. An exception from `threadPool.enqueue`
(`HandOffThrows`) is caught by nobody between `handleReadable` and `listen`: the
number stays in `processingConnections` and `~Server` runs with whatever the workers
are doing. `MayStop` says whether the instance lets the Server end at all.
It begins with a Server whose constructor has returned: one that throws
(`server.cpp:22-37`) runs no destructor and leaves open what it had opened, the listening
socket and perhaps the pipe, and that is no part of the model.
`insertThrew` is a history variable.

### Delivery and ByteStream

`bytesWritten`, `file` and the results are those of the code. A byte on the wire
carries where it comes from, so that order, gaps and repetitions show. `Apple`
chooses the branch of `flushFile`; the run uses the one whose behaviours include
those of the Linux branch (it may both send and fail in one call), the proofs
hold for both. The file may become shorter between any two calls. The abstract
stream only knows a total and a count, and ends complete or broken.

### Response and Answer

A handler calls the public operations in any order and returns or throws after
any of them; `processRequest` then ends the response and takes it apart. It does so for
a `std::exception` only: whatever else is thrown leaves it (`Escape`), the response is
`lost` before anything was taken, and nobody gives the connection back to the loop. Messages
are lengths, headers are the two that frame a body. A byte of `data` tells what it
belongs to: a header is one byte, a message has as many as it is long, chunks and
the last chunk are one each, so that what follows a header can be counted. `zipFailed` records that an
exception left `sendFiles`. `Answer` runs `Response` and `Delivery` side by side:
what `processRequest` takes is what `setResponse` gets, and the file that
`sendFile` measured is the file that may have shrunk when it is sent. It shows
that the worker's half keeps the contract (`Delivery!Spec`) under which the
writing half is proved.

### Router

Registration (`setup`), then requests one at a time (`serving`), then the end. A
text is the sequence of what stands between its slashes (`Names`), which is all that
the router's comparisons look at; a slash at the end leaves an empty name, which a
route keeps in its key and `makeRequest` takes off the path. `trail` is the stack of `handleRequest` calls; each
keeps, for the properties, what of the path was `used` to get there, so that it can be
said that a handler was found at its own address. `passed` lists the middlewares that
let the request through. Routers are not mounted in
a circle: that recursion would not end in the code either. Three things the code
does limit the property about 404: a route registered as `/b/` keeps its last slash and
every request loses it, so that nobody reaches it; of two mounts where one key begins the
other only the shorter is looked at; and of slashes in a row one is dropped at each
router. A router that is mounted in two places is deleted twice, which is undefined, so
the model ends before; `EachDeletedOnce` says "once" of programs that mount each router
in one place, and that all that is reachable is deleted, after the last worker, of all.
`paramRouter` is never assigned in the repository, so the branch at
`router.cpp:124-137` cannot be reached and is left out.

### Request

The client's bytes arrive in pieces; the event loop asks `isRequestComplete` after
each read, then the worker parses the text again in `makeRequest`. A client may also
pause (`Pause`), and after `IDLE_TIMEOUT` the sweep closes its connection without a word
(`Sweep`). Of the head only what both act on is kept: the request line, the query, the
values of the content-length headers and the content type, of which `makeRequest` knows
four kinds (`Parsed`) and gives the handler no body for any other. Numerals are binary and the widths of
`int` and `size_t` are constants, because TLC's own integers are no wider than an
`int`. That a client sends fewer bytes than a negative number is as a `size_t`
(`RequestAssumption`) is what lets the loop wait for ever for the body of a request with
a negative length, rather than hand it over. `Decode` and what is in `Strings` are external: `brewtils` and the C++ library.

### Middlewares and Service

No middleware changes its members in `use`, so `Middlewares` has no variables: a
middleware is a record of its options, and an operator says what it makes of a
header; `Set` is `Response::set`, of which only the value that is kept counts, and
`Guards` are the middlewares that can be built. `Service` is what a worker does from
the outcome of `makeRequest`, a request (`Receive`) or an exception (`Reject`: 400, and no
router or middleware is asked), to the end of `processRequest`; whether `makeRequest` ends
is `Request`'s question, and handlers throw `std::exception`s only here, since `Response`
has the others. It has `Router`'s actions as `Paths` and `Response`'s as `Worker`,
by INSTANCE with substitutions, and conjoins them as the code calls one from the
other: `handleMiddlewares` calls `use`, a refusal calls `end` and with it
`serializeHeaders`, `handleRequest` calls `sendNotFound` or the handler. What a
program has built, `app`, is chosen at the start out of `Apps`: `Example` is
`example/main.cpp`. `Built` says what the API lets a program build: each route has a
handler, a router is mounted in routers with smaller numbers only. A handler is the
list of its calls (`Calls`); it does not answer 403 by itself, since a client could not
tell that from a `Cors`. `fields` are the response's headers as a function; `sent` keeps
those that were set when the header was put together, since what is set later is
lost.

A header of a request is a sequence of the letters that the code looks for
(`=`, `;`, `-`, `bytes=`, `.`) and some that stand for the rest. A regular expression
has no operator but the dot, which is what `allowOrigin` brings in. `Version`'s two
fields are one and so are `Cors`'s two that say nothing of the origin. Where
`CookieParser` reads behind its vector the behaviour is undefined: it goes on with
any value, throws, or ends the program (`Crash`). Between `StaticServe`'s look at the
file system and `sendFile`'s, a file may appear, disappear or change its size.

## 3. What is checked

| run | instance | shows |
|---|---|---|
| `reactor_workers` | 2 connections, 2 descriptors, 2 workers, responses in 2 pieces, pipe of 1 byte, kqueue | ownership, current hand-offs, exact marks, no lost wakeup, one filter a number |
| `reactor_liveness` | 2 connections, 1 descriptor, 1 worker, epoll, lossy wakeups, fairness | fresh events and a delay of at most one poll interval although the descriptor is reused; refinement of `ConnectionLifecycle`; accepted connections end unless their client sends for ever or their handler stays; no response is stranded |
| `descriptors_owners` | 3 connections, 2 workers, 8 descriptors of which 4 are the Server's | no owner's number stands for another's descriptor until an insertion throws, nothing leaks, a stopped Server leaves nothing open |
| `descriptors_insert` | 2 connections | *violation*, see below |
| `descriptors_shutdown` | 2 connections | *violation*, see below |
| `delivery_write` | buffer and file of at most 3 bytes | order, honest completion, refinement of `ByteStream`, responses end |
| `response_range` | 1 call | *violation*, see below |
| `answer_end` | 3 calls, file of at most 3 bytes | one header, a status line first in all that is handed over, honest framing, final once ended; the client can tell a whole response from a broken one; `Delivery`'s contract |
| `router_requests` | 3 routers, 4 registrations out of 4 paths for routes and 4 for mounts, 9 request paths | middlewares first and in order, right handler, honest 404, deletion late enough and, of what is mounted once, once |
| `request_parse` | about 1000 messages, every way to cut them | whole bodies of the types that are parsed, agreeing lengths, right pairs, well-meant requests are served unless their client pauses too long |
| `request_query` | the same | *violation*, see below |
| `service_request` | 2 programs, about 700 requests | middlewares' headers arrive; a Cors keeps strangers from handlers and from what is served behind it, and nobody else; cookies and ranges mean what they spell; each request is answered |

Why the bounds are enough. Two workers put two threads in the hand-off at the same
time; a second connection on the only descriptor is accepted in the batch that
closed the first; a pipe of one byte fills up at once. `reactor_workers` uses
symmetry and a view that ignores the fields of destroyed connections, which nothing
reads. The two Reactor runs differ in everything that the proofs hold for alike:
Poller, lossiness, number of workers and pieces. In `descriptors_owners` the four
numbers that are left are fewer than three connections with a file each want, so
both exhaustion and reuse happen. Three bytes are a first, a middle and a last. Of
three calls of a handler one can end the response, one follow it and one precede
it. Three routers can be mounted in a chain, side by side or one in two places,
and four registrations give a chain of two mounts, a middleware and a route. The
queries are all texts of up to four letters over a letter, its encoded form, `=`,
an encoded `=` and `&`, and some longer ones with two pairs. In `service_request` one
header is varied at a time, the others letting the request through, because no two
middlewares read the same one. `long long` ends at 7 and files at 3 bytes, so a limit
can be inside, at the end, behind it and too large to be read. The second program has
what the example lacks: a `Cors` that refuses, at two depths and of different minds, and
one behind a `StaticServe`, two `Cacher`s and two `CookieParser`s on one way, a handler that does nothing, one that
goes on after `end`, and one whose `sendFiles` may throw.

Fairness. `Reactor!Fairness`: the loop thread is scheduled, and so is each worker (weak
fairness of its steps but `Respond`: a handler need not return, as `request_query` shows
of `makeRequest` itself), and poll intervals pass (strong fairness of `Wait(1)`: the loop
cannot go round for ever with the clock standing still).
Nothing is assumed of clients, nor that the kernel reports an event in
particular: connections end through the idle sweep if through nothing else. What that
cannot end is named in `ConnectionsEnd`: a client that goes on sending refreshes
`lastActivity` with each byte and is never swept, and a worker that stays in a handler
keeps its connection, and those queued behind it, in `processingConnections`.
`Delivery`: `write()` is called again as long as the connection is watched (weak
fairness), and a socket that keeps being asked takes bytes some time (strong
fairness of the sending steps, since "would block" may come between): that is a
client that reads; one that does not is `Reactor`'s idle sweep. `Request`: the
loop reads what is there and the worker runs (weak fairness of each); the client
need do nothing, and the sweep need not come. `Service`: a worker that has taken a request runs on (weak fairness
of `Work`). `TurnInVain`, a turn of the loop that changes nothing, is no step
in the sense of fairness, which is as it should be: the loop has run and is where
it was.

### Where code and comments disagree

- `descriptors_insert`: if inserting into `connections` throws, unwinding has
  destroyed the `Connection` and closed its socket before the handler at
  `server.cpp:174` closes the number again, against the comment above it. In
  between, a worker may have opened a file under that number. This is why
  `HoldersAreRight` is stated up to the first such exception.
- `descriptors_shutdown`: `server.h:55` says that the workers are joined while the
  members they use are alive, but the pipe is closed in the destructor's body,
  before any member is destroyed.
- `response_range`: a range like `bytes=2-0` passes `sendFile`'s checks and gives a
  region of negative length.
- `request_query`: a query whose last part has no `=` never lets `makeRequest`
  return, against `server.h:28-31`. `Served` is stated for well-formed queries.

Some properties of `Request`, `Router` and `Service` name what they leave out, because the
code decides it otherwise than a reader might expect: a body whose type is none of the
five that `makeRequest` compares with, `text/plain; charset=utf-8` for one, does not reach
the handler; a route registered with a slash at its end is not found at its own address;
a `StaticServe` that was registered before a `Cors` serves whoever asks; the 400 for a
request that could not be read bears neither version nor date; a cookie's value is cut off at an `=` of its
own; a range that gives only a length from the end (`bytes=-5`) is not understood and
the file goes out whole; `allowOrigin("example.com")` becomes `.example.com`, which
matches names of one letter more than was written; and a `Cors` for everyone sets no
field at all.

## 4. What is proved

For all values of the constants. What is assumed of them is named in each module and
evaluated by TLC on the instances: sizes and bounds are natural numbers, and
`ReactorAssumption`, `DescriptorsAssumption`, `DeliveryAssumption`,
`AnswerAssumption`, `RouterAssumption`, `RequestAssumption`, `ServiceAssumption` say what
else; `ResponseProofs` takes `Bounds`, which `AnswerAssumption` implies.

- `ReactorProofs`: type correctness, each safety invariant of the runs, and
  `Spec => RefinesLifecycle`, for both Pollers: that one filter stands for a number
  (`WatchedOnce`) follows from the invariant, which ties what is watched to the phase. One inductive invariant, `IInv`. None of the
  properties is inductive by itself: that a queued descriptor names the right
  connection (`HandOffsAreCurrent`) needs that the sweep skips it, so that it is in
  `processingConnections`; that needs that a mark is taken off only for the queue's
  head, so that queue entries, connections in a worker's hands and tasks are
  pairwise different (`HandInv`, `QueueInv`); that events are fresh (`BatchInv`)
  needs that what the loop closes while a batch is open is either the event's own
  connection or one that is not watched, and that what it accepts got a number
  nobody has (`MapInv`, `WatchInv`). `WakeupInv` and `LagInv` are inductive next to
  the types. Each action has a lemma; the actions that close connections share
  `CloseStep`.
- `DescriptorsProofs`: types, `NothingLeaks`, `HoldersAreRight` and `CleanStop`. The
  invariant says for each stage of accept who owns the number (`ClientInv`), that
  an object lives exactly as long as somebody refers to it (`ObjectInv`), and where
  a connection and its file are between hand-off and release (`JobInv`, `PhaseInv`,
  `FileInv`): without the last, `TakeFileRegion` could overwrite, and so leak, a file
  that the connection holds already. `HoldersAreRight` holds of a state as long as
  no insertion has thrown; `NothingLeaks` holds without that.
- `DeliveryProofs`: types, `InOrder`, `CompleteIsWhole` and `Spec => RefinesStream`.
  The invariant is an account: what is left and what is out make up what was
  promised, and the file is not touched before the buffer is out.
- `ResponseProofs`: for any number of calls of a handler. The invariant says what `data`
  is: nothing (`Blank`), or a header and after it what the header tells
  (`TellsLength`), no second header unless `sendFiles` has thrown; that a region lies
  within its file (`Slices`); and that `data` never outgrows the calls made, which is
  the bound on `Delivery`'s buffer. One lemma for each way to change the response.
- `AnswerProofs`: all six properties of `answer_end`. Each half's specification is a
  consequence of `Answer`'s (`WorkersHalf`, `Contract`: what `processRequest` takes is a
  response that `Delivery` may be given, in length and region), so both halves' theorems
  hold of the composition through INSTANCE, and `ClientCanTell` follows from
  `FramingHonest` of the one and `CompleteIsWhole` and `InOrder` of the other.
- `RouterProofs`: all five properties of `router_requests`, with the conditions that they
  state (`HonestNotFound` has its three exemptions, `DeletedOnce` its `MountedOnce`). The invariant relates
  `passed` to `trail` in both directions (`OnTrail`, `NoneLeftOut`) and ties the order to
  the numbers of routers, which grow along the trail (`Inward`); what is used of the path
  and what is left of it make up the path (`Way`); a pointer to a mounted router is
  deleted with it or still waiting (`Ending`). `NotFoundIsHonest` needs a second one,
  `Searched`: each router on the trail had no route for what was left and went on by the
  key that this begins with. A place in `Places` that has the address is then followed
  along the trail, by taking the shortest one that contradicts it: there is no
  induction theorem to cite, so a least counterexample takes its place.
- `RequestProofs`: types, `BodyIsWhole`, `LengthsAgree`, `PairsRight`. The invariant: what was read is a
  beginning of what was sent (`Sending`), the worker has a request that
  `isRequestComplete` was true of (`Complete`), a length that has passed `stoi` is an `int`
  and the last header's (`Converted`). What both conversions make of one numeral,
  blanks and sign included, are lemmas about `ReadNumeral`. For `PairsRight` a second
  one, `Paired`: the turns of the loop so far have read the first parts of the query, one
  each, and hold what `Collected` says of these. It rests on what `Split` makes of any
  text (`CutsRead`, `SplitRead`): its cuts are counted off in order (`NthNext`), each
  number below the count belongs to one of them since a one-to-one map of a finite set
  to one of its size misses nothing, and so `find` from the end of one part finds the
  end of the next.
- `ServiceProofs`: `MarksArrive`, `CorsDecides`, `CookiesRight`, `RangeKept`, and
  `RoutersWay`: between any two steps of `Service` the request moves as `Router` lets it, or not at all, so `RouterProofs`'
  invariant and its theorems about guards and addresses hold with real middlewares (the
  steps before `listen()` and after the Server has stopped have no part in it). The
  invariant adds `Own`: nothing is serialized, and no handler chosen, while middlewares
  are asked (`Quiet`, `Flowing`); a `Cors` that was passed lets the origin in (`LetIn`);
  the fields say what the last middleware of each kind said (`Ahead`), and so did they
  when the header was put together, the `Cors` that refused aside (`Headed`). Steps are
  proved about by their shape (`Begins`, `Passes`, `Stops`, `Forbids`, ...), of which
  `Shapes` says that there are no others. `RangeKept` has an invariant of its own,
  `Fetched`: as long as nothing is serialized there is no region, and after that either
  the region is the slice that `getRange`'s limits make of the file or no header says 416
  of positions that it has (`Sliced`, `Beyond`). What `getRange` reads in a header of the
  form that RFC 9110 allows is a lemma (`RangeRead`), from what `RequestProofs` shows of
  `Split` and `ReadNumeral`; that a file's size is a `long long` too is assumed.
  For `CookiesRight` the invariant is `Baked`: there are no cookies before a
  `CookieParser` was passed, and afterwards those of the header, however many parsers
  stood on the way. What is left is about texts: each `=` lies between two cuts of the
  header (`PartAround`), so in a part, which has no other, and the cookie made of that
  part is the one spelled at that place (`CookieOfPart`), whatever decoding does.

Only model-checked: liveness (`ConnectionsEnd`, `ResponsesLeave`, `ResponseEnds`,
`Served`, `EveryRequestAnswered`), which rests on fairness and is out of the prover's
reach. Every other property of the passing runs has its theorem.

## 5. What is not modelled

- Of the middlewares, what they neither decide by nor act on: `Cors`'s list of methods
  (written by `allowMethod`, read nowhere) and of headers (a text sent along), the HTML
  of `getFolderHTML`, the wording of all bodies.
- `setCookie` and header fields that are only stored; the contents of files; what JSON
  bodies hold, whose parser is in a submodule, and what the parts of a multipart body
  hold, which `server.cpp:424-459` takes apart.
- Several requests at a time in one router. After `listen()` nothing in it or in a
  middleware changes, so `Service` needs one request only; a program that calls `use`
  from a handler would race.
- Failing allocations, but for those in `acceptConnections` and `enqueue`. One in
  `serializeHeaders` after `open` (`response.cpp:122-129`) leaks a descriptor.
- A constructor of `Server` that throws (`server.cpp:22-37`): what it had opened stays open.
- What becomes of an exception that is no `std::exception` once it has left
  `processRequest`: that is up to the pool.
- Options of sockets, creation of the epoll instance or kqueue.
- The submodules, which are not in this repository; the benchmark harness, which starts
  and stops other processes in turn and does statistics on their output, and the
  servers that it compares with, which are no part of the library.
- `Answer` and `Service` overlap in `Response`; that the handler inside `Answer` is
  reached by way of `Router` is not composed once more, since `Answer` lets a handler
  make any calls at all.

## 6. Plan

Done, in this order: `Reactor` with its refinement and proofs, `Descriptors` with
proofs, `Delivery` and `ByteStream` with proofs, `Response`, `Answer`, `Router`,
`Request`; then the kqueue Poller in `Reactor` (proofs included), a throwing `enqueue`
in `Descriptors` (proofs included), `Middlewares` and `Service`.

Then the proofs of `Response`, `Answer`, `Router`, `Request` and `Service`, for which some
operators were restated: sums and searches as recursive functions or by what they find
instead of folds, a response's bytes as records.

That completed the theorems for the safety properties of all runs. `CookiesRight` was
restated on the way, place by place: in its first form it failed for a program with two
`CookieParser`s on one way, which the second program of `MCService` now has.

Next, where it says more: the hazards that `PROJECT.json` lists without a property.

------------------------------- MODULE Reactor -------------------------------
(***************************************************************************)
(* The reactor of expresso: one event-loop thread (Server::runEventLoop)   *)
(* that does all the socket i/o, the worker threads of the pool that run   *)
(* Server::processRequest, and what they share: the map `connections', the *)
(* set `processingConnections', the queue `processedConnections' with its  *)
(* mutex, and the wakeup pipe.                                             *)
(*                                                                         *)
(* Every step of the event loop between two points where it can meet       *)
(* another thread is one action; `loop' is its program counter.  A worker  *)
(* takes five steps for a request.  The kernel (poller, fd table, socket   *)
(* buffers) and the clients are the environment.                           *)
(***************************************************************************)
EXTENDS Naturals, Sequences, FiniteSets

CONSTANTS
  Conn,          \* Connection objects, one for every client that ever connects
  Fd,            \* numbers the kernel may give to an accepted socket
  Worker,        \* threads of nexus::pool
  NoConn, NoFd,  \* "no connection" and "no descriptor"
  ServerSocket,  \* the listening socket
  WakeupPipe,    \* the read end of the wakeup pipe
  ReqParts,      \* pieces in which a request arrives at the socket
  RespParts,     \* pieces in which a response leaves through the socket
  PipeCapacity,  \* bytes the wakeup pipe holds before write() fails
  DrainSize,     \* bytes one read() takes from it: sizeof(buffer) = 64
  MaxEvents,     \* Poller::MAX_EVENTS
  IdleTimeout,   \* Server::IDLE_TIMEOUT, in poll intervals
  LossyWakeup,   \* may a write to the wakeup pipe fail with room in the pipe?
  Kqueue         \* is Poller the one of macOS (kqueue) or of Linux (epoll)?

ASSUME ReactorAssumption ==
  /\ NoConn \notin Conn
  /\ NoFd \notin Fd
  /\ ServerSocket \notin Fd /\ WakeupPipe \notin Fd /\ ServerSocket # WakeupPipe
  /\ ReqParts \in Nat \ {0}
  /\ RespParts \in Nat \ {0}
  /\ PipeCapacity \in Nat \ {0}
  /\ DrainSize \in Nat \ {0}
  /\ MaxEvents \in Nat \ {0}
  /\ IdleTimeout \in Nat
  /\ LossyWakeup \in BOOLEAN /\ Kqueue \in BOOLEAN

VARIABLES
  (* clients and kernel *)
  life,          \* of the connection: "unborn", "backlog", "live", "dead"
  sock,          \* the descriptor accept() returned for it
  wire,          \* request pieces that arrived and were not read yet
  peer,          \* the client: "open", "fin" (it sent EOF), "reset"
  window,        \* is there room in the socket's send buffer?
  watched,       \* the poller: what a descriptor is registered for
  (* members of Connection *)
  phase, readBuffer, unsent,
  idle,          \* whole poll intervals since lastActivity, capped
  (* members of Server *)
  connections, processingConnections, processedConnections, pipe,
  (* the event loop: control, and the locals that outlive a step *)
  loop, batch, afterBatch, ready, sweepDue,
  (* the pool, and the connection that handleReadable is handing to it *)
  handing, tasks, wstate, wconn,
  (* history: poll intervals a response has waited in processedConnections *)
  lag

netVars  == <<life, sock, wire, peer, window>>
connVars == <<phase, readBuffer, unsent, idle>>
poolVars == <<handing, tasks, wstate, wconn>>
handVars == <<processedConnections, pipe, ready, lag>>
ctlVars  == <<loop, batch, afterBatch, sweepDue>>
mapVars  == <<watched, connections, processingConnections>>
vars == <<netVars, connVars, mapVars, handVars, ctlVars, poolVars>>

-----------------------------------------------------------------------------
Phases     == {"READING", "PROCESSING", "WRITING"}
Interests  == {"READ", "WRITE"}
LoopStages == {"wait", "dispatch", "setPhase", "enqueue", "accept", "drain",
               "swap", "watch", "sweep"}
WorkerStages == {"idle", "handle", "push", "wake", "release"}
Events == [fd : Fd \cup {ServerSocket, WakeupPipe}, type : Interests,
           conn : Conn \cup {NoConn}]

Elements(s) == {s[i] : i \in DOMAIN s}
Distinct(s) == \A i, j \in DOMAIN s : s[i] = s[j] => i = j

OpenFds == {sock[c] : c \in {d \in Conn : life[d] = "live"}}
HeldByPool(c) == c \in Elements(tasks) \/ \E w \in Worker : wconn[w] = c

TypeOK ==
  /\ life \in [Conn -> {"unborn", "backlog", "live", "dead"}]
  /\ sock \in [Conn -> Fd \cup {NoFd}]
  /\ wire \in [Conn -> 0..ReqParts]
  /\ peer \in [Conn -> {"open", "fin", "reset"}]
  /\ window \in [Conn -> BOOLEAN]
  /\ watched \in [Fd -> SUBSET Interests]
  /\ phase \in [Conn -> Phases]
  /\ readBuffer \in [Conn -> 0..ReqParts]
  /\ unsent \in [Conn -> 0..RespParts]
  /\ idle \in [Conn -> 0..IdleTimeout + 1]
  /\ connections \in [Fd -> Conn \cup {NoConn}]
  /\ processingConnections \subseteq Fd
  /\ processedConnections \in Seq(Fd)
  /\ pipe \in 0..PipeCapacity
  /\ loop \in LoopStages
  /\ batch \subseteq Events
  /\ afterBatch \in BOOLEAN
  /\ ready \in Seq(Fd)
  /\ sweepDue \in BOOLEAN
  /\ handing \in Conn \cup {NoConn}
  /\ tasks \in Seq(Conn)
  /\ wstate \in [Worker -> WorkerStages]
  /\ wconn \in [Worker -> Conn \cup {NoConn}]
  /\ lag \in 0..2

Init ==
  /\ life = [c \in Conn |-> "unborn"]
  /\ sock = [c \in Conn |-> NoFd]
  /\ wire = [c \in Conn |-> 0]
  /\ peer = [c \in Conn |-> "open"]
  /\ window = [c \in Conn |-> TRUE]
  /\ watched = [f \in Fd |-> {}]
  /\ phase = [c \in Conn |-> "READING"]
  /\ readBuffer = [c \in Conn |-> 0]
  /\ unsent = [c \in Conn |-> 0]
  /\ idle = [c \in Conn |-> 0]
  /\ connections = [f \in Fd |-> NoConn]
  /\ processingConnections = {}
  /\ processedConnections = <<>>
  /\ pipe = 0
  /\ loop = "wait"
  /\ batch = {}
  /\ afterBatch = FALSE
  /\ ready = <<>>
  /\ sweepDue = FALSE
  /\ handing = NoConn
  /\ tasks = <<>>
  /\ wstate = [w \in Worker |-> "idle"]
  /\ wconn = [w \in Worker |-> NoConn]
  /\ lag = 0

-----------------------------------------------------------------------------
(* The clients.  A client may stop at any point and never come back.       *)

ClientConnect(c) ==
  /\ life[c] = "unborn"
  /\ life' = [life EXCEPT ![c] = "backlog"]
  /\ UNCHANGED <<sock, wire, peer, window, mapVars, connVars, handVars,
                 ctlVars, poolVars>>

Attached(c) == life[c] \in {"backlog", "live"}

(* The next piece of the one request a client makes, on top of at most     *)
(* ReqParts that bring the request nearer to its end (ReadPartOfRequest).  *)
ClientSend(c) ==
  /\ Attached(c) /\ peer[c] = "open"
  /\ wire[c] + readBuffer[c] < ReqParts
  /\ wire' = [wire EXCEPT ![c] = @ + 1]
  /\ UNCHANGED <<life, sock, peer, window, mapVars, connVars, handVars,
                 ctlVars, poolVars>>

(* close() or shutdown() at the client, or a RST from it.                  *)
ClientLeave(c, how) ==
  /\ Attached(c) /\ peer[c] # "reset" /\ how # peer[c]
  /\ peer' = [peer EXCEPT ![c] = how]
  /\ UNCHANGED <<life, sock, wire, window, mapVars, connVars, handVars,
                 ctlVars, poolVars>>

(* The client reads, so the socket's send buffer has room again.           *)
ClientDrain(c) ==
  /\ Attached(c) /\ ~window[c]
  /\ window' = [window EXCEPT ![c] = TRUE]
  /\ UNCHANGED <<life, sock, wire, peer, mapVars, connVars, handVars, ctlVars,
                 poolVars>>

-----------------------------------------------------------------------------
(* Poller.  epoll has one registration for a descriptor and refuses a      *)
(* second; kqueue has one for each filter.                                 *)

Add(f, type) ==
  /\ Kqueue \/ watched[f] = {}
  /\ watched' = [watched EXCEPT ![f] = @ \cup {type}]

(* Poller::remove, and a variant for the mutation checks.                  *)
Unwatch_Not(f) == UNCHANGED watched
Unwatch(f) == watched' = [watched EXCEPT ![f] = {}]

Readable(c) == wire[c] > 0 \/ peer[c] # "open"
Writable(c) == window[c] \/ peer[c] = "reset"

Reported(c) ==
  {type \in watched[sock[c]] : IF type = "READ" THEN Readable(c) ELSE Writable(c)}

(* What wait() makes of it.  kqueue reports every filter as what it is;    *)
(* epoll reports a descriptor once, and wait() calls every event that      *)
(* lacks EPOLLOUT a READ, also the EPOLLHUP or EPOLLERR of a connection    *)
(* that was registered for writing.                                        *)
TypesOf(c) ==
  IF ~Kqueue /\ Reported(c) # {} /\ peer[c] = "reset"
  THEN Reported(c) \cup {"READ"}
  ELSE Reported(c)

EventsOf(c) == [fd : {sock[c]}, conn : {c}, type : TypesOf(c)]

ServiceFds ==
  {f \in {ServerSocket} : \E c \in Conn : life[c] = "backlog"}
    \cup {f \in {WakeupPipe} : pipe > 0}

PendingEvents ==
  [fd : ServiceFds, type : {"READ"}, conn : {NoConn}]
    \cup UNION {EventsOf(c) : c \in {d \in Conn : life[d] = "live"}}

PendingFds == {e.fd : e \in PendingEvents}

(* What one wait() can return: as much of what is ready as fits in the     *)
(* array.                                                                  *)
BatchSize ==
  LET size == Cardinality(IF Kqueue THEN PendingEvents ELSE PendingFds)
  IN  IF size < MaxEvents THEN size ELSE MaxEvents

Batches ==
  {B \in SUBSET PendingEvents :
     /\ Kqueue \/ \A d, e \in B : d.fd = e.fd => d = e
     /\ Cardinality(B) = BatchSize}

(* Time passes while the loop waits: a wait() that finds something ready   *)
(* returns early (dt = 0) or as the interval ends, one that does not       *)
(* returns after the whole interval (dt = 1).                              *)
Wait(dt) ==
  /\ loop = "wait"
  /\ \E B \in Batches :
       /\ B = {} => dt = 1
       /\ batch' = B
  /\ idle' = [c \in Conn |->
                IF life[c] = "live" /\ idle[c] <= IdleTimeout
                THEN idle[c] + dt ELSE idle[c]]
  /\ lag' = IF processedConnections # <<>> /\ lag < 2 THEN lag + dt ELSE lag
  /\ sweepDue' = (sweepDue \/ dt = 1)
  /\ loop' = "dispatch"
  /\ UNCHANGED <<netVars, mapVars, phase, readBuffer, unsent,
                 processedConnections, pipe, ready, afterBatch, poolVars>>

(* epoll_wait() or kevent() failed, as when a signal interrupts it.        *)
WaitFails ==
  /\ loop = "wait"
  /\ batch' = {}
  /\ loop' = "dispatch"
  /\ UNCHANGED <<netVars, mapVars, connVars, handVars, afterBatch, sweepDue,
                 poolVars>>

-----------------------------------------------------------------------------
(* Server::runEventLoop, the body of its `for': events in any order.       *)

Take(e) == loop = "dispatch" /\ e \in batch /\ batch' = batch \ {e}

(* The handler for the event's type finds a connection in the right phase. *)
Expected(e) ==
  /\ e.fd \in Fd
  /\ connections[e.fd] # NoConn
  /\ phase[connections[e.fd]] = IF e.type = "READ" THEN "READING" ELSE "WRITING"

IgnoreEvent(e) ==
  /\ Take(e) /\ e.fd \in Fd /\ ~Expected(e)
  /\ UNCHANGED <<netVars, mapVars, connVars, handVars, loop, afterBatch,
                 sweepDue, poolVars>>

AcceptEvent(e) ==
  /\ Take(e) /\ e.fd = ServerSocket
  /\ loop' = "accept"
  /\ UNCHANGED <<netVars, mapVars, connVars, handVars, afterBatch, sweepDue,
                 poolVars>>

WakeupEvent(e) ==
  /\ Take(e) /\ e.fd = WakeupPipe
  /\ loop' = "drain" /\ afterBatch' = FALSE
  /\ UNCHANGED <<netVars, mapVars, connVars, handVars, sweepDue, poolVars>>

(* When the batch is done, and what comes next, with variants for the      *)
(* mutation checks: in the middle of the batch, and without the flush that *)
(* server.cpp:136 makes regardless of wakeups.                             *)
BatchOver_Early == TRUE
BatchOver == batch = {}

AfterBatch_NoFlush == "sweep"
AfterBatch == "drain"

BatchDone ==
  /\ loop = "dispatch" /\ BatchOver
  /\ loop' = AfterBatch /\ afterBatch' = TRUE
  /\ UNCHANGED <<netVars, mapVars, connVars, handVars, batch, sweepDue,
                 poolVars>>

(* Server::closeConnection for every connection of S.  ~Connection closes  *)
(* the socket when the last shared_ptr goes, so a connection that a worker *)
(* still refers to keeps its descriptor.                                   *)
CloseConnections(S) ==
  /\ watched' = [f \in Fd |-> IF \E c \in S : sock[c] = f THEN {}
                                                          ELSE watched[f]]
  /\ connections' = [f \in Fd |-> IF \E c \in S : sock[c] = f THEN NoConn
                                                              ELSE connections[f]]
  /\ life' = [c \in Conn |-> IF c \in S /\ ~HeldByPool(c) THEN "dead" ELSE life[c]]

-----------------------------------------------------------------------------
(* Server::handleReadable with Connection::read.                           *)

ReadEvent(e) ==
  /\ Take(e) /\ e.type = "READ" /\ Expected(e)
  /\ UNCHANGED <<afterBatch, sweepDue, handVars>>

(* recv() met the end of the stream or an error.  This also drops a        *)
(* request that is complete by now: read() reports CLOSED either way.      *)
ReadUntilClosed(e) ==
  /\ ReadEvent(e)
  /\ LET c == connections[e.fd] IN
       /\ peer[c] # "open"
       /\ CloseConnections({c})
  /\ UNCHANGED <<sock, wire, peer, window, connVars, processingConnections,
                 loop, poolVars>>

(* The bytes of all the recv() calls of one read(), with a variant for the *)
(* mutation checks that appends more than recv() returned.                 *)
Received_TooMuch(c) == wire[c] + 1
Received(c) == wire[c]

(* recv() took what there was and the request is not complete.  Only the   *)
(* client knows where its request ends: a piece may bring it no nearer to  *)
(* its end (one more header line, a longer Content-Length), and nothing    *)
(* limits readBuffer, so readBuffer counts the n pieces that do.           *)
ReadPartOfRequest(e, n) ==
  /\ ReadEvent(e)
  /\ LET c == connections[e.fd] IN
       /\ peer[c] = "open"
       /\ n <= Received(c) /\ readBuffer[c] + n < ReqParts
       /\ readBuffer' = [readBuffer EXCEPT ![c] = @ + n]
       /\ wire' = [wire EXCEPT ![c] = 0]
       /\ idle' = [idle EXCEPT ![c] = 0]
  /\ UNCHANGED <<life, sock, peer, window, mapVars, phase, unsent, loop, poolVars>>

(* What handleReadable does with a connection that it has taken off the    *)
(* poller and marked, in this order: the worker may run as soon as the     *)
(* task is in the queue.  The variant is for the mutation checks.          *)
HandOff_EnqueueFirst == <<"enqueue", "setPhase">>
HandOff == <<"setPhase", "enqueue">>

(* The request is complete: from here on a worker is to own the connection. *)
ReadWholeRequest(e) ==
  /\ ReadEvent(e)
  /\ LET c == connections[e.fd] IN
       /\ peer[c] = "open"
       /\ readBuffer[c] + Received(c) >= ReqParts
       /\ readBuffer' = [readBuffer EXCEPT ![c] = @ + Received(c)]
       /\ wire' = [wire EXCEPT ![c] = 0]
       /\ idle' = [idle EXCEPT ![c] = 0]
       /\ Unwatch(e.fd)
       /\ processingConnections' = processingConnections \cup {e.fd}
       /\ handing' = c
       /\ loop' = Head(HandOff)
  /\ UNCHANGED <<life, sock, peer, window, phase, unsent, connections, tasks,
                 wstate, wconn>>

(* One of the two steps of HandOff; after the second the event is done.    *)
HandOffStep(stage) ==
  /\ loop = stage
  /\ IF stage = Head(HandOff)
     THEN loop' = HandOff[2] /\ UNCHANGED handing
     ELSE loop' = "dispatch" /\ handing' = NoConn
  /\ UNCHANGED <<netVars, mapVars, readBuffer, unsent, idle, handVars, batch,
                 afterBatch, sweepDue, wstate, wconn>>

SetPhase ==
  /\ HandOffStep("setPhase")
  /\ phase' = [phase EXCEPT ![handing] = "PROCESSING"]
  /\ UNCHANGED tasks

Enqueue ==
  /\ HandOffStep("enqueue")
  /\ tasks' = Append(tasks, handing)
  /\ UNCHANGED phase

-----------------------------------------------------------------------------
(* Server::handleWritable with Connection::write.                          *)

WriteEvent(e) ==
  /\ Take(e) /\ e.type = "WRITE" /\ Expected(e)
  /\ UNCHANGED <<loop, afterBatch, sweepDue, handVars>>

(* send() took some pieces, n of them left, and filled the send buffer.    *)
WritePart(e, n) ==
  /\ WriteEvent(e)
  /\ LET c == connections[e.fd] IN
       /\ window[c] /\ peer[c] # "reset"
       /\ n < unsent[c]
       /\ unsent' = [unsent EXCEPT ![c] = n]
       /\ window' = [window EXCEPT ![c] = FALSE]
       /\ idle' = [idle EXCEPT ![c] = 0]
  /\ UNCHANGED <<life, sock, wire, peer, mapVars, phase, readBuffer, poolVars>>

(* The rest of the response went out, or send() failed: either way the     *)
(* connection is closed, there is no keep-alive.                           *)
WriteToTheEnd(e) ==
  /\ WriteEvent(e)
  /\ LET c == connections[e.fd] IN
       /\ CloseConnections({c})
       /\ unsent' = [unsent EXCEPT ![c] = IF peer[c] = "reset" THEN @ ELSE 0]
  /\ UNCHANGED <<sock, wire, peer, window, phase, readBuffer, idle,
                 processingConnections, poolVars>>

-----------------------------------------------------------------------------
(* Server::acceptConnections.                                              *)

AcceptOne(c, f) ==
  /\ loop = "accept"
  /\ life[c] = "backlog" /\ f \in Fd \ OpenFds
  /\ life' = [life EXCEPT ![c] = "live"]
  /\ sock' = [sock EXCEPT ![c] = f]
  /\ connections' = [connections EXCEPT ![f] = c]
  /\ Add(f, "READ")
  /\ UNCHANGED <<wire, peer, window, connVars, processingConnections, handVars,
                 ctlVars, poolVars>>

(* The constructor, the map or the poller threw: the client is dropped.    *)
AcceptSetupFails(c) ==
  /\ loop = "accept"
  /\ life[c] = "backlog" /\ OpenFds # Fd
  /\ life' = [life EXCEPT ![c] = "dead"]
  /\ UNCHANGED <<sock, wire, peer, window, mapVars, connVars, handVars,
                 ctlVars, poolVars>>

(* accept() failed: nobody waits (EAGAIN), no descriptor is free (EMFILE), *)
(* a signal came (EINTR), the client went away (ECONNABORTED).             *)
AcceptReturns ==
  /\ loop = "accept"
  /\ loop' = "dispatch"
  /\ UNCHANGED <<netVars, mapVars, connVars, handVars, batch, afterBatch,
                 sweepDue, poolVars>>

-----------------------------------------------------------------------------
(* Server::flushProcessedConnections, called for a wakeup event and, with  *)
(* afterBatch, once after every batch.                                     *)

(* The variant for the mutation checks reads the pipe after the swap too.  *)
Draining_Late == loop \in {"drain", "watch"}
Draining == loop = "drain"

DrainPipe ==
  /\ Draining /\ pipe > 0
  /\ pipe' = IF pipe > DrainSize THEN pipe - DrainSize ELSE 0
  /\ UNCHANGED <<netVars, mapVars, connVars, processedConnections, ready, lag,
                 ctlVars, poolVars>>

PipeEmpty ==
  /\ loop = "drain" /\ pipe = 0
  /\ loop' = "swap"
  /\ UNCHANGED <<netVars, mapVars, connVars, handVars, batch, afterBatch,
                 sweepDue, poolVars>>

Swap ==
  /\ loop = "swap"
  /\ ready' = processedConnections
  /\ processedConnections' = <<>>
  /\ lag' = 0
  /\ loop' = "watch"
  /\ UNCHANGED <<netVars, mapVars, connVars, pipe, batch, afterBatch, sweepDue,
                 poolVars>>

(* processingConnections.erase, and a variant for the mutation checks.     *)
Unmark_Not(f) == UNCHANGED processingConnections
Unmark(f) == processingConnections' = processingConnections \ {f}

PopReady ==
  /\ loop = "watch" /\ ready # <<>>
  /\ ready' = Tail(ready)
  /\ Unmark(Head(ready))

WatchForWriting ==
  /\ PopReady
  /\ IF connections[Head(ready)] = NoConn THEN UNCHANGED watched
                                         ELSE Add(Head(ready), "WRITE")
  /\ UNCHANGED <<netVars, connVars, connections, processedConnections, pipe,
                 lag, ctlVars, poolVars>>

(* poller.add threw.                                                       *)
WatchFails ==
  /\ PopReady
  /\ connections[Head(ready)] # NoConn
  /\ CloseConnections({connections[Head(ready)]})
  /\ UNCHANGED <<sock, wire, peer, window, connVars, processedConnections,
                 pipe, lag, ctlVars, poolVars>>

FlushDone ==
  /\ loop = "watch" /\ ready = <<>>
  /\ loop' = IF afterBatch THEN "sweep" ELSE "dispatch"
  /\ UNCHANGED <<netVars, mapVars, connVars, handVars, batch, afterBatch,
                 sweepDue, poolVars>>

-----------------------------------------------------------------------------
(* Server::closeIdleConnections, when a second went by since the last time. *)

(* The variant for the mutation checks skips nobody.                       *)
Skipped_Nobody == {}
Skipped == processingConnections

IdleConnections ==
  {c \in Conn : \E f \in Fd \ Skipped : connections[f] = c /\ idle[c] > IdleTimeout}

Sweep ==
  /\ loop = "sweep"
  /\ CloseConnections(IF sweepDue THEN IdleConnections ELSE {})
  /\ sweepDue' = FALSE
  /\ loop' = "wait"
  /\ UNCHANGED <<sock, wire, peer, window, connVars, processingConnections,
                 handVars, batch, afterBatch, poolVars>>

-----------------------------------------------------------------------------
(* The pool.  A worker runs Server::processRequest for a connection; the   *)
(* handler itself touches nothing that is shared.                          *)

TakeTask(w) ==
  /\ wstate[w] = "idle" /\ tasks # <<>>
  /\ wstate' = [wstate EXCEPT ![w] = "handle"]
  /\ wconn' = [wconn EXCEPT ![w] = Head(tasks)]
  /\ tasks' = Tail(tasks)
  /\ UNCHANGED <<netVars, mapVars, connVars, handVars, ctlVars, handing>>

(* makeRequest, handleRequest, res.end() and Connection::setResponse.      *)
Respond(w) ==
  /\ wstate[w] = "handle"
  /\ wstate' = [wstate EXCEPT ![w] = "push"]
  /\ unsent' = [unsent EXCEPT ![wconn[w]] = RespParts]
  /\ idle' = [idle EXCEPT ![wconn[w]] = 0]
  /\ phase' = [phase EXCEPT ![wconn[w]] = "WRITING"]
  /\ UNCHANGED <<netVars, mapVars, readBuffer, handVars, ctlVars, handing,
                 tasks, wconn>>

Push(w) ==
  /\ wstate[w] = "push"
  /\ wstate' = [wstate EXCEPT ![w] = "wake"]
  /\ processedConnections' = Append(processedConnections, sock[wconn[w]])
  /\ UNCHANGED <<netVars, mapVars, connVars, pipe, ready, lag, ctlVars,
                 handing, tasks, wconn>>

(* write(wakeupPipe[1], ...): it fails when the pipe is full, and with      *)
(* LossyWakeup at any time.                                                *)
AfterWrite ==
  {IF pipe < PipeCapacity THEN pipe + 1 ELSE pipe}
    \cup IF LossyWakeup THEN {pipe} ELSE {}

Wake(w) ==
  /\ wstate[w] = "wake"
  /\ wstate' = [wstate EXCEPT ![w] = "release"]
  /\ pipe' \in AfterWrite
  /\ UNCHANGED <<netVars, mapVars, connVars, processedConnections, ready, lag,
                 ctlVars, handing, tasks, wconn>>

(* The task, and with it its reference to the connection, is destroyed.    *)
Release(w) ==
  /\ wstate[w] = "release"
  /\ wstate' = [wstate EXCEPT ![w] = "idle"]
  /\ wconn' = [wconn EXCEPT ![w] = NoConn]
  /\ life' = IF connections[sock[wconn[w]]] = wconn[w] THEN life
             ELSE [life EXCEPT ![wconn[w]] = "dead"]
  /\ UNCHANGED <<sock, wire, peer, window, mapVars, connVars, handVars,
                 ctlVars, handing, tasks>>

-----------------------------------------------------------------------------
Client ==
  \E c \in Conn :
    \/ ClientConnect(c) \/ ClientSend(c) \/ ClientDrain(c)
    \/ \E how \in {"fin", "reset"} : ClientLeave(c, how)

HandleEvent ==
  \E e \in batch :
    \/ IgnoreEvent(e) \/ AcceptEvent(e) \/ WakeupEvent(e)
    \/ ReadUntilClosed(e) \/ ReadWholeRequest(e)
    \/ \E n \in 0..ReqParts : ReadPartOfRequest(e, n)
    \/ \E n \in 1..RespParts : WritePart(e, n)
    \/ WriteToTheEnd(e)

Accept ==
  \/ \E c \in Conn : AcceptSetupFails(c) \/ \E f \in Fd : AcceptOne(c, f)
  \/ AcceptReturns

Flush == DrainPipe \/ PipeEmpty \/ Swap \/ WatchForWriting \/ WatchFails \/ FlushDone

EventLoop ==
  \/ Wait(0) \/ Wait(1) \/ WaitFails
  \/ HandleEvent \/ SetPhase \/ Enqueue \/ BatchDone \/ Accept \/ Flush \/ Sweep

WorkerStep(w) == TakeTask(w) \/ Respond(w) \/ Push(w) \/ Wake(w) \/ Release(w)

Next == Client \/ EventLoop \/ \E w \in Worker : WorkerStep(w)

Spec == Init /\ [][Next]_vars

(* The loop thread and the workers are scheduled, and the clock moves: the *)
(* loop cannot go round for ever without a poll interval passing.  A       *)
(* handler need not return (Respond), and clients owe nothing.             *)
Fairness ==
  /\ WF_vars(EventLoop)
  /\ SF_vars(Wait(1))
  /\ \A w \in Worker : WF_vars(TakeTask(w) \/ Push(w) \/ Wake(w) \/ Release(w))

FairSpec == Spec /\ Fairness

-----------------------------------------------------------------------------
(* Properties.                                                             *)

(* A worker works on c, or has answered it and not told the loop yet.      *)
WorksOn(w, c) == wconn[w] = c /\ wstate[w] \in {"handle", "push"}

(* Connections that left the event loop's hands: queued for the pool, or   *)
(* with a worker.                                                          *)
InHand == {c \in Conn : c \in Elements(tasks) \/ \E w \in Worker : WorksOn(w, c)}

(* connection.h:16, "The event loop and a worker never own a connection at *)
(* the same time": while a worker has a connection the loop keeps it in    *)
(* its map and among processingConnections, does not watch it and holds no *)
(* event for it; and no second worker has it or can get it.                *)
ExclusiveOwnership ==
  /\ \A c \in InHand :
       /\ life[c] = "live" /\ connections[sock[c]] = c
       /\ sock[c] \in processingConnections
       /\ watched[sock[c]] = {}
       /\ \A e \in batch : e.fd # sock[c]
  /\ Distinct(tasks)
  /\ \A w \in Worker, c \in Conn : WorksOn(w, c) =>
       /\ c \notin Elements(tasks)
       /\ \A v \in Worker \ {w} : ~WorksOn(v, c)

(* The queue between the workers and the loop holds descriptors, not       *)
(* connections.  Each of them still names the connection whose response it *)
(* announces, unsent and unwatched, and none is queued twice.              *)
Queued == Elements(processedConnections) \cup Elements(ready)

HandOffsAreCurrent ==
  /\ \A f \in Queued :
       /\ connections[f] # NoConn
       /\ phase[connections[f]] = "WRITING" /\ unsent[connections[f]] = RespParts
       /\ watched[f] = {}
  /\ Distinct(ready) /\ Distinct(processedConnections)
  /\ Elements(ready) \cap Elements(processedConnections) = {}

(* What handleReadable has marked and not given to the pool yet.           *)
Handing == {handing} \ {NoConn}

(* server.h:46: processingConnections is exactly the descriptors that a    *)
(* worker has or is about to get, or that wait in the queue.  One left     *)
(* behind would exempt the next connection with that descriptor from the   *)
(* idle sweep.                                                             *)
ProcessingConnectionsExact ==
  processingConnections = {sock[c] : c \in InHand \cup Handing} \cup Queued

(* A queued response always has a wakeup on the way: unless the loop is    *)
(* about to swap the queue, the pipe has a byte or a worker that pushed is *)
(* about to write one.                                                     *)
NoLostWakeup ==
  (processedConnections # <<>> /\ loop \notin {"drain", "swap"}) =>
    pipe > 0 \/ \E w \in Worker : wstate[w] = "wake"

(* poller_kqueue.cpp:45, "A connection is only ever watched for one filter *)
(* at a time", though nothing in the Poller would refuse a second: it is   *)
(* the handlers and the workers together that never ask for one.           *)
OneFilter == \A f \in Fd : \A s, t \in watched[f] : s = t

(* server.cpp:134: "a lost wakeup can only delay a response by one poll    *)
(* interval".                                                              *)
OnePollInterval == lag <= 1

(* An event is handled for the connection it was reported for, although    *)
(* descriptors are closed and given out again while the batch is handled.  *)
EventsAreFresh ==
  \A e \in batch : e.fd \in Fd => connections[e.fd] = e.conn

(* The life cycle of module ConnectionLifecycle: what is not accepted is   *)
(* new, what is not in the map (any longer) is closed.                     *)
Unmapped(c) == life[c] = "dead" \/ (life[c] = "live" /\ connections[sock[c]] # c)

stageOf == [c \in Conn |-> IF life[c] \in {"unborn", "backlog"} THEN "new"
                           ELSE IF Unmapped(c) THEN "closed" ELSE phase[c]]

Lifecycle == INSTANCE ConnectionLifecycle WITH stage <- stageOf

(* Server refines the life cycle: READING, PROCESSING, WRITING, closed, in *)
(* this order, each entered once.                                          *)
RefinesLifecycle == Lifecycle!Spec

(* Every accepted connection is closed in the end, also one whose client   *)
(* falls silent at any point, if no worker stays in a handler for ever,    *)
(* and unless its client goes on sending for ever: every read() refreshes  *)
(* lastActivity (connection.cpp:69) and readBuffer has no limit, so a      *)
(* client that trickles bytes is never swept.                              *)
HandlersReturn == \A w \in Worker : []<>(wstate[w] # "handle")
KeepsSending(c) == []<><<ClientSend(c)>>_vars

ConnectionsEnd ==
  HandlersReturn => \A c \in Conn : KeepsSending(c) \/ Lifecycle!Ends(c)

(* server.cpp:135: a response that a worker queued is never stranded: the  *)
(* loop watches its connection for writing or closes it.                   *)
ResponsesLeave ==
  \A f \in Fd :
    f \in Elements(processedConnections) ~> ("WRITE" \in watched[f] \/ connections[f] = NoConn)

=============================================================================

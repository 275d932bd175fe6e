----------------------------- MODULE Descriptors -----------------------------
(***************************************************************************)
(* Who closes which descriptor.  The process has one table of descriptors; *)
(* open(), accept() and pipe() hand out the lowest free number, and close()*)
(* frees a number whoever calls it.  Three kinds of owners hold numbers:   *)
(* the Server (its socket, poller and wakeup pipe), each Connection object *)
(* (its socket and the file it streams), and the Response on a worker's    *)
(* stack (the file it opened).  A number that is closed twice, or used     *)
(* after it was closed, may by then belong to somebody else.               *)
(*                                                                         *)
(* Module Reactor keeps the protocol between loop and workers in detail;   *)
(* here that protocol is as coarse as the ownership of descriptors allows, *)
(* and setup failures, file handles and the destruction of the Server,     *)
(* which Reactor leaves out, are in detail.                                *)
(***************************************************************************)
EXTENDS Integers

CONSTANTS
  Conn,            \* the connections clients ever make
  Worker,          \* threads of nexus::pool
  NoConn,          \* "no connection"
  Fd,              \* the numbers of the table (RLIMIT_NOFILE)
  MayStop          \* may an exception end listen(), and with it the Server?

(* Numbers of the Server's own descriptors after its constructor.          *)
pollerFd == 0
serverSocket == 1
wakeupRead == 2
wakeupWrite == 3
NoFd == -1          \* FileRegion::fd of no file

ASSUME DescriptorsAssumption ==
  /\ NoConn \notin Conn
  /\ Fd \subseteq Nat
  /\ {pollerFd, serverSocket, wakeupRead, wakeupWrite} \subseteq Fd
  /\ MayStop \in BOOLEAN

(* What a number may stand for in the kernel's table.                      *)
Kinds == {"free", "poller", "listener", "pipeOut", "pipeIn", "socket", "file"}
Descriptions == [kind : Kinds, of : Conn \cup {NoConn}]
Own(kind) == [kind |-> kind, of |-> NoConn]
Free == Own("free")
Poller == Own("poller")
Listener == Own("listener")
PipeOut == Own("pipeOut")
PipeIn == Own("pipeIn")
Socket(c) == [kind |-> "socket", of |-> c]
File(c) == [kind |-> "file", of |-> c]

VARIABLES
  table,                 \* number -> what it stands for
  arrived,               \* connections that accept() returned so far
  socket,                \* Connection::socket, NoFd when there is no object
  file,                  \* Connection::file.fd
  phase,                 \* Connection::phase
  responseFile,          \* Response::file.fd of the response to a connection
  connections, processingConnections, processedConnections,
  tasks,                 \* connections in the pool's queue
  loop,                  \* what the main thread does
  client,                \* locals of acceptConnections: connection and number
  insertThrew,           \* has inserting into `connections' failed? (history)
  step, job              \* of each worker: its step and its connection

serverVars == <<connections, processingConnections, processedConnections, tasks>>
workerVars == <<step, job>>
objectVars == <<socket, file, phase, responseFile>>
clientVars == <<client, insertThrew>>
vars == <<table, arrived, objectVars, serverVars, loop, clientVars,
                 workerVars>>

LoopStages ==
  {"serve", "construct", "insert", "watch", "catch", "closeSocket",
   "closeReadEnd", "closeWriteEnd", "join", "members", "stopped"}

TypeOK ==
  /\ table \in [Fd -> Descriptions]
  /\ arrived \subseteq Conn
  /\ socket \in [Conn -> Fd \cup {NoFd}]
  /\ file \in [Conn -> Fd \cup {NoFd}]
  /\ responseFile \in [Conn -> Fd \cup {NoFd}]
  /\ phase \in [Conn -> {"READING", "PROCESSING", "WRITING"}]
  /\ connections \subseteq Conn
  /\ processingConnections \subseteq Conn
  /\ processedConnections \subseteq Conn
  /\ tasks \subseteq Conn
  /\ loop \in LoopStages
  /\ client \in [conn : Conn \cup {NoConn}, fd : Fd \cup {NoFd}]
  /\ insertThrew \in BOOLEAN
  /\ step \in [Worker -> {"idle", "handle", "push", "wake", "release"}]
  /\ job \in [Worker -> Conn \cup {NoConn}]

(* A Server whose constructor has returned.  One that throws is no part of *)
(* this: no destructor runs then, and what server.cpp:22-37 has opened     *)
(* before stays open.                                                      *)
Init ==
  /\ table = [n \in Fd |-> IF n = pollerFd THEN Poller
                           ELSE IF n = serverSocket THEN Listener
                           ELSE IF n = wakeupRead THEN PipeOut
                           ELSE IF n = wakeupWrite THEN PipeIn
                           ELSE Free]
  /\ arrived = {}
  /\ socket = [c \in Conn |-> NoFd]
  /\ file = [c \in Conn |-> NoFd]
  /\ responseFile = [c \in Conn |-> NoFd]
  /\ phase = [c \in Conn |-> "READING"]
  /\ connections = {}
  /\ processingConnections = {}
  /\ processedConnections = {}
  /\ tasks = {}
  /\ loop = "serve"
  /\ client = [conn |-> NoConn, fd |-> NoFd]
  /\ insertThrew = FALSE
  /\ step = [w \in Worker |-> "idle"]
  /\ job = [w \in Worker |-> NoConn]

-----------------------------------------------------------------------------
(* The kernel.  close() of a number that is free is an error nobody sees.  *)

LowestFree == {n \in Fd : /\ table[n] = Free
                          /\ \A m \in Fd : table[m] = Free => n <= m}

Opened(n, what) == [table EXCEPT ![n] = what]
Closed(numbers) == [n \in Fd |-> IF n \in numbers THEN Free ELSE table[n]]

(* Bug: ~Connection forgets the file.                                      *)
ClosedByDestructor_NoFile(c) == {socket[c]}

(* Connection::~Connection closes these, and its members are gone.         *)
ClosedByDestructor(c) == {file[c], socket[c]}

Destroyed(gone) ==
  /\ socket' = [c \in Conn |-> IF c \in gone THEN NoFd ELSE socket[c]]
  /\ file' = [c \in Conn |-> IF c \in gone THEN NoFd ELSE file[c]]

HeldByPool(c) == c \in tasks \/ \E w \in Worker : job[w] = c

(* The map lets go of these connections.  An object whose last shared_ptr  *)
(* this was is destroyed here; the others are destroyed by their worker.   *)
EraseFromMap(gone) ==
  LET last == {c \in gone : ~HeldByPool(c)}
  IN  /\ connections' = connections \ gone
      /\ table' = Closed(UNION {ClosedByDestructor(c) : c \in last})
      /\ Destroyed(last)

GoTo(from, to) == loop = from /\ loop' = to

-----------------------------------------------------------------------------
(* Server::acceptConnections                                               *)

Accept(c) ==
  /\ loop = "serve"
  /\ c \notin arrived
  /\ \E n \in LowestFree :
       /\ table' = Opened(n, Socket(c))
       /\ client' = [conn |-> c, fd |-> n]
  /\ arrived' = arrived \cup {c}
  /\ loop' = "construct"
  /\ UNCHANGED <<objectVars, serverVars, insertThrew, workerVars>>

(* make_shared<Connection>: the constructor takes the number over, unless  *)
(* it throws, and then there is no object and no destructor.               *)
Construct ==
  /\ loop = "construct"
  /\ socket' = [socket EXCEPT ![client.conn] = client.fd]
  /\ loop' = "insert"
  /\ UNCHANGED <<table, arrived, file, phase, responseFile, serverVars,
                 clientVars, workerVars>>

ConstructThrows ==
  /\ loop = "construct"
  /\ loop' = "catch"
  /\ UNCHANGED <<table, arrived, objectVars, serverVars, clientVars,
                 workerVars>>

Insert ==
  /\ loop = "insert"
  /\ connections' = connections \cup {client.conn}
  /\ loop' = "watch"
  /\ UNCHANGED <<table, arrived, objectVars, processingConnections,
                 processedConnections, tasks, clientVars, workerVars>>

(* connections[clientSocket] throws: unwinding drops the only shared_ptr,  *)
(* and the object closes the socket on its way out.                        *)
InsertThrows ==
  /\ loop = "insert"
  /\ table' = Closed(ClosedByDestructor(client.conn))
  /\ Destroyed({client.conn})
  /\ loop' = "catch"
  /\ insertThrew' = TRUE
  /\ UNCHANGED <<arrived, phase, responseFile, serverVars, client, workerVars>>

Watch ==
  /\ loop = "watch"
  /\ loop' = "serve"
  /\ client' = [conn |-> NoConn, fd |-> NoFd]
  /\ UNCHANGED <<table, arrived, objectVars, serverVars, insertThrew,
                 workerVars>>

WatchThrows ==
  /\ loop = "watch"
  /\ loop' = "catch"
  /\ UNCHANGED <<table, arrived, objectVars, serverVars, clientVars,
                 workerVars>>

(* The handler: erase from the map, or close the number oneself.           *)
Catch ==
  /\ loop = "catch"
  /\ IF client.conn \in connections
     THEN EraseFromMap({client.conn})
     ELSE /\ table' = Closed({client.fd})
          /\ UNCHANGED <<connections, socket, file>>
  /\ loop' = "serve"
  /\ client' = [conn |-> NoConn, fd |-> NoFd]
  /\ UNCHANGED <<arrived, phase, responseFile, processingConnections,
                 processedConnections, tasks, insertThrew, workerVars>>

-----------------------------------------------------------------------------
(* The rest of the event loop.                                             *)

(* handleReadable with a complete request *)
HandOff(c) ==
  /\ loop = "serve"
  /\ c \in connections
  /\ phase[c] = "READING"
  /\ processingConnections' = processingConnections \cup {c}
  /\ phase' = [phase EXCEPT ![c] = "PROCESSING"]
  /\ tasks' = tasks \cup {c}
  /\ UNCHANGED <<table, arrived, socket, file, responseFile, connections,
                 processedConnections, loop, clientVars, workerVars>>

(* threadPool.enqueue throws: the connection is marked but nobody has it,  *)
(* and the exception leaves listen(), since nothing around the loop        *)
(* catches it.                                                             *)
HandOffThrows(c) ==
  /\ MayStop
  /\ GoTo("serve", "closeSocket")
  /\ c \in connections
  /\ phase[c] = "READING"
  /\ processingConnections' = processingConnections \cup {c}
  /\ phase' = [phase EXCEPT ![c] = "PROCESSING"]
  /\ UNCHANGED <<table, arrived, socket, file, responseFile, connections,
                 processedConnections, tasks, clientVars, workerVars>>

(* flushProcessedConnections *)
Flush ==
  /\ loop = "serve"
  /\ processedConnections # {}
  /\ processingConnections' = processingConnections \ processedConnections
  /\ processedConnections' = {}
  /\ UNCHANGED <<table, arrived, objectVars, connections, tasks, loop,
                 clientVars, workerVars>>

(* closeConnection: the client hung up, the response is out, or the sweep  *)
(* found the connection idle; never while a worker has it (Reactor).       *)
CloseConnection(c) ==
  /\ loop = "serve"
  /\ c \in connections \ processingConnections
  /\ EraseFromMap({c})
  /\ UNCHANGED <<arrived, phase, responseFile, processingConnections,
                 processedConnections, tasks, loop, clientVars, workerVars>>

-----------------------------------------------------------------------------
(* The workers: Server::processRequest                                     *)

Move(w, from, to) ==
  /\ step[w] = from
  /\ step' = [step EXCEPT ![w] = to]

TakeTask(w) ==
  /\ Move(w, "idle", "handle")
  /\ \E c \in tasks :
       /\ job' = [job EXCEPT ![w] = c]
       /\ tasks' = tasks \ {c}
  /\ UNCHANGED <<table, arrived, objectVars, connections,
                 processingConnections, processedConnections, loop, clientVars>>

(* Response::sendFile opens the file; hasEnded keeps a handler from doing  *)
(* so twice.                                                               *)
OpenFile(w) ==
  /\ step[w] = "handle"
  /\ responseFile[job[w]] = NoFd
  /\ \E n \in LowestFree :
       /\ table' = Opened(n, File(job[w]))
       /\ responseFile' = [responseFile EXCEPT ![job[w]] = n]
  /\ UNCHANGED <<arrived, socket, file, phase, serverVars, loop, clientVars,
                 workerVars>>

(* Bug: takeFileRegion without `this->file = FileRegion()'.                *)
TakeFileRegion_Keep(c) ==
  /\ file' = [file EXCEPT ![c] = responseFile[c]]
  /\ UNCHANGED responseFile

(* Response::takeFileRegion and Connection::setResponse                    *)
TakeFileRegion(c) ==
  /\ file' = [file EXCEPT ![c] = responseFile[c]]
  /\ responseFile' = [responseFile EXCEPT ![c] = NoFd]

Respond(w) ==
  /\ Move(w, "handle", "push")
  /\ TakeFileRegion(job[w])
  /\ phase' = [phase EXCEPT ![job[w]] = "WRITING"]
  /\ UNCHANGED <<table, arrived, socket, serverVars, loop, clientVars, job>>

Push(w) ==
  /\ Move(w, "push", "wake")
  /\ processedConnections' = processedConnections \cup {job[w]}
  /\ UNCHANGED <<table, arrived, objectVars, connections,
                 processingConnections, tasks, loop, clientVars, job>>

(* write(wakeupPipe[1], ...): what arrives where is WakeupReachesThePipe.  *)
Wake(w) ==
  /\ Move(w, "wake", "release")
  /\ UNCHANGED <<table, arrived, objectVars, serverVars, loop, clientVars,
                 job>>

(* ~Response, then the task's shared_ptr goes.                             *)
Release(w) ==
  LET c == job[w]
      last == IF c \in connections THEN {} ELSE {c}
  IN  /\ Move(w, "release", "idle")
      /\ job' = [job EXCEPT ![w] = NoConn]
      /\ table' = Closed({responseFile[c]}
                         \cup UNION {ClosedByDestructor(d) : d \in last})
      /\ Destroyed(last)
      /\ responseFile' = [responseFile EXCEPT ![c] = NoFd]
      /\ UNCHANGED <<arrived, phase, serverVars, loop, clientVars>>

-----------------------------------------------------------------------------
(* Server::~Server, when an exception leaves listen(): the body closes the *)
(* socket and both ends of the pipe, and then the members are destroyed in *)
(* the opposite order of their declarations, the pool first.               *)

Stop ==
  /\ MayStop
  /\ GoTo("serve", "closeSocket")
  /\ UNCHANGED <<table, arrived, objectVars, serverVars, clientVars,
                 workerVars>>

CloseMember(from, n, to) ==
  /\ GoTo(from, to)
  /\ table' = Closed({n})
  /\ UNCHANGED <<arrived, objectVars, serverVars, clientVars, workerVars>>

CloseListener == CloseMember("closeSocket", serverSocket, "closeReadEnd")
CloseReadEnd == CloseMember("closeReadEnd", wakeupRead, "closeWriteEnd")
CloseWriteEnd == CloseMember("closeWriteEnd", wakeupWrite, "join")

(* nexus::pool either runs what is queued or drops it.                     *)
DropTasks ==
  /\ loop = "join"
  /\ tasks # {}
  /\ tasks' = {}
  /\ UNCHANGED <<table, arrived, objectVars, connections,
                 processingConnections, processedConnections, loop, clientVars,
                 workerVars>>

JoinWorkers ==
  /\ GoTo("join", "members")
  /\ tasks = {}
  /\ \A w \in Worker : step[w] = "idle"
  /\ UNCHANGED <<table, arrived, objectVars, serverVars, clientVars,
                 workerVars>>

DestroyMembers ==
  /\ GoTo("members", "stopped")
  /\ connections' = {}
  /\ table' = Closed({pollerFd}
                     \cup UNION {ClosedByDestructor(c) : c \in connections})
  /\ Destroyed(connections)
  /\ UNCHANGED <<arrived, phase, responseFile, processingConnections,
                 processedConnections, tasks, clientVars, workerVars>>

-----------------------------------------------------------------------------
AcceptStep ==
  \/ \E c \in Conn : Accept(c)
  \/ Construct \/ ConstructThrows \/ Insert \/ InsertThrows
  \/ Watch \/ WatchThrows \/ Catch

ServeStep ==
  \/ Flush
  \/ \E c \in Conn : HandOff(c) \/ HandOffThrows(c) \/ CloseConnection(c)

WorkerStep(w) ==
  \/ TakeTask(w) \/ OpenFile(w) \/ Respond(w)
  \/ Push(w) \/ Wake(w) \/ Release(w)

StopStep ==
  \/ Stop \/ CloseListener \/ CloseReadEnd \/ CloseWriteEnd
  \/ DropTasks \/ JoinWorkers \/ DestroyMembers

Next ==
  \/ AcceptStep \/ ServeStep \/ StopStep
  \/ \E w \in Worker : WorkerStep(w)

Spec == Init /\ [][Next]_vars

-----------------------------------------------------------------------------
(* Properties                                                              *)

(* The descriptor accept() returned is still acceptConnections's own.      *)
RawClientSocket ==
  loop = "construct" \/ (loop = "catch" /\ client.conn \notin connections)

(* The members of the Server that are still open.                          *)
HasListener ==
  loop \notin {"closeReadEnd", "closeWriteEnd", "join", "members", "stopped"}
HasReadEnd == loop \notin {"closeWriteEnd", "join", "members", "stopped"}
HasWriteEnd == loop \notin {"join", "members", "stopped"}

ConnectionHolds(c) ==
  /\ socket[c] # NoFd => table[socket[c]] = Socket(c)
  /\ file[c] # NoFd => table[file[c]] = File(c)
  /\ responseFile[c] # NoFd => table[responseFile[c]] = File(c)

ServerHolds ==
  /\ HasListener => table[serverSocket] = Listener
  /\ HasReadEnd => table[wakeupRead] = PipeOut
  /\ HasWriteEnd => table[wakeupWrite] = PipeIn

OwnersHold ==
  /\ \A c \in Conn : ConnectionHolds(c)
  /\ RawClientSocket => table[client.fd] = Socket(client.conn)
  /\ ServerHolds

(* Nobody uses or closes a number that is not theirs: as long as an owner  *)
(* holds a number, the number stands for what that owner opened.  Closing  *)
(* a descriptor twice, or handing a FileRegion on without giving it up     *)
(* (response.cpp:188, file_region.h:7), breaks this as soon as another     *)
(* thread opens something in between; that inserting into `connections'    *)
(* may fail is the one way to it (see RawFdIsOurs).                        *)
HoldersAreRight == ~insertThrew => OwnersHold

(* The owner of n, who will close it.                                      *)
OwnedByConnection(n, c) ==
  \/ table[n] = Socket(c) /\ n = socket[c]
  \/ table[n] = Socket(c) /\ RawClientSocket /\ client = [conn |-> c, fd |-> n]
  \/ table[n] = File(c) /\ n \in {file[c], responseFile[c]}

OwnedByServer(n) ==
  \/ n = pollerFd /\ loop # "stopped"
  \/ n = serverSocket /\ HasListener
  \/ n = wakeupRead /\ HasReadEnd
  \/ n = wakeupWrite /\ HasWriteEnd

(* No descriptor leaks once the Server is constructed: whatever is open    *)
(* has an owner that will close it.  Error paths of acceptConnections,     *)
(* responses that are never written and connections that outlive their     *)
(* place in the map are where it could.                                    *)
NothingLeaks ==
  \A n \in Fd :
    table[n] # Free =>
      OwnedByServer(n) \/ \E c \in Conn : OwnedByConnection(n, c)

(* Destroying the Server returns every descriptor the process opened for   *)
(* it, whatever the workers were doing when it began.                      *)
CleanStop == loop = "stopped" => \A n \in Fd : table[n] = Free

(* server.cpp:172-173: "If the connection made it into the map, erasing it *)
(* closes the socket through the destructor; otherwise the raw fd is still *)
(* ours to close".                                                         *)
RawFdIsOurs ==
  loop = "catch" /\ client.conn \notin connections
    => table[client.fd] = Socket(client.conn)

(* server.h:55-56: the pool's "destructor joins the workers while the      *)
(* members they use are still alive".  A worker about to write to          *)
(* wakeupPipe[1] uses that member.                                         *)
WakeupReachesThePipe ==
  \A w \in Worker : step[w] = "wake" => table[wakeupWrite] = PipeIn

=============================================================================

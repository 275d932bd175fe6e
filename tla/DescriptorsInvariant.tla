------------------------ MODULE DescriptorsInvariant ------------------------
(***************************************************************************)
(* The inductive invariant behind the theorems about Descriptors.          *)
(***************************************************************************)
EXTENDS Descriptors

Setup == {"construct", "insert", "watch", "catch"}

(* A connection nobody accepted yet has left no trace.                     *)
FreshInv ==
  \A c \in Conn \ arrived :
    /\ socket[c] = NoFd
    /\ phase[c] = "READING"
    /\ c \notin connections
    /\ client.conn # c

(* The connection that acceptConnections is setting up, and who owns its   *)
(* descriptor at each point: the local variable, the object, or nobody.    *)
ClientInv ==
  /\ loop \in Setup => client.conn \in arrived /\ client.fd \in Fd
  /\ loop \in Setup => phase[client.conn] = "READING"
  /\ loop = "construct" =>
       client.conn \notin connections /\ socket[client.conn] = NoFd
  /\ loop = "insert" =>
       client.conn \notin connections /\ socket[client.conn] = client.fd
  /\ loop = "watch" => client.conn \in connections
  /\ loop = "catch" /\ client.conn \notin connections =>
       socket[client.conn] = NoFd

(* A Connection object lives exactly as long as somebody refers to it.     *)
ObjectInv ==
  \A c \in Conn :
    /\ c \in connections => socket[c] # NoFd
    /\ HeldByPool(c) => socket[c] # NoFd
    /\ socket[c] # NoFd => \/ c \in connections
                           \/ HeldByPool(c)
                           \/ loop = "insert" /\ client.conn = c
    /\ socket[c] = NoFd => file[c] = NoFd

(* A worker has one connection from TakeTask to Release, and no two have   *)
(* the same.                                                               *)
JobInv ==
  /\ \A w \in Worker : step[w] = "idle" <=> job[w] = NoConn
  /\ \A v, w \in Worker : job[v] = job[w] /\ job[v] # NoConn => v = w
  /\ \A w \in Worker : job[w] \notin tasks

(* Where a connection is between hand-off and release.                     *)
PhaseInv ==
  /\ \A c \in tasks : /\ phase[c] = "PROCESSING"
                     /\ c \in connections \cap processingConnections
  /\ \A c \in processedConnections : phase[c] = "WRITING"
  /\ \A w \in Worker :
       /\ step[w] = "handle" => phase[job[w]] = "PROCESSING"
       /\ step[w] \in {"push", "wake", "release"} => phase[job[w]] = "WRITING"
       /\ step[w] \in {"handle", "push"} =>
            /\ job[w] \in processingConnections
            /\ job[w] \notin processedConnections

(* An open file belongs to the Response before setResponse and to the      *)
(* Connection after it.                                                    *)
FileInv ==
  \A c \in Conn :
    /\ file[c] # NoFd => phase[c] = "WRITING"
    /\ responseFile[c] # NoFd => \E w \in Worker : job[w] = c /\ step[w] = "handle"

(* What the joined pool leaves behind.                                     *)
StopInv ==
  loop \in {"members", "stopped"} =>
    /\ tasks = {}
    /\ \A w \in Worker : step[w] = "idle"
    /\ loop = "stopped" => connections = {}

OwnershipInv ==
  /\ TypeOK /\ FreshInv /\ ClientInv /\ ObjectInv
  /\ JobInv /\ PhaseInv /\ FileInv /\ StopInv

IInv ==
  /\ OwnershipInv
  /\ NothingLeaks
  /\ HoldersAreRight

=============================================================================

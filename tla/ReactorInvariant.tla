--------------------------- MODULE ReactorInvariant ---------------------------
(***************************************************************************)
(* The inductive invariant of Reactor: what its safety properties need to  *)
(* be true of every reachable state, in parts.  MCReactor checks it on     *)
(* small instances, ReactorProofs proves it.                               *)
(***************************************************************************)
EXTENDS Reactor

(* The map and the kernel agree: a mapped connection is alive under its    *)
(* descriptor, and no two live connections share one.                      *)
MapInv ==
  /\ \A f \in Fd : connections[f] # NoConn =>
       life[connections[f]] = "live" /\ sock[connections[f]] = f
  /\ \A c \in Conn : life[c] = "live" => sock[c] \in Fd
  /\ \A c, d \in Conn :
       life[c] = "live" /\ life[d] = "live" /\ sock[c] = sock[d] => c = d
  /\ \A c \in Conn : life[c] \in {"unborn", "backlog"} => phase[c] = "READING"

(* A client that has sent all of its request sends nothing more.           *)
BufferInv == \A c \in Conn : wire[c] + readBuffer[c] <= ReqParts

(* The poller watches only what the loop owns, for what its phase needs.   *)
WatchInv ==
  /\ \A f \in Fd : \A type \in watched[f] :
       /\ connections[f] # NoConn
       /\ f \notin processingConnections
       /\ phase[connections[f]] = IF type = "READ" THEN "READING" ELSE "WRITING"
  /\ \A f \in Fd : connections[f] # NoConn /\ f \notin processingConnections =>
       phase[connections[f]] # "PROCESSING"

(* Connections that a worker has or will get.                              *)
HandInv ==
  /\ \A w \in Worker : wstate[w] # "idle" =>
       wconn[w] \in Conn /\ life[wconn[w]] \in {"live", "dead"}
  /\ \A c \in InHand :
       /\ life[c] = "live" /\ connections[sock[c]] = c
       /\ sock[c] \in processingConnections
  /\ \A c \in Elements(tasks) : phase[c] = "PROCESSING"
  /\ \A w \in Worker :
       /\ wstate[w] = "handle" => phase[wconn[w]] = "PROCESSING"
       /\ wstate[w] = "push" => /\ phase[wconn[w]] = "WRITING"
                                /\ unsent[wconn[w]] = RespParts
  /\ Distinct(tasks)
  /\ \A w \in Worker, c \in Conn : WorksOn(w, c) =>
       /\ c \notin Elements(tasks)
       /\ \A v \in Worker \ {w} : ~WorksOn(v, c)

(* Descriptors on their way back to the loop.                              *)
QueueInv ==
  /\ \A f \in Queued :
       /\ connections[f] # NoConn
       /\ phase[connections[f]] = "WRITING"
       /\ unsent[connections[f]] = RespParts
       /\ f \in processingConnections
       /\ connections[f] \notin InHand
  /\ Distinct(processedConnections)
  /\ Distinct(ready)
  /\ Elements(processedConnections) \cap Elements(ready) = {}

(* The connection on its way to the pool: marked, and nobody else has it.  *)
HandOffInv ==
  /\ (loop \in {"setPhase", "enqueue"}) <=> (handing # NoConn)
  /\ \A c \in Handing :
       /\ life[c] = "live" /\ connections[sock[c]] = c
       /\ sock[c] \in processingConnections /\ sock[c] \notin Queued
       /\ c \notin InHand
       /\ phase[c] = IF loop = "setPhase" THEN "READING" ELSE "PROCESSING"

(* Nothing else is among processingConnections.                            *)
ProcessingInv ==
  \A f \in processingConnections :
    f \in Queued \/ connections[f] \in InHand \cup Handing

(* Events of the batch at hand: one for a descriptor, still watched, still *)
(* for the same connection; none are left when the loop flushes for the    *)
(* last time, sweeps or waits.  `ready' lives for one flush.               *)
BatchInv ==
  /\ \A e \in batch : e.fd \in Fd =>
       /\ connections[e.fd] = e.conn
       /\ watched[e.fd] # {}
  /\ \A d, e \in batch : d.fd = e.fd => d = e
  /\ loop \in {"wait", "sweep"} => batch = {}
  /\ loop \in {"drain", "swap", "watch"} /\ afterBatch => batch = {}
  /\ loop # "watch" => ready = <<>>

(* The wakeup protocol, and what bounds the wait of a queued response.     *)
WakeupInv == LossyWakeup \/ NoLostWakeup
LagInv == lag <= 1 /\ (loop \in {"watch", "sweep", "wait"} => lag = 0)

IInv ==
  /\ TypeOK /\ MapInv /\ BufferInv /\ WatchInv /\ HandInv /\ HandOffInv
  /\ QueueInv /\ ProcessingInv /\ BatchInv /\ WakeupInv /\ LagInv

=============================================================================

---------------------------- MODULE ReactorProofs ----------------------------
(***************************************************************************)
(* Theorems about Reactor: its safety properties and the refinement of     *)
(* ConnectionLifecycle, for any number of connections, descriptors and     *)
(* workers.  All follow from IInv of ReactorInvariant; there is a lemma    *)
(* for every action.                                                       *)
(***************************************************************************)
EXTENDS ReactorInvariant, TLAPS

USE DEF vars, netVars, connVars, mapVars, handVars, ctlVars, poolVars

-----------------------------------------------------------------------------
(* What Append, Head and Tail do to the elements of a queue.               *)

LEMMA AppendElements ==
  ASSUME NEW S, NEW s \in Seq(S), NEW x \in S
  PROVE  /\ Append(s, x) \in Seq(S)
         /\ Elements(Append(s, x)) = Elements(s) \cup {x}
         /\ Distinct(s) /\ x \notin Elements(s) => Distinct(Append(s, x))
  <1>1. /\ Len(s) \in Nat /\ DOMAIN s = 1..Len(s)
        /\ Append(s, x) \in Seq(S) /\ DOMAIN Append(s, x) = 1..(Len(s) + 1)
        /\ \A i \in 1..Len(s) : Append(s, x)[i] = s[i]
        /\ Append(s, x)[Len(s) + 1] = x
    OBVIOUS
  <1>2. \A i \in 1..(Len(s) + 1) : i \in 1..Len(s) \/ i = Len(s) + 1
    BY <1>1
  <1>3. \A i \in 1..Len(s) : i \in 1..(Len(s) + 1) /\ i # Len(s) + 1
    BY <1>1
  <1>4. Elements(Append(s, x)) = Elements(s) \cup {x}
    BY <1>1, <1>2, <1>3 DEF Elements
  <1>5. Distinct(s) /\ x \notin Elements(s) => Distinct(Append(s, x))
    BY <1>1, <1>2 DEF Elements, Distinct
  <1>6. QED
    BY <1>1, <1>4, <1>5

LEMMA TailElements ==
  ASSUME NEW S, NEW s \in Seq(S), s # <<>>
  PROVE  /\ Head(s) \in S /\ Tail(s) \in Seq(S)
         /\ Elements(s) = Elements(Tail(s)) \cup {Head(s)}
         /\ Distinct(s) => Distinct(Tail(s)) /\ Head(s) \notin Elements(Tail(s))
  <1>1. Len(s) \in Nat /\ Len(s) > 0 /\ DOMAIN s = 1..Len(s)
    OBVIOUS
  <1>2. /\ Tail(s) \in Seq(S) /\ DOMAIN Tail(s) = 1..(Len(s) - 1)
        /\ \A i \in 1..(Len(s) - 1) : Tail(s)[i] = s[i + 1]
    BY <1>1
  <1>3. Head(s) = s[1] /\ Head(s) \in S
    BY <1>1
  <1>4. ASSUME NEW i \in DOMAIN s, s[i] # Head(s)
        PROVE  s[i] \in Elements(Tail(s))
    <2>1. i - 1 \in DOMAIN Tail(s) /\ Tail(s)[i - 1] = s[i]
      BY <1>1, <1>2, <1>3, <1>4
    <2>2. QED
      BY <2>1 DEF Elements
  <1>5. \A x \in Elements(Tail(s)) : x \in Elements(s)
    BY <1>1, <1>2 DEF Elements
  <1>6. Elements(s) = Elements(Tail(s)) \cup {Head(s)}
    BY <1>1, <1>3, <1>4, <1>5 DEF Elements
  <1>7. Distinct(s) => Distinct(Tail(s)) /\ Head(s) \notin Elements(Tail(s))
    BY <1>1, <1>2, <1>3 DEF Elements, Distinct
  <1>8. QED
    BY <1>2, <1>3, <1>6, <1>7

LEMMA EmptyElements == Elements(<<>>) = {} /\ Distinct(<<>>)
  BY DEF Elements, Distinct

-----------------------------------------------------------------------------
(* Types.                                                                  *)

LEMMA TypeInit ==
  ASSUME ReactorAssumption, Init
  PROVE  TypeOK
  <1>1. /\ 0 \in 0..ReqParts /\ 0 \in 0..RespParts /\ 0 \in 0..PipeCapacity
        /\ 0 \in 0..IdleTimeout + 1 /\ 0 \in 0..2
    BY DEF ReactorAssumption
  <1>2. <<>> \in Seq(Fd) /\ <<>> \in Seq(Conn)
    OBVIOUS
  <1>3. /\ life \in [Conn -> {"unborn", "backlog", "live", "dead"}]
        /\ sock \in [Conn -> Fd \cup {NoFd}]
        /\ wire \in [Conn -> 0..ReqParts]
        /\ peer \in [Conn -> {"open", "fin", "reset"}]
        /\ window \in [Conn -> BOOLEAN]
        /\ watched \in [Fd -> SUBSET Interests]
    BY <1>1 DEF Init, Interests
  <1>4. /\ phase \in [Conn -> Phases]
        /\ readBuffer \in [Conn -> 0..ReqParts]
        /\ unsent \in [Conn -> 0..RespParts]
        /\ idle \in [Conn -> 0..IdleTimeout + 1]
        /\ connections \in [Fd -> Conn \cup {NoConn}]
    BY <1>1 DEF Init, Phases
  <1>5. wstate \in [Worker -> WorkerStages] /\ wconn \in [Worker -> Conn \cup {NoConn}]
    BY DEF Init, WorkerStages
  <1>6. QED
    BY <1>1, <1>2, <1>3, <1>4, <1>5 DEF Init, TypeOK, LoopStages

LEMMA TypeStep ==
  ASSUME ReactorAssumption, TypeOK, MapInv, BufferInv, HandInv, HandOffInv, [Next]_vars
  PROVE  TypeOK'
  <1> USE DEF TypeOK, Phases, Interests, LoopStages, WorkerStages, ReactorAssumption
  <1>1. ASSUME NEW c \in Conn,
               \/ ClientConnect(c) \/ ClientSend(c) \/ ClientDrain(c)
               \/ \E how \in {"fin", "reset"} : ClientLeave(c, how)
        PROVE  TypeOK'
    <2>1. CASE ClientConnect(c)
      BY <2>1 DEF ClientConnect
    <2>2. CASE ClientSend(c)
      <3>1. wire'[c] \in 0..ReqParts
        BY <2>2 DEF ClientSend
      <3>2. QED
        BY <2>2, <3>1 DEF ClientSend
    <2>3. CASE ClientDrain(c)
      BY <2>3 DEF ClientDrain
    <2>4. ASSUME NEW how \in {"fin", "reset"}, ClientLeave(c, how) PROVE TypeOK'
      BY <2>4 DEF ClientLeave
    <2>5. QED
      BY <1>1, <2>1, <2>2, <2>3, <2>4
  <1>2. ASSUME NEW dt \in {0, 1}, Wait(dt) PROVE TypeOK'
    <2>1. batch' \subseteq Events
      <3>1. ASSUME NEW c \in Conn, life[c] = "live", NEW e \in EventsOf(c)
            PROVE  e \in Events
        <4>1. sock[c] \in Fd /\ TypesOf(c) \subseteq Interests
          BY <3>1 DEF MapInv, TypesOf, Reported
        <4>2. QED
          BY <3>1, <4>1 DEF EventsOf, Events
      <3>2. PendingEvents \subseteq Events
        BY <3>1 DEF PendingEvents, ServiceFds, Events
      <3>3. QED
        BY <1>2, <3>2 DEF Wait, Batches
    <2>2. \A c \in Conn : /\ idle[c] <= IdleTimeout => idle[c] + dt \in 0..IdleTimeout + 1
                          /\ idle[c] \in 0..IdleTimeout + 1
      OBVIOUS
    <2>3. idle' \in [Conn -> 0..IdleTimeout + 1]
      BY <1>2, <2>2 DEF Wait
    <2>4. lag' \in 0..2
      BY <1>2 DEF Wait
    <2>5. sweepDue' \in BOOLEAN
      BY <1>2, Zenon DEF Wait
    <2>6. QED
      BY <1>2, <2>1, <2>3, <2>4, <2>5 DEF Wait
  <1>3. CASE WaitFails \/ BatchDone \/ AcceptReturns \/ PipeEmpty \/ FlushDone
    BY ZenonT(60), <1>3 DEF WaitFails, BatchDone, AcceptReturns, PipeEmpty, FlushDone,
             BatchOver, AfterBatch
  <1>4. ASSUME NEW e \in batch, IgnoreEvent(e) \/ AcceptEvent(e) \/ WakeupEvent(e)
        PROVE  TypeOK'
    BY ZenonT(60), <1>4 DEF IgnoreEvent, AcceptEvent, WakeupEvent, Take
  <1>5. ASSUME NEW e \in batch, ReadUntilClosed(e) PROVE TypeOK'
    BY <1>5 DEF ReadUntilClosed, ReadEvent, Take, CloseConnections
  <1>6. ASSUME NEW e \in batch, NEW n \in 0..ReqParts, ReadPartOfRequest(e, n)
        PROVE  TypeOK'
    <2>1. PICK c \in Conn : c = connections[e.fd]
      BY <1>6 DEF ReadPartOfRequest, ReadEvent, Expected
    <2>2. /\ readBuffer' = [readBuffer EXCEPT ![c] = readBuffer[c] + n]
          /\ readBuffer[c] + n < ReqParts
      BY <1>6, <2>1 DEF ReadPartOfRequest
    <2>3. readBuffer' \in [Conn -> 0..ReqParts]
      <3>1. readBuffer[c] \in 0..ReqParts
        OBVIOUS
      <3>2. readBuffer[c] + n \in 0..ReqParts
        BY <2>2, <3>1
      <3>3. QED
        BY <2>2, <3>2
    <2>4. wire' = [wire EXCEPT ![c] = 0] /\ idle' = [idle EXCEPT ![c] = 0]
      BY <1>6, <2>1 DEF ReadPartOfRequest
    <2>5. wire' \in [Conn -> 0..ReqParts] /\ idle' \in [Conn -> 0..IdleTimeout + 1]
      BY <2>4
    <2>6. QED
      BY <1>6, <2>3, <2>5 DEF ReadPartOfRequest, ReadEvent, Take
  <1>7. ASSUME NEW e \in batch, ReadWholeRequest(e) PROVE TypeOK'
    <2>1. PICK c \in Conn : c = connections[e.fd]
      BY <1>7 DEF ReadWholeRequest, ReadEvent, Expected
    <2>2. handing' \in Conn \cup {NoConn} /\ loop' \in LoopStages
      BY <1>7, <2>1 DEF ReadWholeRequest, HandOff
    <2>3. readBuffer' = [readBuffer EXCEPT ![c] = readBuffer[c] + wire[c]]
      BY <1>7, <2>1 DEF ReadWholeRequest, Received
    <2>4. readBuffer[c] + wire[c] \in 0..ReqParts
      <3>1. readBuffer[c] \in 0..ReqParts /\ wire[c] \in 0..ReqParts
        OBVIOUS
      <3>2. wire[c] + readBuffer[c] <= ReqParts
        BY DEF BufferInv
      <3>3. QED
        BY <3>1, <3>2
    <2>5. wire' = [wire EXCEPT ![c] = 0] /\ idle' = [idle EXCEPT ![c] = 0]
      BY <1>7, <2>1 DEF ReadWholeRequest
    <2>6. /\ readBuffer' \in [Conn -> 0..ReqParts] /\ wire' \in [Conn -> 0..ReqParts]
          /\ idle' \in [Conn -> 0..IdleTimeout + 1]
      BY <2>3, <2>4, <2>5
    <2>7. watched' \in [Fd -> SUBSET Interests] /\ processingConnections' \subseteq Fd
      BY <1>7 DEF ReadWholeRequest, ReadEvent, Expected, Unwatch
    <2>8. QED
      BY <1>7, <2>2, <2>6, <2>7 DEF ReadWholeRequest, ReadEvent, Take
  <1>8. ASSUME NEW e \in batch, NEW n \in 1..RespParts, WritePart(e, n) PROVE TypeOK'
    BY SMTT(60), <1>8 DEF WritePart, WriteEvent, Take, Expected
  <1>9. ASSUME NEW e \in batch, WriteToTheEnd(e) PROVE TypeOK'
    BY SMTT(60), <1>9 DEF WriteToTheEnd, WriteEvent, Take, CloseConnections, Expected
  <1>10. ASSUME NEW c \in Conn, AcceptSetupFails(c) \/ \E f \in Fd : AcceptOne(c, f)
         PROVE  TypeOK'
    <2>1. CASE AcceptSetupFails(c)
      BY <2>1 DEF AcceptSetupFails
    <2>2. ASSUME NEW f \in Fd, AcceptOne(c, f) PROVE TypeOK'
      BY <2>2 DEF AcceptOne, Add
    <2>3. QED
      BY <1>10, <2>1, <2>2
  <1>11. CASE DrainPipe
    BY <1>11 DEF DrainPipe, Draining
  <1>12. CASE Swap
    BY <1>12 DEF Swap
  <1>13. CASE WatchForWriting
    <2>1. watched' \in [Fd -> SUBSET Interests]
      <3>1. Head(ready) \in Fd
        BY <1>13 DEF WatchForWriting, PopReady
      <3>2. \/ watched' = watched
            \/ watched' = [watched EXCEPT ![Head(ready)] =
                                        watched[Head(ready)] \cup {"WRITE"}]
        BY <1>13 DEF WatchForWriting, Add
      <3>3. watched \in [Fd -> SUBSET Interests]
        OBVIOUS
      <3>4. watched[Head(ready)] \cup {"WRITE"} \in SUBSET Interests
        BY <3>1, <3>3
      <3> HIDE DEF TypeOK, Interests
      <3>5. QED
        BY <3>2, <3>3, <3>4
    <2>2. QED
      BY <1>13, <2>1, TailElements DEF WatchForWriting, PopReady, Unmark
  <1>14. CASE WatchFails
    BY <1>14, TailElements DEF WatchFails, PopReady, CloseConnections, Unmark
  <1>15. CASE Sweep
    BY <1>15 DEF Sweep, CloseConnections
  <1>7b. CASE SetPhase \/ Enqueue
    <2>1. handing \in Conn
      BY <1>7b DEF SetPhase, Enqueue, HandOffStep, HandOffInv
    <2>2. phase' \in [Conn -> Phases]
      BY <1>7b, <2>1 DEF SetPhase, Enqueue
    <2>5. tasks' \in Seq(Conn)
      <3>1. tasks \in Seq(Conn) /\ (tasks' = tasks \/ tasks' = Append(tasks, handing))
        BY <1>7b DEF SetPhase, Enqueue
      <3> HIDE DEF TypeOK
      <3>2. QED
        BY <2>1, <3>1, AppendElements
    <2>3. handing' \in Conn \cup {NoConn} /\ loop' \in LoopStages
      BY <1>7b DEF SetPhase, Enqueue, HandOffStep, HandOff
    <2>4. QED
      <3>1. UNCHANGED <<netVars, mapVars, readBuffer, unsent, idle, handVars, batch,
                        afterBatch, sweepDue, wstate, wconn>>
        BY <1>7b DEF SetPhase, Enqueue, HandOffStep
      <3>2. QED
        BY ZenonT(60), <2>2, <2>3, <2>5, <3>1
  <1>16. ASSUME NEW w \in Worker, TakeTask(w) PROVE TypeOK'
    BY <1>16, TailElements DEF TakeTask
  <1>17. ASSUME NEW w \in Worker, Respond(w) PROVE TypeOK'
    BY SMTT(60), <1>17 DEF Respond, HandInv
  <1>18. ASSUME NEW w \in Worker, Push(w) PROVE TypeOK'
    BY SMTT(60), <1>18, AppendElements DEF Push, HandInv, MapInv, InHand, WorksOn
  <1>19. ASSUME NEW w \in Worker, Wake(w) PROVE TypeOK'
    BY <1>19 DEF Wake, AfterWrite
  <1>20. ASSUME NEW w \in Worker, Release(w) PROVE TypeOK'
    BY <1>20 DEF Release
  <1>21. CASE UNCHANGED vars
    BY <1>21
  <1>22. QED
    <2>1. CASE Client
      BY <2>1, <1>1 DEF Client
    <2>2. CASE EventLoop
      BY <2>2, <1>2, <1>3, <1>4, <1>5, <1>6, <1>7, <1>8, <1>9, <1>10, <1>11,
         <1>12, <1>13, <1>14, <1>15, <1>7b DEF EventLoop, HandleEvent, Accept, Flush
    <2>3. ASSUME NEW w \in Worker, WorkerStep(w) PROVE TypeOK'
      BY <2>3, <1>16, <1>17, <1>18, <1>19, <1>20 DEF WorkerStep
    <2>4. QED
      BY <2>1, <2>2, <2>3, <1>21 DEF Next

-----------------------------------------------------------------------------
(* Who owns what: the parts of the invariant that relate the map, the      *)
(* poller, the pool and the queues.                                        *)

Ownership == MapInv /\ WatchInv /\ HandInv /\ QueueInv /\ ProcessingInv

(* Steps that change none of it.                                           *)
Quiet == UNCHANGED <<life, sock, phase, unsent, mapVars, poolVars,
                     processedConnections, ready>>

LEMMA StepCases ==
  ASSUME [Next]_vars
  PROVE  \/ Quiet
         \/ \E c \in Conn : ClientConnect(c) \/ AcceptSetupFails(c)
         \/ \E c \in Conn, f \in Fd : AcceptOne(c, f)
         \/ \E e \in batch : ReadUntilClosed(e) \/ ReadWholeRequest(e) \/ WriteToTheEnd(e)
         \/ \E e \in batch, n \in 1..RespParts : WritePart(e, n)
         \/ SetPhase \/ Enqueue
         \/ Swap \/ WatchForWriting \/ WatchFails \/ Sweep
         \/ \E w \in Worker : WorkerStep(w)
  <1>1. CASE Client
    BY <1>1 DEF Client, ClientSend, ClientDrain, ClientLeave, Quiet
  <1>2. ASSUME NEW dt \in {0, 1}, Wait(dt) PROVE Quiet
    BY <1>2 DEF Wait, Quiet
  <1>3. CASE WaitFails \/ BatchDone \/ AcceptReturns \/ DrainPipe \/ PipeEmpty \/ FlushDone
    BY <1>3 DEF WaitFails, BatchDone, AcceptReturns, DrainPipe, PipeEmpty, FlushDone, Quiet,
             BatchOver, AfterBatch, Draining
  <1>4. ASSUME NEW e \in batch,
               \/ IgnoreEvent(e) \/ AcceptEvent(e) \/ WakeupEvent(e)
               \/ \E n \in 0..ReqParts : ReadPartOfRequest(e, n)
        PROVE  Quiet
    BY <1>4 DEF IgnoreEvent, AcceptEvent, WakeupEvent, ReadPartOfRequest, ReadEvent, Quiet
  <1>5. CASE UNCHANGED vars
    BY <1>5 DEF Quiet
  <1>6. QED
    BY <1>1, <1>2, <1>3, <1>4, <1>5
       DEF Next, EventLoop, HandleEvent, Accept, Flush

LEMMA QuietStep == Ownership /\ Quiet => Ownership'
  BY DEF Ownership, Quiet, MapInv, WatchInv, HandInv, QueueInv, ProcessingInv,
         InHand, WorksOn, Queued, Handing

LEMMA ElementsInSet ==
  ASSUME NEW S, NEW s \in Seq(S)
  PROVE  Elements(s) \subseteq S
  BY DEF Elements

LEMMA SubsetOK ==
  ASSUME TypeOK
  PROVE  /\ InHand \subseteq Conn
         /\ Elements(processedConnections) \subseteq Fd
         /\ Elements(ready) \subseteq Fd
         /\ Queued \subseteq Fd
  BY ElementsInSet DEF TypeOK, InHand, Queued

(* Closing connections whose descriptors are not (any longer) among        *)
(* processingConnections disturbs nothing else.                            *)
LEMMA CloseStep ==
  ASSUME ReactorAssumption, TypeOK, TypeOK', Ownership,
         NEW S \in SUBSET Conn, CloseConnections(S),
         \A c \in S : sock[c] \notin processingConnections',
         UNCHANGED <<sock, phase, poolVars>>,
         \A c \in Conn \ S : unsent'[c] = unsent[c],
         processingConnections' \subseteq processingConnections,
         Queued' = Queued \cap processingConnections',
         processingConnections \ processingConnections' \subseteq Queued,
         Distinct(processedConnections)', Distinct(ready)',
         (Elements(processedConnections) \cap Elements(ready) = {})'
  PROVE  Ownership'
  <1> DEFINE Closed(f) == \E c \in S : sock[c] = f
  <1> USE DEF Ownership
  <1>0. InHand \subseteq Conn /\ Queued \subseteq Fd /\ NoConn \notin Conn
    BY SubsetOK DEF ReactorAssumption
  <1>1. \A f \in Fd : /\ Closed(f) => connections'[f] = NoConn /\ watched'[f] = {}
                      /\ ~Closed(f) => /\ connections'[f] = connections[f]
                                      /\ watched'[f] = watched[f]
    BY DEF CloseConnections
  <1>2. \A c \in Conn : /\ life'[c] = life[c] \/ (life'[c] = "dead" /\ c \in S)
                        /\ c \notin S => life'[c] = life[c]
    BY DEF CloseConnections, TypeOK
  <1>3. \A f \in Fd : connections'[f] # NoConn =>
           ~Closed(f) /\ connections[f] \in Conn \ S /\ connections'[f] = connections[f]
    BY SMTT(60), <1>1 DEF TypeOK, MapInv
  <1>4. InHand' = InHand
    BY DEF InHand, WorksOn
  <1>5. \A c \in InHand : ~Closed(sock[c]) /\ c \notin S
    <2>1. SUFFICES ASSUME NEW c \in InHand PROVE ~Closed(sock[c]) /\ c \notin S
      OBVIOUS
    <2>2. /\ sock[c] \in Fd /\ sock[c] \in processingConnections
          /\ connections[sock[c]] = c /\ c # NoConn
      BY <1>0, <2>1 DEF HandInv, MapInv
    <2>3. sock[c] \notin Queued
      BY <2>1, <2>2 DEF QueueInv
    <2>4. sock[c] \in processingConnections'
      BY <2>2, <2>3
    <2>5. QED
      BY <2>4
  <1>6. MapInv'
    <2>1. \A f \in Fd : connections'[f] # NoConn =>
             life'[connections'[f]] = "live" /\ sock[connections'[f]] = f
      BY <1>2, <1>3 DEF MapInv
    <2>2. \A c \in Conn : life'[c] = "live" => life[c] = "live"
      BY <1>2
    <2>3. \A c \in Conn : life'[c] \in {"unborn", "backlog"} => life[c] = life'[c]
      BY <1>2
    <2>4. QED
      BY <2>1, <2>2, <2>3 DEF MapInv
  <1>7. WatchInv'
    <2>1. \A f \in Fd : connections'[f] # NoConn /\ f \notin processingConnections' =>
             phase[connections[f]] # "PROCESSING"
      <3>1. SUFFICES ASSUME NEW f \in Fd, connections'[f] # NoConn,
                            f \notin processingConnections'
                     PROVE  phase[connections[f]] # "PROCESSING"
        OBVIOUS
      <3>2. connections[f] # NoConn
        BY <1>3, <3>1
      <3>3. CASE f \in processingConnections
        BY <3>1, <3>2, <3>3 DEF QueueInv
      <3>4. CASE f \notin processingConnections
        BY <3>2, <3>4 DEF WatchInv
      <3>5. QED
        BY <3>3, <3>4
    <2>2. QED
      BY <1>1, <1>3, <2>1 DEF WatchInv
  <1>8. HandInv'
    <2>1. \A c \in InHand :
             /\ life'[c] = "live" /\ connections'[sock[c]] = c
             /\ sock[c] \in processingConnections'
      <3>1. SUFFICES ASSUME NEW c \in InHand
                     PROVE  /\ life'[c] = "live" /\ connections'[sock[c]] = c
                            /\ sock[c] \in processingConnections'
        OBVIOUS
      <3>2. /\ life[c] = "live" /\ sock[c] \in Fd /\ sock[c] \in processingConnections
            /\ connections[sock[c]] = c /\ c # NoConn
        BY <1>0, <3>1 DEF HandInv, MapInv
      <3>3. sock[c] \notin Queued
        BY <3>1, <3>2 DEF QueueInv
      <3>4. sock[c] \in processingConnections'
        BY <3>2, <3>3
      <3>5. c \in Conn /\ c \notin S /\ ~Closed(sock[c])
        BY <1>0, <1>5, <3>1
      <3>6. life'[c] = "live"
        BY <1>2, <3>2, <3>5
      <3>7. connections'[sock[c]] = c
        BY <1>1, <3>2, <3>5
      <3>8. QED
        BY <3>4, <3>6, <3>7
    <2>2. \A w \in Worker : wstate[w] = "push" => wconn[w] \in Conn \ S
      BY <1>5 DEF InHand, WorksOn, HandInv
    <2>3. \A w \in Worker : wstate[w] = "push" => unsent'[wconn[w]] = RespParts
      BY <2>2 DEF HandInv
    <2>4. \A w \in Worker : wstate[w] # "idle" => life'[wconn[w]] \in {"live", "dead"}
      BY <1>2 DEF HandInv
    <2>5. QED
      BY <1>4, <2>1, <2>3, <2>4 DEF HandInv, WorksOn
  <1>9. QueueInv'
    <2>1. \A f \in Fd : f \in processingConnections' => ~Closed(f)
      OBVIOUS
    <2>2. SUFFICES ASSUME NEW f \in Queued'
                   PROVE  /\ connections'[f] # NoConn
                          /\ phase'[connections'[f]] = "WRITING"
                          /\ unsent'[connections'[f]] = RespParts
                          /\ f \in processingConnections'
                          /\ connections'[f] \notin InHand'
      BY DEF QueueInv
    <2>3. f \in Fd /\ f \in Queued /\ f \in processingConnections' /\ ~Closed(f)
      BY <1>0, <2>1, <2>2
    <2>4. connections'[f] = connections[f] /\ connections[f] # NoConn
      BY <1>1, <2>3 DEF QueueInv
    <2>5. connections[f] \in Conn \ S
      BY <1>3, <2>3, <2>4
    <2>6. QED
      BY <1>4, <2>3, <2>4, <2>5 DEF QueueInv
  <1>10. ProcessingInv'
    <2>1. SUFFICES ASSUME NEW f \in processingConnections', f \notin Queued'
                   PROVE  connections'[f] \in InHand' \cup Handing'
      BY DEF ProcessingInv
    <2>2. f \in Fd /\ f \in processingConnections /\ f \notin Queued /\ ~Closed(f)
      BY <2>1 DEF TypeOK
    <2>3. connections[f] \in InHand \cup Handing
      BY <2>2 DEF ProcessingInv, TypeOK
    <2>4. QED
      BY <1>1, <1>4, <2>2, <2>3 DEF Handing
  <1>11. QED
    BY <1>6, <1>7, <1>8, <1>9, <1>10

(* The connection an event is handled for.                                 *)
LEMMA EventConnection ==
  ASSUME ReactorAssumption, TypeOK, Ownership, BatchInv,
         NEW e \in batch, Expected(e)
  PROVE  /\ e.fd \in Fd
         /\ connections[e.fd] \in Conn
         /\ sock[connections[e.fd]] = e.fd
         /\ life[connections[e.fd]] = "live"
         /\ e.fd \notin processingConnections
         /\ connections[e.fd] \notin InHand
         /\ e.fd \notin Queued
  BY DEF ReactorAssumption, TypeOK, Ownership, BatchInv, Expected, MapInv,
         WatchInv, HandInv, QueueInv

LEMMA CloseEventStep ==
  ASSUME ReactorAssumption, TypeOK, TypeOK', Ownership, BatchInv,
         NEW e \in batch, ReadUntilClosed(e) \/ WriteToTheEnd(e)
  PROVE  Ownership'
  <1> DEFINE c == connections[e.fd]
  <1>1. Expected(e)
    BY DEF ReadUntilClosed, WriteToTheEnd, ReadEvent, WriteEvent
  <1>2. c \in Conn /\ sock[c] = e.fd /\ e.fd \notin processingConnections
    BY <1>1, EventConnection
  <1>3. /\ CloseConnections({c})
        /\ UNCHANGED <<sock, phase, poolVars, processingConnections,
                       processedConnections, ready>>
        /\ \A d \in Conn \ {c} : unsent'[d] = unsent[d]
    BY <1>2 DEF ReadUntilClosed, WriteToTheEnd, ReadEvent, WriteEvent, TypeOK
  <1>4. Queued' = Queued /\ Queued \subseteq processingConnections
    BY <1>3 DEF Queued, Ownership, QueueInv
  <1>5. /\ Distinct(processedConnections)' /\ Distinct(ready)'
        /\ (Elements(processedConnections) \cap Elements(ready) = {})'
    BY <1>3 DEF Ownership, QueueInv
  <1> HIDE DEF c
  <1>6. QED
    BY <1>2, <1>3, <1>4, <1>5, CloseStep

LEMMA SweepStep ==
  ASSUME ReactorAssumption, TypeOK, TypeOK', Ownership, Sweep
  PROVE  Ownership'
  <1> DEFINE S == IF sweepDue THEN IdleConnections ELSE {}
  <1>1. S \in SUBSET Conn /\ \A c \in S : sock[c] \notin processingConnections
    BY DEF IdleConnections, Ownership, MapInv, ReactorAssumption, Skipped
  <1>2. /\ CloseConnections(S)
        /\ UNCHANGED <<sock, phase, unsent, poolVars, processingConnections,
                       processedConnections, ready>>
    BY DEF Sweep
  <1>3. Queued' = Queued /\ Queued \subseteq processingConnections
    BY <1>2 DEF Queued, Ownership, QueueInv
  <1>4. /\ Distinct(processedConnections)' /\ Distinct(ready)'
        /\ (Elements(processedConnections) \cap Elements(ready) = {})'
    BY <1>2 DEF Ownership, QueueInv
  <1> HIDE DEF S
  <1>5. QED
    BY <1>1, <1>2, <1>3, <1>4, CloseStep

(* The head of `ready' is taken off it and off processingConnections.      *)
LEMMA PopStep ==
  ASSUME ReactorAssumption, TypeOK, Ownership, PopReady,
         UNCHANGED processedConnections
  PROVE  /\ Head(ready) \in Fd
         /\ Head(ready) \in Queued
         /\ Queued' = Queued \ {Head(ready)}
         /\ Queued' = Queued \cap processingConnections'
         /\ Distinct(processedConnections)' /\ Distinct(ready)'
         /\ (Elements(processedConnections) \cap Elements(ready) = {})'
  <1>1. ready \in Seq(Fd) /\ ready # <<>> /\ ready' = Tail(ready)
    BY DEF TypeOK, PopReady, Unmark
  <1>2. /\ Head(ready) \in Fd
        /\ Elements(ready) = Elements(ready)' \cup {Head(ready)}
        /\ Distinct(ready)' /\ Head(ready) \notin Elements(ready)'
    BY <1>1, TailElements DEF Ownership, QueueInv
  <1>3. Queued' = Queued \ {Head(ready)}
    BY <1>2 DEF Queued, Ownership, QueueInv
  <1>4. Queued \subseteq processingConnections
    BY DEF Ownership, QueueInv
  <1>5. QED
    BY <1>2, <1>3, <1>4 DEF Ownership, QueueInv, PopReady, Queued, Unmark

LEMMA WatchFailsStep ==
  ASSUME ReactorAssumption, TypeOK, TypeOK', Ownership, WatchFails
  PROVE  Ownership'
  <1> DEFINE c == connections[Head(ready)]
  <1>1. PopReady /\ UNCHANGED processedConnections
    BY DEF WatchFails
  <1>2. c \in Conn /\ sock[c] = Head(ready)
    <2>1. Head(ready) \in Fd
      BY <1>1, PopStep
    <2>2. connections[Head(ready)] # NoConn
      BY DEF WatchFails
    <2>3. QED
      BY <2>1, <2>2 DEF TypeOK, Ownership, MapInv
  <1>3. /\ processingConnections' = processingConnections \ {Head(ready)}
        /\ Head(ready) \in Queued
    BY <1>1, PopStep DEF PopReady, Unmark
  <1>4. CloseConnections({c}) /\ UNCHANGED <<sock, phase, unsent, poolVars>>
    BY DEF WatchFails
  <1> HIDE DEF c
  <1>5. QED
    BY <1>1, <1>2, <1>3, <1>4, PopStep, CloseStep

LEMMA WatchForWritingStep ==
  ASSUME ReactorAssumption, TypeOK, TypeOK', Ownership, WatchForWriting
  PROVE  Ownership'
  <1> DEFINE f == Head(ready)
  <1> USE DEF Ownership
  <1>1. PopReady /\ UNCHANGED <<netVars, connVars, connections,
                                processedConnections, poolVars>>
    BY DEF WatchForWriting, Add
  <1>2. /\ f \in Fd /\ f \in Queued /\ Queued' = Queued \ {f}
        /\ Queued' = Queued \cap processingConnections'
        /\ Distinct(processedConnections)' /\ Distinct(ready)'
        /\ (Elements(processedConnections) \cap Elements(ready) = {})'
    BY <1>1, PopStep
  <1>3. /\ connections[f] # NoConn /\ phase[connections[f]] = "WRITING"
        /\ connections[f] \notin InHand
    BY <1>2 DEF QueueInv
  <1>4. watched' = [watched EXCEPT ![f] = @ \cup {"WRITE"}]
    BY <1>3 DEF WatchForWriting, Add
  <1>5. /\ processingConnections' = processingConnections \ {f}
        /\ InHand' = InHand /\ Handing' = Handing
    BY <1>1 DEF PopReady, InHand, WorksOn, Unmark, Handing
  <1> HIDE DEF f
  <1>6. MapInv'
    BY <1>1 DEF MapInv
  <1>7. WatchInv'
    BY SMTT(60), <1>1, <1>2, <1>3, <1>4, <1>5 DEF WatchInv, TypeOK
  <1>8. HandInv'
    <2>1. \A c \in InHand : sock[c] # f
      BY <1>3 DEF HandInv
    <2>2. QED
      BY <1>1, <1>5, <2>1 DEF HandInv, WorksOn
  <1>9. QueueInv'
    BY <1>1, <1>2, <1>5 DEF QueueInv
  <1>10. ProcessingInv'
    BY <1>1, <1>2, <1>5 DEF ProcessingInv
  <1>11. QED
    BY <1>6, <1>7, <1>8, <1>9, <1>10

(* A connection outside the map comes into being or is dropped.            *)
LEMMA UnmappedStep ==
  ASSUME ReactorAssumption, TypeOK, TypeOK', Ownership,
         NEW c \in Conn, ClientConnect(c) \/ AcceptSetupFails(c)
  PROVE  Ownership'
  <1> USE DEF Ownership
  <1>1. /\ life[c] \in {"unborn", "backlog"}
        /\ life'[c] \in {"backlog", "dead"}
        /\ \A d \in Conn \ {c} : life'[d] = life[d]
        /\ UNCHANGED <<sock, mapVars, connVars, processedConnections, ready, poolVars>>
    BY DEF ClientConnect, AcceptSetupFails, TypeOK
  <1>2. /\ InHand' = InHand /\ Queued' = Queued /\ Handing' = Handing
        /\ c \notin InHand
    BY <1>1 DEF InHand, WorksOn, Queued, HandInv, Handing
  <1>3. MapInv'
    <2>1. \A d \in Conn : life'[d] = "live" => d # c /\ life[d] = "live"
      BY <1>1
    <2>2. \A f \in Fd : connections[f] # NoConn => connections[f] \in Conn \ {c}
      BY <1>1 DEF MapInv, TypeOK
    <2>3. \A d \in Conn : life'[d] \in {"unborn", "backlog"} =>
             life[d] \in {"unborn", "backlog"}
      BY <1>1
    <2>4. QED
      BY <1>1, <2>1, <2>2, <2>3 DEF MapInv
  <1>4. WatchInv' /\ QueueInv' /\ ProcessingInv'
    BY <1>1, <1>2 DEF WatchInv, QueueInv, ProcessingInv
  <1>5. HandInv'
    BY <1>1, <1>2, SubsetOK DEF HandInv, WorksOn
  <1>6. QED
    BY <1>3, <1>4, <1>5

LEMMA AcceptStep ==
  ASSUME ReactorAssumption, TypeOK, TypeOK', Ownership,
         NEW c \in Conn, NEW f \in Fd, AcceptOne(c, f)
  PROVE  Ownership'
  <1> USE DEF Ownership
  <1>1. /\ life[c] = "backlog" /\ \A d \in Conn : life[d] = "live" => sock[d] # f
        /\ life' = [life EXCEPT ![c] = "live"]
        /\ sock' = [sock EXCEPT ![c] = f]
        /\ connections' = [connections EXCEPT ![f] = c]
        /\ watched' = [watched EXCEPT ![f] = @ \cup {"READ"}]
        /\ UNCHANGED <<connVars, processingConnections, processedConnections,
                       ready, poolVars>>
    BY DEF AcceptOne, OpenFds, Add
  <1>2. connections[f] = NoConn
    BY <1>1 DEF MapInv, TypeOK
  <1>3. InHand' = InHand /\ Queued' = Queued /\ Handing' = Handing
    BY <1>1 DEF InHand, WorksOn, Queued, Handing
  <1>4. /\ InHand \subseteq Conn /\ Queued \subseteq Fd
        /\ NoConn \notin InHand \cup Handing
        /\ \A d \in InHand : d # c /\ sock[d] # f
    BY <1>1, SubsetOK DEF HandInv, ReactorAssumption, Handing
  <1>5. f \notin Queued /\ f \notin processingConnections
    BY <1>2, <1>4 DEF QueueInv, ProcessingInv
  <1>6. phase[c] = "READING" /\ c # NoConn
    BY <1>1 DEF MapInv, ReactorAssumption
  <1>7. MapInv'
    <2>1. \A g \in Fd : connections'[g] # NoConn =>
             life'[connections'[g]] = "live" /\ sock'[connections'[g]] = g
      BY <1>1 DEF MapInv, TypeOK
    <2>2. \A d \in Conn : life'[d] = "live" => sock'[d] \in Fd
      BY <1>1 DEF MapInv, TypeOK
    <2>3. \A d, b \in Conn :
             life'[d] = "live" /\ life'[b] = "live" /\ sock'[d] = sock'[b] => d = b
      <3>1. /\ sock'[c] = f
            /\ \A d \in Conn \ {c} : life'[d] = life[d] /\ sock'[d] = sock[d]
        BY <1>1 DEF TypeOK
      <3>2. QED
        BY <1>1, <3>1 DEF MapInv
    <2>4. \A d \in Conn : life'[d] \in {"unborn", "backlog"} => phase'[d] = "READING"
      <3>1. \A d \in Conn : life'[d] = life[d] \/ (d = c /\ life'[d] = "live")
        BY <1>1 DEF TypeOK
      <3>2. QED
        BY <1>1, <3>1 DEF MapInv
    <2>5. QED
      BY <2>1, <2>2, <2>3, <2>4 DEF MapInv
  <1>8. WatchInv'
    <2>1. /\ connections'[f] = c /\ watched'[f] = {"READ"}
          /\ \A g \in Fd \ {f} : connections'[g] = connections[g] /\ watched'[g] = watched[g]
      <3>1. watched[f] = {}
        BY <1>2 DEF WatchInv, TypeOK
      <3>2. QED
        BY <1>1, <3>1 DEF TypeOK
    <2>2. QED
      BY <1>1, <1>5, <1>6, <2>1 DEF WatchInv
  <1>9. HandInv'
    <2>1. \A d \in InHand : /\ life'[d] = "live" /\ connections'[sock'[d]] = d
                            /\ sock'[d] \in processingConnections'
      BY <1>1, <1>4 DEF HandInv, TypeOK
    <2>2. QED
      BY <1>1, <1>3, <2>1 DEF HandInv, WorksOn
  <1>10. QueueInv'
    <2>1. \A g \in Queued : g \in Fd \ {f} /\ connections'[g] = connections[g]
      BY <1>1, <1>4, <1>5 DEF TypeOK
    <2>2. QED
      BY <1>1, <1>3, <2>1 DEF QueueInv
  <1>11. ProcessingInv'
    BY <1>1, <1>3, <1>5 DEF ProcessingInv, TypeOK
  <1>12. QED
    BY <1>7, <1>8, <1>9, <1>10, <1>11

(* handleReadable takes the connection off the poller and marks it.        *)
LEMMA ReadWholeStep ==
  ASSUME ReactorAssumption, TypeOK, TypeOK', Ownership, BatchInv, HandOffInv,
         NEW e \in batch, ReadWholeRequest(e)
  PROVE  Ownership'
  <1> DEFINE c == connections[e.fd]
             f == e.fd
  <1> USE DEF Ownership
  <1>1. /\ f \in Fd /\ c \in Conn /\ c # NoConn /\ connections[f] = c
        /\ f \notin processingConnections /\ f \notin Queued
    BY EventConnection DEF ReadWholeRequest, ReadEvent, ReactorAssumption
  <1>2. /\ watched' = [watched EXCEPT ![f] = {}]
        /\ processingConnections' = processingConnections \cup {f}
        /\ handing' = c /\ Handing = {}
        /\ UNCHANGED <<life, sock, unsent, phase, connections, tasks, wstate,
                       wconn, processedConnections, ready>>
    BY DEF ReadWholeRequest, ReadEvent, Unwatch, Take, HandOffInv, Handing
  <1> HIDE DEF c, f
  <1>3. InHand' = InHand /\ Queued' = Queued /\ Handing' = {c}
    BY <1>1, <1>2 DEF InHand, WorksOn, Queued, Handing
  <1>4. MapInv'
    BY <1>2 DEF MapInv
  <1>5. WatchInv'
    <2>1. \A g \in Fd : watched'[g] # {} => g # f /\ watched'[g] = watched[g]
      BY <1>1, <1>2 DEF TypeOK
    <2>2. QED
      BY <1>2, <2>1 DEF WatchInv
  <1>6. HandInv' /\ QueueInv'
    BY <1>2, <1>3 DEF HandInv, QueueInv, WorksOn
  <1>7. ProcessingInv'
    BY <1>1, <1>2, <1>3 DEF ProcessingInv
  <1>8. QED
    BY <1>4, <1>5, <1>6, <1>7

(* The connection handleReadable hands over is nobody else's.              *)
LEMMA HandedConnection ==
  ASSUME ReactorAssumption, TypeOK, Ownership, HandOffInv,
         loop \in {"setPhase", "enqueue"}
  PROVE  /\ handing \in Conn /\ handing # NoConn /\ Handing = {handing}
         /\ life[handing] = "live" /\ connections[sock[handing]] = handing
         /\ sock[handing] \in Fd /\ sock[handing] \in processingConnections
         /\ sock[handing] \notin Queued /\ handing \notin InHand
         /\ phase[handing] = IF loop = "setPhase" THEN "READING" ELSE "PROCESSING"
         /\ \A g \in Fd : connections[g] = handing => g = sock[handing]
  <1>1. handing \in Conn /\ handing # NoConn /\ Handing = {handing}
    BY DEF TypeOK, HandOffInv, Handing
  <1>2. /\ life[handing] = "live" /\ connections[sock[handing]] = handing
        /\ sock[handing] \in processingConnections
        /\ sock[handing] \notin Queued /\ handing \notin InHand
        /\ phase[handing] = IF loop = "setPhase" THEN "READING" ELSE "PROCESSING"
    BY <1>1, Zenon DEF HandOffInv
  <1>3. \A g \in Fd : connections[g] = handing => g = sock[handing]
    BY <1>1 DEF Ownership, MapInv
  <1>4. QED
    BY <1>1, <1>2, <1>3 DEF Ownership, MapInv

LEMMA SetPhaseStep ==
  ASSUME ReactorAssumption, TypeOK, TypeOK', Ownership, HandOffInv, SetPhase
  PROVE  Ownership'
  <1> DEFINE c == handing
  <1> USE DEF Ownership
  <1>1. /\ c \in Conn /\ life[c] = "live" /\ sock[c] \in processingConnections
        /\ sock[c] \notin Queued /\ c \notin InHand /\ Handing = {c}
        /\ \A g \in Fd : connections[g] = c => g = sock[c]
        /\ loop' = "enqueue" /\ handing' = handing
    BY HandedConnection DEF SetPhase, HandOffStep, HandOff
  <1>2. /\ phase' = [phase EXCEPT ![c] = "PROCESSING"]
        /\ UNCHANGED <<life, sock, unsent, mapVars, poolVars,
                       processedConnections, ready>>
    BY <1>1 DEF SetPhase, HandOffStep
  <1> HIDE DEF c
  <1>3. /\ InHand' = InHand /\ Queued' = Queued /\ Handing' = Handing
        /\ \A d \in Conn \ {c} : phase'[d] = phase[d]
    BY <1>2 DEF InHand, WorksOn, Queued, Handing, TypeOK
  <1>4. MapInv' /\ ProcessingInv'
    BY <1>1, <1>2, <1>3 DEF MapInv, ProcessingInv
  <1>5. \A g \in Fd : connections[g] # NoConn /\ g # sock[c] =>
          connections[g] \in Conn \ {c}
    BY <1>1 DEF TypeOK
  <1>6. WatchInv'
    <2>1. \A g \in Fd : watched[g] # {} => g # sock[c] /\ connections[g] # NoConn
      BY <1>1 DEF WatchInv
    <2>2. QED
      BY <1>1, <1>2, <1>3, <1>5, <2>1 DEF WatchInv
  <1>7. HandInv'
    <2>1. \A d \in Elements(tasks) : d \in Conn \ {c}
      BY <1>1, ElementsInSet DEF InHand, TypeOK
    <2>2. \A w \in Worker : wstate[w] \in {"handle", "push"} => wconn[w] \in Conn \ {c}
      BY <1>1 DEF HandInv, InHand, WorksOn
    <2>3. QED
      BY <1>2, <1>3, <2>1, <2>2 DEF HandInv, WorksOn
  <1>8. QueueInv'
    <2>1. \A g \in Queued : connections[g] \in Conn \ {c}
      BY <1>1, <1>5, SubsetOK DEF QueueInv
    <2>2. QED
      BY <1>2, <1>3, <2>1 DEF QueueInv
  <1>9. QED
    BY <1>4, <1>6, <1>7, <1>8

LEMMA EnqueueStep ==
  ASSUME ReactorAssumption, TypeOK, TypeOK', Ownership, HandOffInv, Enqueue
  PROVE  Ownership'
  <1> DEFINE c == handing
  <1> USE DEF Ownership
  <1>1. /\ c \in Conn /\ life[c] = "live" /\ connections[sock[c]] = c
        /\ sock[c] \in processingConnections /\ sock[c] \notin Queued
        /\ c \notin InHand /\ phase[c] = "PROCESSING" /\ Handing = {c}
        /\ \A g \in Fd : connections[g] = c => g = sock[c]
    BY HandedConnection DEF Enqueue, HandOffStep
  <1>2. /\ tasks' = Append(tasks, c) /\ handing' = NoConn
        /\ UNCHANGED <<life, sock, unsent, phase, mapVars, wstate, wconn,
                       processedConnections, ready>>
    BY DEF Enqueue, HandOffStep, HandOff
  <1> HIDE DEF c
  <1>3. /\ Elements(tasks') = Elements(tasks) \cup {c}
        /\ c \notin Elements(tasks) /\ Distinct(tasks')
    <2>1. c \notin Elements(tasks)
      BY <1>1 DEF InHand
    <2>2. QED
      BY <1>1, <1>2, <2>1, AppendElements DEF TypeOK, HandInv
  <1>4. InHand' = InHand \cup {c} /\ Queued' = Queued /\ Handing' = {}
    BY <1>1, <1>2, <1>3 DEF InHand, WorksOn, Queued, Handing
  <1>5. MapInv' /\ WatchInv' /\ ProcessingInv'
    BY <1>1, <1>2, <1>4 DEF MapInv, WatchInv, ProcessingInv
  <1>6. HandInv'
    <2>1. \A d \in InHand' : /\ life[d] = "live" /\ connections[sock[d]] = d
                             /\ sock[d] \in processingConnections'
      BY <1>1, <1>2, <1>4 DEF HandInv
    <2>2. \A d \in Elements(tasks') : phase[d] = "PROCESSING"
      BY <1>1, <1>3 DEF HandInv
    <2>3. \A w \in Worker, d \in Conn : WorksOn(w, d) =>
            d \notin Elements(tasks') /\ \A v \in Worker \ {w} : ~WorksOn(v, d)
      BY <1>1, <1>3 DEF HandInv, InHand
    <2>4. QED
      BY <1>2, <1>3, <2>1, <2>2, <2>3 DEF HandInv, WorksOn
  <1>7. QueueInv'
    <2>1. \A g \in Queued : connections[g] # c
      BY <1>1, SubsetOK
    <2>2. QED
      BY <1>2, <1>4, <2>1 DEF QueueInv
  <1>8. QED
    BY <1>5, <1>6, <1>7

LEMMA WritePartStep ==
  ASSUME ReactorAssumption, TypeOK, TypeOK', Ownership, BatchInv,
         NEW e \in batch, NEW n \in 1..RespParts, WritePart(e, n)
  PROVE  Ownership'
  <1> DEFINE c == connections[e.fd]
  <1> USE DEF Ownership
  <1>1. /\ c \in Conn /\ sock[c] = e.fd /\ e.fd \in Fd
        /\ c \notin InHand /\ e.fd \notin Queued
    BY EventConnection DEF WritePart, WriteEvent
  <1>2. /\ \A d \in Conn \ {c} : unsent'[d] = unsent[d]
        /\ UNCHANGED <<life, sock, mapVars, phase, poolVars,
                       processedConnections, ready>>
    BY DEF WritePart, WriteEvent, TypeOK
  <1> HIDE DEF c
  <1>3. InHand' = InHand /\ Queued' = Queued /\ Handing' = Handing
    BY <1>2 DEF InHand, WorksOn, Queued, Handing
  <1>4. MapInv' /\ WatchInv' /\ ProcessingInv'
    BY <1>2, <1>3 DEF MapInv, WatchInv, ProcessingInv
  <1>5. HandInv'
    <2>1. \A w \in Worker : wstate[w] = "push" => wconn[w] \in Conn \ {c}
      BY <1>1 DEF HandInv, InHand, WorksOn
    <2>2. QED
      BY <1>2, <1>3, <2>1 DEF HandInv, WorksOn
  <1>6. QueueInv'
    <2>1. ASSUME NEW f \in Queued PROVE connections[f] \in Conn \ {c}
      <3>1. f \in Fd
        BY SubsetOK
      <3>2. connections[f] # NoConn
        BY DEF QueueInv
      <3>3. connections[f] \in Conn
        BY <3>1, <3>2 DEF TypeOK
      <3>4. sock[connections[f]] = f
        BY <3>1, <3>2 DEF MapInv
      <3>5. QED
        BY <1>1, <3>3, <3>4
    <2>2. QED
      BY <1>2, <1>3, <2>1 DEF QueueInv
  <1>7. QED
    BY <1>4, <1>5, <1>6

LEMMA SwapStep ==
  ASSUME TypeOK, Ownership, Swap, ready = <<>>
  PROVE  Ownership'
  <1> USE DEF Ownership
  <1>1. /\ ready' = processedConnections /\ processedConnections' = <<>>
        /\ UNCHANGED <<netVars, connVars, mapVars, poolVars>>
    BY DEF Swap
  <1>2. InHand' = InHand /\ Queued' = Queued /\ Handing' = Handing
    BY <1>1, EmptyElements DEF InHand, WorksOn, Queued, Handing
  <1>3. QED
    BY <1>1, <1>2, EmptyElements
       DEF MapInv, WatchInv, HandInv, QueueInv, ProcessingInv, WorksOn

(* The pool.                                                               *)
LEMMA TakeTaskStep ==
  ASSUME ReactorAssumption, TypeOK, TypeOK', Ownership,
         NEW w \in Worker, TakeTask(w)
  PROVE  Ownership'
  <1> DEFINE c == Head(tasks)
  <1> USE DEF Ownership
  <1>1. /\ tasks \in Seq(Conn) /\ tasks # <<>> /\ wstate[w] = "idle"
        /\ wstate' = [wstate EXCEPT ![w] = "handle"]
        /\ wconn' = [wconn EXCEPT ![w] = c]
        /\ tasks' = Tail(tasks)
        /\ UNCHANGED <<life, sock, phase, unsent, mapVars, handing,
                       processedConnections, ready>>
    BY DEF TakeTask, TypeOK
  <1>2. /\ c \in Conn /\ Elements(tasks) = Elements(tasks') \cup {c}
        /\ Distinct(tasks') /\ c \notin Elements(tasks')
    BY <1>1, TailElements DEF HandInv
  <1> HIDE DEF c
  <1>3. /\ wstate'[w] = "handle" /\ wconn'[w] = c
        /\ \A v \in Worker \ {w} : wstate'[v] = wstate[v] /\ wconn'[v] = wconn[v]
    BY <1>1 DEF TypeOK
  <1>4. \A v \in Worker : ~WorksOn(v, c)
    BY <1>2 DEF HandInv
  <1>5. InHand' = InHand /\ Queued' = Queued /\ Handing' = Handing
    BY <1>1, <1>2, <1>3 DEF InHand, WorksOn, Queued, Handing
  <1>6. MapInv' /\ WatchInv' /\ QueueInv' /\ ProcessingInv'
    BY <1>1, <1>5 DEF MapInv, WatchInv, QueueInv, ProcessingInv
  <1>7. HandInv'
    <2>1. \A v \in Worker, d \in Conn : WorksOn(v, d)' =>
             (v = w /\ d = c) \/ (v # w /\ d # c /\ WorksOn(v, d))
      BY <1>3, <1>4 DEF WorksOn
    <2>2. \A v \in Worker, d \in Conn : WorksOn(v, d)' =>
             /\ d \notin Elements(tasks')
             /\ \A u \in Worker \ {v} : ~WorksOn(u, d)'
      BY <1>2, <2>1 DEF HandInv
    <2>3. \A v \in Worker :
            /\ wstate'[v] # "idle" => /\ wconn'[v] \in Conn
                                     /\ life[wconn'[v]] \in {"live", "dead"}
            /\ wstate'[v] = "handle" => phase[wconn'[v]] = "PROCESSING"
            /\ wstate'[v] = "push" => /\ phase[wconn'[v]] = "WRITING"
                                     /\ unsent[wconn'[v]] = RespParts
      <3>1. life[c] = "live" /\ phase[c] = "PROCESSING"
        BY <1>2, <1>5 DEF HandInv, InHand
      <3>2. QED
        BY <1>2, <1>3, <3>1 DEF HandInv
    <2>4. QED
      BY <1>1, <1>2, <1>5, <2>2, <2>3 DEF HandInv
  <1>8. QED
    BY <1>6, <1>7

LEMMA RespondStep ==
  ASSUME ReactorAssumption, TypeOK, TypeOK', Ownership,
         NEW w \in Worker, Respond(w)
  PROVE  Ownership'
  <1> DEFINE c == wconn[w]
  <1> USE DEF Ownership
  <1>1. /\ wstate[w] = "handle"
        /\ wstate' = [wstate EXCEPT ![w] = "push"]
        /\ unsent' = [unsent EXCEPT ![c] = RespParts]
        /\ phase' = [phase EXCEPT ![c] = "WRITING"]
        /\ UNCHANGED <<netVars, mapVars, processedConnections, ready, handing,
                       tasks, wconn>>
    BY DEF Respond
  <1>2. c \in Conn /\ c \in InHand /\ phase[c] = "PROCESSING" /\ WorksOn(w, c)
    BY <1>1 DEF HandInv, InHand, WorksOn
  <1> HIDE DEF c
  <1>3. /\ wstate'[w] = "push"
        /\ \A v \in Worker \ {w} : wstate'[v] = wstate[v]
        /\ phase'[c] = "WRITING" /\ unsent'[c] = RespParts
        /\ \A d \in Conn \ {c} : phase'[d] = phase[d] /\ unsent'[d] = unsent[d]
    BY <1>1, <1>2 DEF TypeOK
  <1>4. wconn' = wconn /\ \A v \in Worker, d \in Conn : WorksOn(v, d)' <=> WorksOn(v, d)
    BY <1>1, <1>3 DEF WorksOn
  <1>5. InHand' = InHand /\ Queued' = Queued /\ Handing' = Handing
    BY <1>1, <1>4 DEF InHand, Queued, Handing
  <1>6. sock[c] \in processingConnections /\ connections[sock[c]] = c /\ life[c] = "live"
    BY <1>2 DEF HandInv
  <1>7. MapInv'
    BY <1>1, <1>3, <1>6 DEF MapInv
  <1>8. WatchInv'
    <2>1. \A f \in Fd : connections[f] # NoConn /\ f \notin processingConnections =>
             connections[f] \in Conn \ {c}
      BY <1>6 DEF MapInv, TypeOK
    <2>2. \A f \in Fd : watched[f] # {} => connections[f] \in Conn \ {c}
      BY <2>1 DEF WatchInv
    <2>3. QED
      BY <1>1, <1>3, <2>1, <2>2 DEF WatchInv
  <1>9. HandInv'
    <2>1. \A d \in Elements(tasks) : d \in Conn \ {c}
      BY <1>2, ElementsInSet DEF HandInv, TypeOK
    <2>2. \A v \in Worker \ {w} : wstate[v] \in {"handle", "push"} => wconn[v] \in Conn \ {c}
      BY <1>2 DEF HandInv, WorksOn
    <2>3. \A v \in Worker :
            /\ wstate'[v] # "idle" => wconn[v] \in Conn
            /\ wstate'[v] = "handle" => phase'[wconn[v]] = "PROCESSING"
            /\ wstate'[v] = "push" => /\ phase'[wconn[v]] = "WRITING"
                                     /\ unsent'[wconn[v]] = RespParts
      BY <1>1, <1>2, <1>3, <2>2 DEF HandInv, c
    <2>4. QED
      BY <1>1, <1>3, <1>4, <1>5, <2>1, <2>3 DEF HandInv
  <1>10. QueueInv'
    <2>1. \A f \in Queued : f \in Fd /\ connections[f] \in Conn \ {c}
      BY <1>2, SubsetOK DEF QueueInv, TypeOK
    <2>2. QED
      BY <1>1, <1>3, <1>5, <2>1 DEF QueueInv
  <1>11. ProcessingInv'
    BY <1>1, <1>5 DEF ProcessingInv
  <1>12. QED
    BY <1>7, <1>8, <1>9, <1>10, <1>11

LEMMA PushStep ==
  ASSUME ReactorAssumption, TypeOK, TypeOK', Ownership,
         NEW w \in Worker, Push(w)
  PROVE  Ownership'
  <1> DEFINE c == wconn[w]
             f == sock[c]
  <1> USE DEF Ownership
  <1>1. /\ wstate[w] = "push"
        /\ wstate' = [wstate EXCEPT ![w] = "wake"]
        /\ processedConnections' = Append(processedConnections, f)
        /\ UNCHANGED <<netVars, mapVars, connVars, ready, handing, tasks, wconn>>
    BY DEF Push
  <1>2. /\ c \in Conn /\ c \in InHand /\ WorksOn(w, c)
        /\ phase[c] = "WRITING" /\ unsent[c] = RespParts
    BY <1>1 DEF HandInv, InHand, WorksOn
  <1>3. /\ f \in Fd /\ connections[f] = c /\ f \in processingConnections /\ c # NoConn
        /\ life[c] = "live"
    BY <1>2 DEF HandInv, MapInv, ReactorAssumption
  <1>4. f \notin Queued
    BY <1>2, <1>3 DEF QueueInv
  <1>5. /\ Elements(processedConnections') = Elements(processedConnections) \cup {f}
        /\ Distinct(processedConnections')
    BY SMTT(60), <1>1, <1>3, <1>4, AppendElements DEF TypeOK, QueueInv, Queued
  <1>6. wstate'[w] = "wake" /\ \A v \in Worker \ {w} : wstate'[v] = wstate[v]
    BY <1>1 DEF TypeOK
  <1> HIDE DEF f
  <1>7. \A v \in Worker, d \in Conn : WorksOn(v, d)' <=> WorksOn(v, d) /\ d # c
    BY <1>1, <1>2, <1>6 DEF WorksOn, HandInv
  <1> HIDE DEF c
  <1>8. InHand' = InHand \ {c} /\ Queued' = Queued \cup {f} /\ Handing' = Handing
    BY <1>1, <1>2, <1>5, <1>7 DEF InHand, Queued, HandInv, Handing
  <1>9. MapInv' /\ WatchInv'
    BY <1>1 DEF MapInv, WatchInv
  <1>10. HandInv'
    BY <1>1, <1>6, <1>7, <1>8 DEF HandInv
  <1>11. QueueInv'
    <2>1. Elements(processedConnections') \cap Elements(ready') = {}
      BY <1>1, <1>4, <1>5 DEF QueueInv, Queued
    <2>2. QED
      BY <1>1, <1>2, <1>3, <1>5, <1>8, <2>1 DEF QueueInv
  <1>12. ProcessingInv'
    <2>1. \A g \in processingConnections :
            \/ g \in Queued \/ g = f
            \/ connections[g] \in (InHand \ {c}) \cup Handing
      <3>1. \A g \in processingConnections : connections[g] = c => g = f
        BY <1>3 DEF MapInv, TypeOK
      <3>2. QED
        BY <3>1 DEF ProcessingInv
    <2>2. QED
      BY <1>1, <1>8, <2>1 DEF ProcessingInv
  <1>13. QED
    BY <1>9, <1>10, <1>11, <1>12

LEMMA WakeStep ==
  ASSUME TypeOK, Ownership, NEW w \in Worker, Wake(w)
  PROVE  Ownership'
  <1>1. /\ wstate[w] = "wake" /\ wstate' = [wstate EXCEPT ![w] = "release"]
        /\ UNCHANGED <<netVars, mapVars, connVars, processedConnections, ready,
                       handing, tasks, wconn>>
    BY DEF Wake
  <1>2. /\ \A v \in Worker, d \in Conn : WorksOn(v, d)' <=> WorksOn(v, d)
        /\ InHand' = InHand /\ Queued' = Queued /\ Handing' = Handing
    BY <1>1 DEF WorksOn, InHand, Queued, Handing, TypeOK
  <1>3. \A v \in Worker : /\ wstate'[v] # "idle" => wstate[v] # "idle"
                          /\ wstate'[v] = "handle" => wstate[v] = "handle"
                          /\ wstate'[v] = "push" => wstate[v] = "push"
    BY <1>1 DEF TypeOK
  <1>4. QED
    BY <1>1, <1>2, <1>3
       DEF Ownership, MapInv, WatchInv, HandInv, QueueInv, ProcessingInv

LEMMA ReleaseStep ==
  ASSUME ReactorAssumption, TypeOK, TypeOK', Ownership,
         NEW w \in Worker, Release(w)
  PROVE  Ownership'
  <1> DEFINE c == wconn[w]
  <1> USE DEF Ownership
  <1>1. /\ wstate[w] = "release" /\ wstate' = [wstate EXCEPT ![w] = "idle"]
        /\ wconn' = [wconn EXCEPT ![w] = NoConn]
        /\ UNCHANGED <<sock, mapVars, connVars, processedConnections, ready,
                       handing, tasks>>
    BY DEF Release
  <1>2. /\ wstate'[w] = "idle"
        /\ \A v \in Worker \ {w} : wstate'[v] = wstate[v] /\ wconn'[v] = wconn[v]
    BY <1>1 DEF TypeOK
  <1>3. \A v \in Worker, d \in Conn : WorksOn(v, d)' <=> WorksOn(v, d)
    BY <1>1, <1>2 DEF WorksOn
  <1>4. InHand' = InHand /\ Queued' = Queued /\ Handing' = Handing
    BY <1>1, <1>3 DEF InHand, Queued, Handing
  <1>5. \A d \in Conn : life'[d] = life[d] \/ (life'[d] = "dead" /\ connections[sock[d]] # d)
    BY DEF Release, TypeOK
  <1>6. MapInv'
    <2>1. \A f \in Fd : connections[f] # NoConn => life'[connections[f]] = "live"
      BY <1>5 DEF MapInv, TypeOK
    <2>2. QED
      BY <1>1, <1>5, <2>1 DEF MapInv
  <1>7. WatchInv' /\ QueueInv' /\ ProcessingInv'
    BY <1>1, <1>4 DEF WatchInv, QueueInv, ProcessingInv
  <1>8. HandInv'
    <2>1. \A d \in InHand : life'[d] = "live"
      BY <1>5, SubsetOK DEF HandInv
    <2>2. \A v \in Worker : wstate'[v] # "idle" =>
             wconn'[v] \in Conn /\ life'[wconn'[v]] \in {"live", "dead"}
      BY <1>2, <1>5 DEF HandInv
    <2>3. QED
      BY <1>1, <1>2, <1>3, <1>4, <2>1, <2>2 DEF HandInv
  <1>9. QED
    BY <1>6, <1>7, <1>8

LEMMA OwnershipStep ==
  ASSUME ReactorAssumption, IInv, TypeOK', [Next]_vars
  PROVE  Ownership'
  <1>1. TypeOK /\ Ownership /\ BatchInv /\ HandOffInv
    BY DEF IInv, Ownership
  <1>2. Swap => ready = <<>>
    BY <1>1 DEF BatchInv, Swap
  <1>3. ASSUME NEW w \in Worker, WorkerStep(w) PROVE Ownership'
    BY <1>1, <1>3, TakeTaskStep, RespondStep, PushStep, WakeStep, ReleaseStep
       DEF WorkerStep
  <1>4. QED
    BY <1>1, <1>2, <1>3, StepCases, QuietStep, UnmappedStep, AcceptStep,
       CloseEventStep, ReadWholeStep, SetPhaseStep, EnqueueStep,
       WritePartStep, SwapStep,
       WatchForWritingStep, WatchFailsStep, SweepStep

(* Only handleReadable and its two steps touch the connection handed over. *)
LEMMA HandingStep ==
  ASSUME ReactorAssumption, IInv, TypeOK', Ownership', [Next]_vars
  PROVE  HandOffInv'
  <1>0. TypeOK /\ Ownership /\ BatchInv /\ HandOffInv
    BY DEF IInv, Ownership
  <1>1. ASSUME UNCHANGED <<loop, handing, phase>>, InHand' = InHand, Queued' = Queued,
               UNCHANGED <<connections, processingConnections>>,
               \A c \in Handing : life'[c] = life[c] /\ sock'[c] = sock[c]
        PROVE  HandOffInv'
    BY <1>0, <1>1 DEF HandOffInv, Handing
  <1>2. CASE Client \/ UNCHANGED vars
    <2>1. /\ UNCHANGED <<loop, handing, phase, connections, processingConnections,
                         sock, tasks, wstate, wconn, processedConnections, ready>>
          /\ \A c \in Conn : life[c] = "live" => life'[c] = life[c]
      BY <1>0, <1>2 DEF Client, ClientConnect, ClientSend, ClientDrain,
                        ClientLeave, TypeOK
    <2>2. InHand' = InHand /\ Queued' = Queued
      BY <2>1 DEF InHand, WorksOn, Queued
    <2>3. \A c \in Handing : c \in Conn /\ life[c] = "live"
      BY <1>0 DEF HandOffInv, Handing, TypeOK
    <2>4. QED
      BY <1>1, <2>1, <2>2, <2>3
  <1>3. ASSUME loop \notin {"setPhase", "enqueue"}, handing' = handing,
               loop' \notin {"setPhase", "enqueue"}
        PROVE  HandOffInv'
    BY <1>0, <1>3 DEF HandOffInv, Handing
  <1>4. CASE \/ Wait(0) \/ Wait(1) \/ WaitFails \/ BatchDone \/ Accept \/ Flush \/ Sweep
    BY <1>3, <1>4 DEF Wait, WaitFails, BatchDone, BatchOver, AfterBatch, Accept,
          AcceptOne, AcceptSetupFails, AcceptReturns, Flush, DrainPipe, Draining,
          PipeEmpty, Swap, WatchForWriting, WatchFails, PopReady, FlushDone, Sweep
  <1>5. ASSUME NEW e \in batch,
               \/ IgnoreEvent(e) \/ AcceptEvent(e) \/ WakeupEvent(e)
               \/ ReadUntilClosed(e) \/ WriteToTheEnd(e)
               \/ \E n \in 0..ReqParts : ReadPartOfRequest(e, n)
               \/ \E n \in 1..RespParts : WritePart(e, n)
        PROVE  HandOffInv'
    BY <1>3, <1>5 DEF IgnoreEvent, AcceptEvent, WakeupEvent, ReadUntilClosed,
          WriteToTheEnd, ReadPartOfRequest, WritePart, ReadEvent, WriteEvent, Take
  <1>6. ASSUME NEW e \in batch, ReadWholeRequest(e) PROVE HandOffInv'
    <2> DEFINE c == connections[e.fd]
    <2>1. /\ c \in Conn /\ sock[c] = e.fd /\ life[c] = "live"
          /\ c \notin InHand /\ e.fd \notin Queued
          /\ c # NoConn /\ connections[e.fd] = c
      BY <1>0, <1>6, EventConnection DEF ReadWholeRequest, ReadEvent, ReactorAssumption
    <2>2. phase[c] = "READING"
      BY <1>6 DEF ReadWholeRequest, ReadEvent, Expected
    <2>3. /\ handing' = c /\ loop' = "setPhase"
          /\ e.fd \in processingConnections'
          /\ UNCHANGED <<life, sock, phase, connections, tasks, wstate, wconn,
                         processedConnections, ready>>
      BY <1>6 DEF ReadWholeRequest, ReadEvent, HandOff
    <2> HIDE DEF c
    <2>4. InHand' = InHand /\ Queued' = Queued /\ Handing' = {c}
      BY <2>1, <2>3 DEF InHand, WorksOn, Queued, Handing
    <2>5. QED
      BY <2>1, <2>2, <2>3, <2>4 DEF HandOffInv
  <1>7. CASE SetPhase
    <2>1. /\ handing \in Conn /\ handing # NoConn /\ Handing = {handing}
          /\ life[handing] = "live" /\ connections[sock[handing]] = handing
          /\ sock[handing] \in processingConnections
          /\ sock[handing] \notin Queued /\ handing \notin InHand
      BY <1>0, <1>7, HandedConnection DEF SetPhase, HandOffStep
    <2>2. /\ loop' = "enqueue" /\ handing' = handing /\ phase'[handing] = "PROCESSING"
          /\ UNCHANGED <<life, sock, connections, processingConnections, tasks,
                         wstate, wconn, processedConnections, ready>>
      BY <1>0, <1>7, <2>1 DEF SetPhase, HandOffStep, HandOff, TypeOK
    <2>3. InHand' = InHand /\ Queued' = Queued /\ Handing' = Handing
      BY <2>2 DEF InHand, WorksOn, Queued, Handing
    <2>4. QED
      BY <2>1, <2>2, <2>3 DEF HandOffInv
  <1>8. CASE Enqueue
    <2>1. loop' = "dispatch" /\ handing' = NoConn
      BY <1>8 DEF Enqueue, HandOffStep, HandOff
    <2>2. QED
      BY <2>1 DEF HandOffInv, Handing
  <1>9. ASSUME NEW w \in Worker, WorkerStep(w) PROVE HandOffInv'
    <2>1. CASE handing = NoConn
      <3>1. UNCHANGED <<loop, handing>>
        BY <1>9 DEF WorkerStep, TakeTask, Respond, Push, Wake, Release
      <3>2. QED
        BY <1>0, <2>1, <3>1 DEF HandOffInv, Handing
    <2>2. CASE handing # NoConn
      <3> DEFINE c == handing
      <3>1. /\ c \in Conn /\ Handing = {c} /\ life[c] = "live"
            /\ connections[sock[c]] = c /\ sock[c] \in Fd
            /\ sock[c] \in processingConnections
            /\ sock[c] \notin Queued /\ c \notin InHand
            /\ loop \in {"setPhase", "enqueue"}
            /\ phase[c] = IF loop = "setPhase" THEN "READING" ELSE "PROCESSING"
        <4>1. loop \in {"setPhase", "enqueue"}
          BY <1>0, <2>2, Zenon DEF HandOffInv
        <4>2. QED
          BY <1>0, <4>1, HandedConnection
      <3>2. \A v \in Worker : wstate[v] \in {"handle", "push"} => wconn[v] \in Conn \ {c}
        BY <1>0, <3>1 DEF InHand, WorksOn, Ownership, HandInv
      <3>3. /\ UNCHANGED <<loop, handing, connections, processingConnections, sock>>
            /\ life'[c] = "live" /\ phase'[c] = phase[c]
        BY <1>0, <1>9, <3>1, <3>2
           DEF WorkerStep, TakeTask, Respond, Push, Wake, Release, TypeOK
      <3>4. c \notin InHand'
        <4>1. CASE TakeTask(w)
          <5>1. /\ Elements(tasks') \subseteq Elements(tasks) /\ Head(tasks) \in Elements(tasks)
                /\ wconn'[w] = Head(tasks) /\ wstate'[w] = "handle"
                /\ \A v \in Worker \ {w} : wstate'[v] = wstate[v] /\ wconn'[v] = wconn[v]
            BY <1>0, <4>1, TailElements DEF TakeTask, TypeOK
          <5>2. QED
            BY <3>1, <5>1 DEF InHand, WorksOn
        <4>2. CASE Respond(w) \/ Push(w) \/ Wake(w) \/ Release(w)
          <5>1. /\ tasks' = tasks
                /\ \A v \in Worker : wstate'[v] \in {"handle", "push"} =>
                      wstate[v] \in {"handle", "push"} /\ wconn'[v] = wconn[v]
            BY <1>0, <4>2 DEF Respond, Push, Wake, Release, TypeOK
          <5>2. QED
            BY <3>1, <3>2, <5>1 DEF InHand, WorksOn
        <4>3. QED
          BY <1>9, <4>1, <4>2 DEF WorkerStep
      <3>5. sock[c] \notin Queued'
        <4>1. CASE Push(w)
          <5>1. /\ wconn[w] \in Conn \ {c} /\ sock[wconn[w]] \in Fd
                /\ connections[sock[wconn[w]]] = wconn[w]
            BY <1>0, <3>2, <4>1 DEF Push, Ownership, HandInv, MapInv, InHand, WorksOn
          <5>2. sock[wconn[w]] # sock[c]
            BY <3>1, <5>1
          <5>3. /\ ready' = ready
                /\ Elements(processedConnections')
                     = Elements(processedConnections) \cup {sock[wconn[w]]}
            BY SMTT(60), <1>0, <4>1, <5>1, AppendElements DEF Push, TypeOK
          <5>4. QED
            BY <3>1, <5>2, <5>3 DEF Queued
        <4>2. CASE TakeTask(w) \/ Respond(w) \/ Wake(w) \/ Release(w)
          <5>1. UNCHANGED <<processedConnections, ready>>
            BY <4>2 DEF TakeTask, Respond, Wake, Release
          <5>2. QED
            BY <3>1, <5>1 DEF Queued
        <4>3. QED
          BY <1>9, <4>1, <4>2 DEF WorkerStep
      <3> HIDE DEF c
      <3>6. Handing' = {c}
        BY <3>1, <3>3 DEF Handing
      <3>7. handing' # NoConn
        BY <2>2, <3>3
      <3>8. QED
        BY <3>1, <3>3, <3>4, <3>5, <3>6, <3>7 DEF HandOffInv
    <2>3. QED
      BY <2>1, <2>2
  <1>10. QED
    BY <1>2, <1>4, <1>5, <1>6, <1>7, <1>8, <1>9
       DEF Next, EventLoop, HandleEvent

LEMMA BufferStep ==
  ASSUME ReactorAssumption, IInv, [Next]_vars
  PROVE  BufferInv'
  <1>0. /\ BufferInv /\ wire \in [Conn -> 0..ReqParts]
        /\ readBuffer \in [Conn -> 0..ReqParts] /\ ReqParts \in Nat
    BY DEF IInv, TypeOK, ReactorAssumption
  <1>1. ASSUME UNCHANGED <<wire, readBuffer>> PROVE BufferInv'
    BY <1>0, <1>1 DEF BufferInv
  <1>2. ASSUME NEW c \in Conn, ClientSend(c) PROVE BufferInv'
    <2>1. /\ wire[c] + readBuffer[c] < ReqParts /\ wire' = [wire EXCEPT ![c] = wire[c] + 1]
          /\ readBuffer' = readBuffer
      BY <1>2 DEF ClientSend
    <2>2. \A d \in Conn : wire'[d] + readBuffer'[d] <= ReqParts
      <3>1. TAKE d \in Conn
      <3>2. CASE d = c
        BY <1>0, <2>1, <3>2
      <3>3. CASE d # c
        BY <1>0, <2>1, <3>3 DEF BufferInv
      <3>4. QED
        BY <3>2, <3>3
    <2>3. QED
      BY <2>2 DEF BufferInv
  <1>3. ASSUME NEW e \in batch,
               \/ ReadWholeRequest(e)
               \/ \E n \in 0..ReqParts : ReadPartOfRequest(e, n)
        PROVE  BufferInv'
    <2> DEFINE c == connections[e.fd]
    <2>1. c \in Conn
      BY <1>3 DEF ReadWholeRequest, ReadPartOfRequest, ReadEvent, Expected, IInv, TypeOK
    <2>2. PICK n \in Nat : /\ readBuffer' = [readBuffer EXCEPT ![c] = readBuffer[c] + n]
                           /\ readBuffer[c] + n <= ReqParts
      <3>1. CASE ReadWholeRequest(e)
        <4>1. readBuffer' = [readBuffer EXCEPT ![c] = readBuffer[c] + wire[c]]
          BY <3>1 DEF ReadWholeRequest, Received
        <4>2. wire[c] \in Nat /\ readBuffer[c] + wire[c] <= ReqParts
          BY <1>0, <2>1 DEF BufferInv
        <4>3. QED
          BY <4>1, <4>2
      <3>2. ASSUME NEW n \in 0..ReqParts, ReadPartOfRequest(e, n)
            PROVE  /\ readBuffer' = [readBuffer EXCEPT ![c] = readBuffer[c] + n]
                   /\ readBuffer[c] + n <= ReqParts /\ n \in Nat
        <4>1. /\ readBuffer' = [readBuffer EXCEPT ![c] = readBuffer[c] + n]
              /\ readBuffer[c] + n < ReqParts
          BY <3>2 DEF ReadPartOfRequest
        <4>2. readBuffer[c] \in Nat
          BY <1>0, <2>1
        <4>3. QED
          BY <1>0, <4>1, <4>2
      <3>3. QED
        BY <1>3, <3>1, <3>2
    <2>3. wire' = [wire EXCEPT ![c] = 0]
      BY <1>3 DEF ReadWholeRequest, ReadPartOfRequest
    <2> HIDE DEF c
    <2>4. \A d \in Conn : wire'[d] + readBuffer'[d] <= ReqParts
      <3>1. TAKE d \in Conn
      <3>2. CASE d = c
        BY <1>0, <2>1, <2>2, <2>3, <3>2
      <3>3. CASE d # c
        BY <1>0, <2>1, <2>2, <2>3, <3>3 DEF BufferInv
      <3>4. QED
        BY <3>2, <3>3
    <2>5. QED
      BY <2>4 DEF BufferInv
  <1>4. CASE Client \/ UNCHANGED vars
    BY <1>1, <1>2, <1>4 DEF Client, ClientConnect, ClientDrain, ClientLeave
  <1>5. CASE HandleEvent
    BY <1>1, <1>3, <1>5 DEF HandleEvent, IgnoreEvent, AcceptEvent, WakeupEvent,
          ReadUntilClosed, WriteToTheEnd, WritePart, ReadEvent, WriteEvent
  <1>6. CASE EventLoop /\ ~HandleEvent
    BY <1>1, <1>6 DEF EventLoop, Wait, WaitFails, SetPhase, Enqueue, HandOffStep,
          BatchDone, Accept, AcceptOne, AcceptSetupFails, AcceptReturns, Flush,
          DrainPipe, PipeEmpty, Swap, WatchForWriting, WatchFails, FlushDone, Sweep
  <1>7. ASSUME NEW w \in Worker, WorkerStep(w) PROVE BufferInv'
    BY <1>1, <1>7 DEF WorkerStep, TakeTask, Respond, Push, Wake, Release
  <1>8. QED
    BY <1>4, <1>5, <1>6, <1>7 DEF Next

-----------------------------------------------------------------------------
(* The batch of events.                                                    *)

(* The phase of a connection says what it is watched for.                  *)
LEMMA OneInterest ==
  ASSUME TypeOK, WatchInv
  PROVE  OneFilter
  <1>1. SUFFICES ASSUME NEW f \in Fd, NEW s \in watched[f], NEW t \in watched[f]
                 PROVE  s = t
    BY DEF OneFilter
  <1>2. s \in {"READ", "WRITE"} /\ t \in {"READ", "WRITE"}
    BY DEF TypeOK, Interests
  <1>3. (s = "READ") <=> (t = "READ")
    BY <1>1 DEF WatchInv
  <1>4. QED
    BY <1>2, <1>3

LEMMA WaitBatch ==
  ASSUME ReactorAssumption, TypeOK, Ownership, NEW B \in Batches
  PROVE  /\ \A e \in B : e.fd \in Fd =>
              connections[e.fd] = e.conn /\ watched[e.fd] # {}
         /\ \A d, e \in B : d.fd = e.fd => d = e
  <1>1. ASSUME NEW e \in B, e.fd \in Fd
        PROVE  /\ e.conn = connections[e.fd] /\ watched[e.fd] # {}
               /\ Kqueue => e.type \in watched[e.fd]
               /\ e = [fd |-> e.fd, type |-> e.type, conn |-> connections[e.fd]]
    <2>1. e \in PendingEvents /\ e.fd \notin {ServerSocket, WakeupPipe}
      BY <1>1 DEF Batches, ReactorAssumption
    <2>2. PICK c \in Conn : life[c] = "live" /\ e \in EventsOf(c)
      BY <2>1 DEF PendingEvents, ServiceFds
    <2>3. /\ e.fd = sock[c] /\ e.conn = c /\ e.type \in TypesOf(c)
          /\ e = [fd |-> e.fd, type |-> e.type, conn |-> c]
      BY <2>2 DEF EventsOf
    <2>4. Reported(c) # {} /\ (Kqueue => e.type \in Reported(c))
      BY <2>3 DEF TypesOf
    <2>5. watched[e.fd] # {} /\ (Kqueue => e.type \in watched[e.fd])
      BY <2>3, <2>4 DEF Reported
    <2>6. connections[e.fd] = c
      BY <1>1, <2>2, <2>3, <2>5 DEF Ownership, WatchInv, MapInv, TypeOK
    <2>7. QED
      BY <2>3, <2>5, <2>6
  <1>2. ASSUME NEW d \in B, NEW e \in B, d.fd = e.fd, Kqueue PROVE d = e
    <2>1. CASE e.fd \in Fd
      <3>1. d.type \in watched[e.fd] /\ e.type \in watched[e.fd]
        BY <1>1, <1>2, <2>1
      <3>2. d.type = e.type
        BY <2>1, <3>1, OneInterest DEF Ownership, OneFilter
      <3>3. QED
        BY <1>1, <1>2, <2>1, <3>2
    <2>2. CASE e.fd \notin Fd
      <3>1. ASSUME NEW b \in B, b.fd \notin Fd
            PROVE  b = [fd |-> b.fd, type |-> "READ", conn |-> NoConn]
        <4>1. b \in PendingEvents
          BY DEF Batches
        <4>2. ASSUME NEW c \in Conn, life[c] = "live" PROVE b \notin EventsOf(c)
          BY <3>1, <4>2 DEF EventsOf, Ownership, MapInv
        <4>3. QED
          BY <4>1, <4>2 DEF PendingEvents
      <3>2. QED
        BY <1>2, <2>2, <3>1
    <2>3. QED
      BY <2>1, <2>2
  <1>3. QED
    BY <1>1, <1>2 DEF Batches

LEMMA BatchStep ==
  ASSUME ReactorAssumption, IInv, [Next]_vars
  PROVE  BatchInv'
  <1>0. TypeOK /\ Ownership /\ BatchInv
    BY DEF IInv, Ownership
  <1>1. CASE Client \/ UNCHANGED vars \/ \E w \in Worker : WorkerStep(w)
    <2>1. UNCHANGED <<batch, connections, watched, loop, afterBatch, ready>>
      BY <1>1 DEF Client, ClientConnect, ClientSend, ClientDrain, ClientLeave,
                  WorkerStep, TakeTask, Respond, Push, Wake, Release
    <2>2. QED
      BY <1>0, <2>1 DEF BatchInv
  <1>2. ASSUME NEW dt \in {0, 1}, Wait(dt) PROVE BatchInv'
    <2>1. /\ batch' \in Batches /\ loop = "wait" /\ loop' = "dispatch"
          /\ UNCHANGED <<connections, watched, ready>>
      BY <1>2 DEF Wait
    <2>2. /\ \A e \in batch' : e.fd \in Fd =>
                connections[e.fd] = e.conn /\ watched[e.fd] # {}
          /\ \A d, e \in batch' : d.fd = e.fd => d = e
      BY <1>0, <2>1, WaitBatch
    <2>3. QED
      BY <1>0, <2>1, <2>2 DEF BatchInv
  <1>3. CASE WaitFails \/ BatchDone \/ AcceptReturns \/ DrainPipe \/ PipeEmpty
             \/ Swap \/ FlushDone
    <2>1. batch' \subseteq batch /\ UNCHANGED <<connections, watched>>
      BY <1>3 DEF WaitFails, BatchDone, AcceptReturns, DrainPipe, PipeEmpty, Swap, FlushDone,
             BatchOver, AfterBatch, Draining
    <2>2. /\ loop' \in {"wait", "sweep"} => batch' = {}
          /\ loop' \in {"drain", "swap", "watch"} /\ afterBatch' => batch' = {}
          /\ loop' # "watch" => ready' = <<>>
      BY <1>0, <1>3
         DEF BatchInv, WaitFails, BatchDone, AcceptReturns, DrainPipe, PipeEmpty, Swap, FlushDone,
             BatchOver, AfterBatch, Draining
    <2>3. QED
      BY <1>0, <2>1, <2>2 DEF BatchInv
  <1>4. ASSUME NEW e \in batch,
               \/ IgnoreEvent(e) \/ AcceptEvent(e) \/ WakeupEvent(e)
               \/ \E n \in 0..ReqParts : ReadPartOfRequest(e, n)
        PROVE  BatchInv'
    <2>1. /\ batch' \subseteq batch /\ UNCHANGED <<connections, watched, ready>>
          /\ loop = "dispatch" /\ loop' \in {"dispatch", "accept", "drain"}
          /\ loop' = "drain" => ~afterBatch'
      BY <1>4 DEF IgnoreEvent, AcceptEvent, WakeupEvent, ReadPartOfRequest, ReadEvent, Take
    <2>2. QED
      BY <1>0, <2>1 DEF BatchInv
  <1>5. ASSUME NEW e \in batch,
               \/ ReadUntilClosed(e) \/ ReadWholeRequest(e) \/ WriteToTheEnd(e)
               \/ \E n \in 1..RespParts : WritePart(e, n)
        PROVE  BatchInv'
    <2>1. /\ batch' = batch \ {e} /\ ready' = ready /\ loop = "dispatch"
          /\ loop' \in {"dispatch", "setPhase"} /\ Expected(e)
      BY <1>5 DEF HandOff, ReadUntilClosed, ReadWholeRequest, WriteToTheEnd, WritePart,
                  ReadEvent, WriteEvent, Take
    <2>2. /\ e.fd \in Fd /\ connections[e.fd] \in Conn /\ sock[connections[e.fd]] = e.fd
      BY <1>0, <2>1, EventConnection
    <2>3. \A f \in Fd \ {e.fd} : connections'[f] = connections[f] /\ watched'[f] = watched[f]
      <3>1. CASE ReadWholeRequest(e)
        BY <3>1 DEF ReadWholeRequest, Unwatch, TypeOK
      <3>2. CASE ReadUntilClosed(e) \/ WriteToTheEnd(e)
        BY <2>2, <3>2 DEF ReadUntilClosed, WriteToTheEnd, CloseConnections
      <3>3. CASE \E n \in 1..RespParts : WritePart(e, n)
        BY <3>3 DEF WritePart
      <3>4. QED
        BY <1>5, <3>1, <3>2, <3>3
    <2>4. \A d \in batch' : d \in batch /\ d.fd # e.fd
      BY <1>0, <2>1 DEF BatchInv
    <2>5. QED
      BY <1>0, <2>1, <2>3, <2>4 DEF BatchInv
  <1>6. ASSUME NEW c \in Conn, AcceptSetupFails(c) PROVE BatchInv'
    BY <1>0, <1>6 DEF AcceptSetupFails, BatchInv
  <1>7. ASSUME NEW c \in Conn, NEW f \in Fd, AcceptOne(c, f) PROVE BatchInv'
    <2>1. /\ \A d \in Conn : life[d] = "live" => sock[d] # f
          /\ \A g \in Fd \ {f} : connections'[g] = connections[g] /\ watched'[g] = watched[g]
          /\ UNCHANGED <<batch, loop, afterBatch, ready>>
      BY <1>0, <1>7 DEF AcceptOne, OpenFds, TypeOK, Add
    <2>2. connections[f] = NoConn
      BY <1>0, <2>1 DEF Ownership, MapInv, TypeOK
    <2>3. \A e \in batch : e.fd # f
      BY <1>0, <2>2 DEF BatchInv, Ownership, WatchInv
    <2>4. QED
      BY <1>0, <2>1, <2>3 DEF BatchInv
  <1>8. CASE WatchForWriting \/ WatchFails
    <2>1. PopReady /\ UNCHANGED <<processedConnections, loop, batch, afterBatch>>
      BY <1>8 DEF WatchForWriting, WatchFails, Add
    <2>2. Head(ready) \in Fd /\ Head(ready) \in Queued /\ loop = "watch"
      BY <1>0, <2>1, PopStep DEF PopReady, Unmark
    <2>3. watched[Head(ready)] = {}
      BY <1>0, <2>2 DEF Ownership, QueueInv, WatchInv
    <2>4. /\ connections[Head(ready)] \in Conn
          /\ sock[connections[Head(ready)]] = Head(ready)
      BY <1>0, <2>2 DEF Ownership, QueueInv, MapInv, TypeOK
    <2>5. \A f \in Fd \ {Head(ready)} :
             connections'[f] = connections[f] /\ watched'[f] = watched[f]
      BY SMTT(60), <1>0, <1>8, <2>4 DEF WatchForWriting, WatchFails, CloseConnections, TypeOK,
             Add
    <2>6. \A e \in batch : e.fd # Head(ready)
      BY <1>0, <2>2, <2>3 DEF BatchInv
    <2>7. QED
      BY <1>0, <2>1, <2>2, <2>5, <2>6 DEF BatchInv
  <1>9. CASE Sweep
    BY <1>0, <1>9 DEF Sweep, BatchInv
  <1>10. CASE SetPhase \/ Enqueue
    BY <1>0, <1>10 DEF SetPhase, Enqueue, HandOffStep, HandOff, BatchInv
  <1>11. QED
    BY <1>1, <1>2, <1>3, <1>4, <1>5, <1>6, <1>7, <1>8, <1>9, <1>10
       DEF Next, EventLoop, HandleEvent, Accept, Flush

-----------------------------------------------------------------------------
(* The wakeup protocol.                                                    *)

LEMMA WakeupStep ==
  ASSUME ReactorAssumption, IInv, TypeOK', [Next]_vars
  PROVE  WakeupInv'
  <1>0. TypeOK /\ WakeupInv
    BY DEF IInv
  <1>1. SUFFICES ASSUME ~LossyWakeup, NoLostWakeup PROVE NoLostWakeup'
    BY <1>0 DEF WakeupInv
  <1>2. ASSUME UNCHANGED <<processedConnections, pipe, wstate>>,
               loop \notin {"drain", "swap"} \/ loop' \in {"drain", "swap"}
        PROVE  NoLostWakeup'
    BY <1>1, <1>2 DEF NoLostWakeup
  <1>3. CASE Client \/ UNCHANGED vars
    BY <1>2, <1>3 DEF Client, ClientConnect, ClientSend, ClientDrain, ClientLeave
  <1>4. CASE Wait(0) \/ Wait(1) \/ WaitFails \/ BatchDone \/ PipeEmpty \/ Sweep
    BY <1>2, <1>4 DEF Wait, WaitFails, BatchDone, PipeEmpty, Sweep, BatchOver,
             AfterBatch
  <1>5. CASE HandleEvent
    BY <1>2, <1>5 DEF HandleEvent, IgnoreEvent, AcceptEvent, WakeupEvent, Take,
                      ReadUntilClosed, ReadPartOfRequest, ReadWholeRequest,
                      ReadEvent, WritePart, WriteToTheEnd, WriteEvent
  <1>5b. CASE SetPhase \/ Enqueue
    BY <1>2, <1>5b DEF SetPhase, Enqueue, HandOffStep
  <1>6. CASE Accept
    BY <1>2, <1>6 DEF Accept, AcceptOne, AcceptSetupFails, AcceptReturns, Add
  <1>7. CASE DrainPipe \/ Swap
    BY <1>1, <1>7 DEF DrainPipe, Swap, NoLostWakeup, Draining
  <1>8. CASE WatchForWriting \/ WatchFails \/ FlushDone
    BY <1>2, <1>8 DEF WatchForWriting, WatchFails, FlushDone, PopReady, Add,
             Unmark
  <1>9. ASSUME NEW w \in Worker, WorkerStep(w) PROVE NoLostWakeup'
    <2>1. CASE TakeTask(w) \/ Respond(w) \/ Release(w)
      <3>1. /\ UNCHANGED <<processedConnections, pipe, loop>>
            /\ \A v \in Worker : wstate[v] = "wake" => wstate'[v] = "wake"
        BY <1>0, <2>1 DEF TakeTask, Respond, Release, TypeOK
      <3>2. QED
        BY <1>1, <3>1 DEF NoLostWakeup
    <2>2. CASE Push(w)
      <3>1. wstate'[w] = "wake"
        BY <1>0, <2>2 DEF Push, TypeOK
      <3>2. QED
        BY <3>1 DEF NoLostWakeup
    <2>3. CASE Wake(w)
      <3>1. pipe' > 0
        BY <1>0, <1>1, <2>3 DEF Wake, AfterWrite, TypeOK, ReactorAssumption
      <3>2. QED
        BY <3>1 DEF NoLostWakeup
    <2>4. QED
      BY <1>9, <2>1, <2>2, <2>3 DEF WorkerStep
  <1>10. QED
    BY <1>3, <1>4, <1>5, <1>6, <1>7, <1>8, <1>9, <1>5b DEF Next, EventLoop, Flush

LEMMA LagStep ==
  ASSUME IInv, [Next]_vars
  PROVE  LagInv'
  <1>0. lag \in 0..2 /\ LagInv
    BY DEF IInv, TypeOK
  <1>1. ASSUME UNCHANGED lag,
               \/ loop' \notin {"watch", "sweep", "wait"}
               \/ loop \in {"watch", "sweep", "wait"}
        PROVE  LagInv'
    BY <1>0, <1>1 DEF LagInv
  <1>2. CASE Client \/ UNCHANGED vars \/ \E w \in Worker : WorkerStep(w)
    BY <1>1, <1>2 DEF Client, ClientConnect, ClientSend, ClientDrain, ClientLeave,
                      WorkerStep, TakeTask, Respond, Push, Wake, Release
  <1>3. ASSUME NEW dt \in {0, 1}, Wait(dt) PROVE LagInv'
    BY <1>0, <1>3 DEF Wait, LagInv
  <1>4. CASE WaitFails \/ BatchDone \/ Accept \/ Sweep
    BY <1>1, <1>4 DEF WaitFails, BatchDone, Sweep, Accept, AcceptOne,
                      AcceptSetupFails, AcceptReturns, BatchOver, AfterBatch,
             Add
  <1>5. CASE HandleEvent
    BY <1>1, <1>5 DEF HandleEvent, IgnoreEvent, AcceptEvent, WakeupEvent, Take,
                      ReadUntilClosed, ReadPartOfRequest, ReadWholeRequest,
                      ReadEvent, WritePart, WriteToTheEnd, WriteEvent, HandOff
  <1>5b. CASE SetPhase \/ Enqueue
    BY <1>1, <1>5b DEF SetPhase, Enqueue, HandOffStep, HandOff
  <1>6. CASE Swap
    BY <1>6 DEF Swap, LagInv
  <1>7. CASE DrainPipe \/ PipeEmpty \/ WatchForWriting \/ WatchFails \/ FlushDone
    BY <1>1, <1>7 DEF DrainPipe, PipeEmpty, WatchForWriting, WatchFails,
                      FlushDone, PopReady, Draining, Add, Unmark
  <1>8. QED
    BY <1>2, <1>3, <1>4, <1>5, <1>6, <1>7, <1>5b DEF Next, EventLoop, Flush

-----------------------------------------------------------------------------
(* Theorems.                                                               *)

LEMMA IInvInit == Init => IInv
  <1> SUFFICES ASSUME Init PROVE IInv
    OBVIOUS
  <1>1. TypeOK
    BY TypeInit, ReactorAssumption
  <1>2. InHand = {} /\ Queued = {} /\ Handing = {}
    BY EmptyElements DEF Init, InHand, WorksOn, Queued, Handing
  <1>3. MapInv /\ WatchInv /\ ProcessingInv
    BY DEF Init, MapInv, WatchInv, ProcessingInv
  <1>7. BufferInv /\ HandOffInv
    BY <1>2, ReactorAssumption DEF Init, BufferInv, HandOffInv, ReactorAssumption
  <1>4. HandInv /\ QueueInv
    BY <1>2, EmptyElements DEF Init, HandInv, QueueInv, WorksOn
  <1>5. BatchInv /\ WakeupInv /\ LagInv
    BY DEF Init, BatchInv, WakeupInv, NoLostWakeup, LagInv
  <1>6. QED
    BY <1>1, <1>3, <1>4, <1>5, <1>7 DEF IInv

LEMMA IInvStep == IInv /\ [Next]_vars => IInv'
  <1> SUFFICES ASSUME IInv, [Next]_vars PROVE IInv'
    OBVIOUS
  <1>1. TypeOK'
    BY TypeStep, ReactorAssumption DEF IInv
  <1>2. Ownership'
    BY <1>1, OwnershipStep, ReactorAssumption
  <1>3. BatchInv' /\ WakeupInv' /\ LagInv' /\ BufferInv' /\ HandOffInv'
    BY <1>1, <1>2, BatchStep, WakeupStep, LagStep, BufferStep, HandingStep,
       ReactorAssumption
  <1>4. QED
    BY <1>1, <1>2, <1>3 DEF IInv, Ownership

(* Every reachable state satisfies the inductive invariant.                *)
THEOREM Invariance == Spec => []IInv
  BY IInvInit, IInvStep, PTL DEF Spec

(* Every variable keeps its type: descriptors in the queues are client     *)
(* descriptors, the pipe never overflows, the counters stay in range.      *)
THEOREM TypeCorrect == Spec => []TypeOK
  <1>1. IInv => TypeOK
    BY DEF IInv
  <1>2. QED
    BY <1>1, Invariance, PTL

(* connection.h:16: the event loop and a worker never own a connection at  *)
(* the same time, nor do two workers.                                      *)
THEOREM Exclusive == Spec => []ExclusiveOwnership
  <1>1. IInv => ExclusiveOwnership
    <2> SUFFICES ASSUME IInv PROVE ExclusiveOwnership
      OBVIOUS
    <2>1. \A c \in InHand :
            /\ c \in Conn /\ life[c] = "live" /\ connections[sock[c]] = c
            /\ sock[c] \in Fd /\ sock[c] \in processingConnections
      BY SubsetOK DEF IInv, HandInv, MapInv
    <2>2. \A c \in InHand : watched[sock[c]] = {}
      BY <2>1 DEF IInv, WatchInv
    <2>3. \A c \in InHand, e \in batch : e.fd # sock[c]
      BY <2>1, <2>2 DEF IInv, BatchInv
    <2>4. QED
      BY <2>1, <2>2, <2>3 DEF IInv, HandInv, ExclusiveOwnership
  <1>2. QED
    BY <1>1, Invariance, PTL

(* poller_kqueue.cpp:45: a connection is only ever watched for one filter  *)
(* at a time, so the two Pollers report the same events but for hang-ups.  *)
THEOREM WatchedOnce == Spec => []OneFilter
  <1>1. IInv => OneFilter
    BY OneInterest DEF IInv
  <1>2. QED
    BY <1>1, Invariance, PTL

(* A descriptor in the queue between the workers and the loop names the    *)
(* connection whose untouched response it announces, once.                 *)
THEOREM HandOffs == Spec => []HandOffsAreCurrent
  <1>1. IInv => HandOffsAreCurrent
    BY SubsetOK DEF IInv, QueueInv, WatchInv, HandOffsAreCurrent
  <1>2. QED
    BY <1>1, Invariance, PTL

(* server.h:46: processingConnections is exactly what the workers have, or *)
(* are about to get.                                                       *)
THEOREM ProcessingExact == Spec => []ProcessingConnectionsExact
  <1>1. IInv => ProcessingConnectionsExact
    <2> SUFFICES ASSUME IInv PROVE ProcessingConnectionsExact
      OBVIOUS
    <2>1. \A f \in processingConnections :
             f \in Queued \/ \E c \in InHand \cup Handing : sock[c] = f
      <3>1. SUFFICES ASSUME NEW f \in processingConnections, f \notin Queued
                     PROVE  \E c \in InHand \cup Handing : sock[c] = f
        OBVIOUS
      <3>2. f \in Fd /\ connections[f] \in InHand \cup Handing
        BY <3>1 DEF IInv, TypeOK, ProcessingInv
      <3>3. connections[f] # NoConn
        BY <3>2, SubsetOK, ReactorAssumption DEF IInv, ReactorAssumption, Handing
      <3>4. sock[connections[f]] = f
        BY <3>2, <3>3 DEF IInv, MapInv
      <3>5. QED
        BY <3>2, <3>4
    <2>2. /\ \A c \in InHand \cup Handing : sock[c] \in processingConnections
          /\ Queued \subseteq processingConnections
      BY DEF IInv, HandInv, HandOffInv, QueueInv
    <2>3. QED
      BY <2>1, <2>2 DEF ProcessingConnectionsExact
  <1>2. QED
    BY <1>1, Invariance, PTL

(* While writes to the pipe fail only when it is full, a queued response   *)
(* always has a wakeup on the way.                                         *)
THEOREM NoWakeupLost == ~LossyWakeup => (Spec => []NoLostWakeup)
  <1> SUFFICES ASSUME ~LossyWakeup PROVE Spec => []NoLostWakeup
    OBVIOUS
  <1>1. IInv => NoLostWakeup
    BY DEF IInv, WakeupInv
  <1>2. QED
    BY <1>1, Invariance, PTL

(* server.cpp:134: even when wakeups are lost, no response waits in the    *)
(* queue for more than one poll interval.                                  *)
THEOREM DelayBounded == Spec => []OnePollInterval
  <1>1. IInv => OnePollInterval
    BY DEF IInv, LagInv, OnePollInterval
  <1>2. QED
    BY <1>1, Invariance, PTL

(* Every event is handled for the connection it was reported for.          *)
THEOREM FreshEvents == Spec => []EventsAreFresh
  <1>1. IInv => EventsAreFresh
    BY DEF IInv, BatchInv, EventsAreFresh
  <1>2. QED
    BY <1>1, Invariance, PTL

-----------------------------------------------------------------------------
(* The reactor implements the life cycle.                                  *)

LEMMA StageInit == Init => Lifecycle!Init
  BY DEF Init, Lifecycle!Init, stageOf

LEMMA StageUnchanged ==
  ASSUME UNCHANGED <<life, sock, connections, phase>>
  PROVE  UNCHANGED stageOf
  BY DEF stageOf, Unmapped

LEMMA StageClose ==
  ASSUME ReactorAssumption, IInv, NEW S \in SUBSET Conn, CloseConnections(S),
         \A c \in S : /\ life[c] = "live" /\ connections[sock[c]] = c
                     /\ phase[c] \in {"READING", "WRITING"},
         UNCHANGED <<sock, phase>>
  PROVE  Lifecycle!Next \/ UNCHANGED stageOf
  <1>0. TypeOK /\ MapInv /\ NoConn \notin Conn
    BY DEF IInv, ReactorAssumption
  <1>1. \A f \in Fd : connections'[f] = IF \E c \in S : sock[c] = f THEN NoConn
                                                                 ELSE connections[f]
    BY DEF CloseConnections
  <1>2. \A c \in Conn : life'[c] = IF c \in S /\ ~HeldByPool(c) THEN "dead" ELSE life[c]
    BY DEF CloseConnections
  <1>3. ASSUME NEW c \in S PROVE stageOf[c] \in {"READING", "WRITING"} /\ stageOf'[c] = "closed"
    <2>1. life[c] = "live" /\ connections[sock[c]] = c /\ c \in Conn /\ sock[c] \in Fd
      BY <1>0, <1>3 DEF MapInv
    <2>2. connections'[sock[c]] = NoConn /\ c # NoConn
      BY <1>0, <1>1, <2>1
    <2>3. stageOf[c] = phase[c]
      BY <2>1 DEF stageOf, Unmapped
    <2>4. life'[c] \in {"live", "dead"}
      BY <1>2, <2>1
    <2>5. stageOf'[c] = "closed"
      BY <2>1, <2>2, <2>4 DEF stageOf, Unmapped
    <2>6. QED
      BY <2>3, <2>5
  <1>4. ASSUME NEW c \in Conn \ S PROVE stageOf'[c] = stageOf[c]
    <2>1. life'[c] = life[c]
      BY <1>2
    <2>2. life[c] = "live" => ((connections'[sock[c]] = c) <=> (connections[sock[c]] = c))
      BY <1>0, <1>1 DEF MapInv
    <2>3. QED
      BY <2>1, <2>2 DEF stageOf, Unmapped
  <1>5. stageOf' = [c \in Conn |-> IF c \in S THEN "closed" ELSE stageOf[c]]
    BY <1>3, <1>4 DEF stageOf
  <1>6. CASE S = {}
    BY <1>4, <1>5, <1>6 DEF stageOf
  <1>7. CASE S # {}
    BY <1>3, <1>5, <1>7 DEF Lifecycle!Next, Lifecycle!Close
  <1>8. QED
    BY <1>6, <1>7

LEMMA StageMove ==
  ASSUME NEW c \in Conn, NEW from, NEW to,
         stageOf[c] = from, stageOf'[c] = to,
         \A d \in Conn \ {c} : stageOf'[d] = stageOf[d]
  PROVE  Lifecycle!Move(c, from, to)
  <1>1. stageOf' = [stageOf EXCEPT ![c] = to]
    BY DEF stageOf
  <1>2. QED
    BY <1>1 DEF Lifecycle!Move

LEMMA StageStep ==
  ASSUME ReactorAssumption, IInv, [Next]_vars
  PROVE  Lifecycle!Next \/ UNCHANGED stageOf
  <1> USE DEF Ownership
  <1>0. /\ TypeOK /\ Ownership /\ BatchInv /\ HandOffInv /\ NoConn \notin Conn
    BY DEF IInv, ReactorAssumption
  <1>1. CASE Quiet \/ Swap \/ WatchForWriting \/ Enqueue
             \/ \E e \in batch : \/ ReadWholeRequest(e)
                               \/ \E n \in 1..RespParts : WritePart(e, n)
    BY <1>1, StageUnchanged DEF Quiet, Swap, WatchForWriting, PopReady, WritePart,
             Add, Unmark, Enqueue, HandOffStep, ReadWholeRequest, ReadEvent
  <1>2. ASSUME NEW c \in Conn, ClientConnect(c)
        PROVE  UNCHANGED stageOf
    BY <1>0, <1>2 DEF ClientConnect, stageOf, Unmapped, TypeOK
  <1>3. ASSUME NEW c \in Conn, AcceptSetupFails(c)
        PROVE  Lifecycle!Refuse(c)
    <2>1. /\ life[c] = "backlog" /\ life'[c] = "dead"
          /\ \A d \in Conn \ {c} : life'[d] = life[d]
          /\ UNCHANGED <<sock, connections, phase>>
      BY <1>0, <1>3 DEF AcceptSetupFails, TypeOK
    <2>2. /\ stageOf[c] = "new" /\ stageOf'[c] = "closed"
          /\ \A d \in Conn \ {c} : stageOf'[d] = stageOf[d]
      BY <2>1 DEF stageOf, Unmapped
    <2>3. QED
      BY <2>2, StageMove DEF Lifecycle!Refuse
  <1>4. ASSUME NEW c \in Conn, NEW f \in Fd, AcceptOne(c, f)
        PROVE  Lifecycle!Open(c)
    <2>1. /\ life[c] = "backlog" /\ life'[c] = "live" /\ sock'[c] = f
          /\ connections'[f] = c /\ phase[c] = "READING" /\ phase' = phase
          /\ \A d \in Conn \ {c} : life'[d] = life[d] /\ sock'[d] = sock[d]
          /\ \A g \in Fd \ {f} : connections'[g] = connections[g]
          /\ \A d \in Conn : life[d] = "live" => sock[d] \in Fd \ {f}
      BY <1>0, <1>4 DEF AcceptOne, OpenFds, MapInv, TypeOK, Add
    <2>2. /\ stageOf[c] = "new" /\ stageOf'[c] = "READING"
      BY <2>1 DEF stageOf, Unmapped
    <2>3. \A d \in Conn \ {c} : stageOf'[d] = stageOf[d]
      BY <2>1 DEF stageOf, Unmapped
    <2>4. QED
      BY <2>2, <2>3, StageMove DEF Lifecycle!Open
  <1>5. ASSUME NEW e \in batch, ReadUntilClosed(e) \/ WriteToTheEnd(e)
        PROVE  Lifecycle!Next \/ UNCHANGED stageOf
    <2> DEFINE c == connections[e.fd]
    <2>1. Expected(e) /\ CloseConnections({c}) /\ UNCHANGED <<sock, phase>>
      BY <1>5 DEF ReadUntilClosed, WriteToTheEnd, ReadEvent, WriteEvent
    <2>2. c \in Conn /\ life[c] = "live" /\ sock[c] = e.fd
      BY <1>0, <2>1, EventConnection
    <2>3. phase[c] \in {"READING", "WRITING"}
      BY <2>1 DEF Expected
    <2>4. connections[sock[c]] = c
      BY <2>2
    <2> HIDE DEF c
    <2>5. QED
      BY <2>1, <2>2, <2>3, <2>4, StageClose
  <1>6. CASE SetPhase
    <2> DEFINE c == handing
    <2>1. /\ phase' = [phase EXCEPT ![c] = "PROCESSING"]
          /\ UNCHANGED <<life, sock, connections>>
      BY <1>6 DEF SetPhase, HandOffStep
    <2>2. /\ c \in Conn /\ life[c] = "live" /\ connections[sock[c]] = c
          /\ phase[c] = "READING"
      BY <1>0, <1>6, HandedConnection DEF SetPhase, HandOffStep
    <2>3. phase'[c] = "PROCESSING" /\ \A d \in Conn \ {c} : phase'[d] = phase[d]
      BY <1>0, <2>1, <2>2 DEF TypeOK
    <2> HIDE DEF c
    <2>4. /\ stageOf[c] = "READING" /\ stageOf'[c] = "PROCESSING"
          /\ \A d \in Conn \ {c} : stageOf'[d] = stageOf[d]
      BY <2>1, <2>2, <2>3 DEF stageOf, Unmapped
    <2>5. QED
      BY <2>2, <2>4, StageMove DEF Lifecycle!HandOff, Lifecycle!Next
  <1>7. CASE WatchFails
    <2> DEFINE c == connections[Head(ready)]
    <2>1. PopReady /\ UNCHANGED processedConnections /\ CloseConnections({c})
          /\ UNCHANGED <<sock, phase>>
      BY <1>7 DEF WatchFails
    <2>2. Head(ready) \in Fd /\ Head(ready) \in Queued
      BY <1>0, <2>1, PopStep
    <2>3. /\ c \in Conn /\ life[c] = "live" /\ connections[sock[c]] = c
          /\ phase[c] = "WRITING"
      BY <1>0, <2>2 DEF QueueInv, MapInv, TypeOK
    <2> HIDE DEF c
    <2>4. QED
      BY <2>1, <2>3, StageClose
  <1>8. CASE Sweep
    <2> DEFINE S == IF sweepDue THEN IdleConnections ELSE {}
    <2>1. CloseConnections(S) /\ UNCHANGED <<sock, phase>>
      BY <1>8 DEF Sweep
    <2>2. ASSUME NEW c \in S
          PROVE  /\ c \in Conn /\ life[c] = "live" /\ connections[sock[c]] = c
                 /\ phase[c] \in {"READING", "WRITING"}
      <3>1. PICK f \in Fd : connections[f] = c /\ f \notin processingConnections
        BY <2>2 DEF IdleConnections, Skipped
      <3>2. c \in Conn /\ c # NoConn
        BY <1>0, <2>2 DEF IdleConnections, Skipped
      <3>3. life[c] = "live" /\ sock[c] = f
        BY <1>0, <3>1, <3>2 DEF MapInv
      <3>4. phase[c] # "PROCESSING"
        BY <1>0, <3>1, <3>2 DEF WatchInv
      <3>5. phase[c] \in Phases
        BY <1>0, <3>2 DEF TypeOK
      <3>6. QED
        BY <3>1, <3>2, <3>3, <3>4, <3>5 DEF Phases
    <2> HIDE DEF S
    <2>3. QED
      BY <2>1, <2>2, StageClose
  <1>9. ASSUME NEW w \in Worker, WorkerStep(w)
        PROVE  Lifecycle!Next \/ UNCHANGED stageOf
    <2>1. CASE TakeTask(w) \/ Push(w) \/ Wake(w)
      BY <2>1, StageUnchanged DEF TakeTask, Push, Wake
    <2>2. CASE Respond(w)
      <3> DEFINE c == wconn[w]
      <3>1. phase' = [phase EXCEPT ![c] = "WRITING"] /\ UNCHANGED <<life, sock, connections>>
        BY <2>2 DEF Respond
      <3>2. /\ c \in Conn /\ c \in InHand /\ phase[c] = "PROCESSING"
        BY <1>0, <2>2 DEF Respond, HandInv, InHand, WorksOn
      <3>3. life[c] = "live" /\ connections[sock[c]] = c
        BY <1>0, <3>2 DEF HandInv
      <3>4. /\ phase'[c] = "WRITING" /\ \A d \in Conn \ {c} : phase'[d] = phase[d]
        BY <1>0, <3>1, <3>2 DEF TypeOK
      <3> HIDE DEF c
      <3>5. /\ stageOf[c] = "PROCESSING" /\ stageOf'[c] = "WRITING"
            /\ \A d \in Conn \ {c} : stageOf'[d] = stageOf[d]
        BY <3>1, <3>2, <3>3, <3>4 DEF stageOf, Unmapped
      <3>6. QED
        BY <3>2, <3>5, StageMove DEF Lifecycle!Next, Lifecycle!Respond
    <2>3. CASE Release(w)
      <3>1. UNCHANGED <<sock, connections, phase>>
        BY <2>3 DEF Release
      <3>2. wconn[w] \in Conn
        BY <1>0, <2>3 DEF Release, HandInv
      <3>3. CASE connections[sock[wconn[w]]] = wconn[w]
        BY <2>3, <3>1, <3>3, StageUnchanged DEF Release
      <3>4. CASE connections[sock[wconn[w]]] # wconn[w]
        <4>1. life' = [life EXCEPT ![wconn[w]] = "dead"]
          BY <2>3, <3>4 DEF Release
        <4>2. life[wconn[w]] \in {"live", "dead"}
          BY <1>0, <2>3 DEF Release, HandInv
        <4>3. QED
          BY <1>0, <3>1, <3>2, <3>4, <4>1, <4>2 DEF stageOf, Unmapped, TypeOK
      <3>5. QED
        BY <3>3, <3>4
    <2>4. QED
      BY <1>9, <2>1, <2>2, <2>3 DEF WorkerStep
  <1>10. QED
    BY <1>1, <1>2, <1>3, <1>4, <1>5, <1>6, <1>7, <1>8, <1>9, StepCases
       DEF Lifecycle!Next

(* The reactor implements the life cycle: a connection goes through        *)
(* READING, PROCESSING and WRITING in this order, each at most once, the   *)
(* loop closes it only while it owns it, and it never comes back.          *)
THEOREM Refinement == Spec => RefinesLifecycle
  <1>1. IInv /\ [Next]_vars => [Lifecycle!Next]_stageOf
    BY StageStep, ReactorAssumption
  <1>2. QED
    BY <1>1, StageInit, Invariance, PTL DEF Spec, RefinesLifecycle, Lifecycle!Spec

=============================================================================

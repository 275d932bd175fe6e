-------------------------- MODULE DescriptorsProofs --------------------------
(***************************************************************************)
(* Theorems about Descriptors: every safety property of the module holds   *)
(* for any number of connections, workers and descriptors.  All follow     *)
(* from IInv of DescriptorsInvariant; there is a lemma for every action.   *)
(***************************************************************************)
EXTENDS DescriptorsInvariant, TLAPS

USE DescriptorsAssumption DEF DescriptorsAssumption
USE DEF vars, objectVars, serverVars, clientVars, workerVars,
        NoFd, pollerFd, serverSocket, wakeupRead, wakeupWrite

LEMMA KindsDiffer ==
  /\ \A c, d \in Conn : /\ Socket(c) # File(d)
                        /\ Socket(c) = Socket(d) => c = d
                        /\ File(c) = File(d) => c = d
  /\ \A c \in Conn : /\ Socket(c) \in Descriptions /\ File(c) \in Descriptions
                     /\ Socket(c) \notin {Free, Poller, Listener, PipeOut, PipeIn}
                     /\ File(c) \notin {Free, Poller, Listener, PipeOut, PipeIn}
  /\ {Free, Poller, Listener, PipeOut, PipeIn} \subseteq Descriptions
  /\ Free \notin {Poller, Listener, PipeOut, PipeIn}
  /\ Listener # PipeOut /\ Listener # PipeIn /\ PipeOut # PipeIn
  <1>1. \A c, d \in Conn : Socket(c) # File(d)
    BY DEF Socket, File
  <1>2. \A c, d \in Conn : /\ Socket(c) = Socket(d) => c = d
                           /\ File(c) = File(d) => c = d
    BY DEF Socket, File
  <1>3. \A c \in Conn : Socket(c) \in Descriptions /\ File(c) \in Descriptions
    BY DEF Socket, File, Descriptions, Kinds
  <1>4. \A c \in Conn : /\ Socket(c) \notin {Free, Poller, Listener, PipeOut, PipeIn}
                        /\ File(c) \notin {Free, Poller, Listener, PipeOut, PipeIn}
    BY DEF Socket, File, Free, Poller, Listener, PipeOut, PipeIn, Own
  <1>5. {Free, Poller, Listener, PipeOut, PipeIn} \subseteq Descriptions
    BY DEF Free, Poller, Listener, PipeOut, PipeIn, Own, Descriptions, Kinds
  <1>6. /\ Free \notin {Poller, Listener, PipeOut, PipeIn}
        /\ Listener # PipeOut /\ Listener # PipeIn /\ PipeOut # PipeIn
    BY DEF Free, Poller, Listener, PipeOut, PipeIn, Own
  <1>7. QED
    BY <1>1, <1>2, <1>3, <1>4, <1>5, <1>6

-----------------------------------------------------------------------------
(* Numbers that stand for different things are different numbers, so what  *)
(* one owner closes leaves the others' alone.                              *)

LEMMA ConnectionStays ==
  ASSUME TypeOK, NEW c \in Conn, ConnectionHolds(c),
         UNCHANGED <<socket[c], file[c], responseFile[c]>>,
         \A n \in Fd : table[n] \in {Socket(c), File(c)} => table'[n] = table[n]
  PROVE  ConnectionHolds(c)'
  <1>1. /\ socket[c] \in Fd \cup {NoFd} /\ file[c] \in Fd \cup {NoFd}
        /\ responseFile[c] \in Fd \cup {NoFd}
    BY DEF TypeOK
  <1>2. Socket(c)' = Socket(c) /\ File(c)' = File(c)
    BY DEF Socket, File
  <1>3. /\ socket'[c] # NoFd => table'[socket'[c]] = Socket(c)
        /\ file'[c] # NoFd => table'[file'[c]] = File(c)
        /\ responseFile'[c] # NoFd => table'[responseFile'[c]] = File(c)
    BY <1>1 DEF ConnectionHolds
  <1>4. QED
    BY <1>2, <1>3 DEF ConnectionHolds

LEMMA ConnectionGone ==
  ASSUME NEW c \in Conn, socket'[c] = NoFd, file'[c] = NoFd, responseFile'[c] = NoFd
  PROVE  ConnectionHolds(c)'
  BY DEF ConnectionHolds

LEMMA ServerStays ==
  ASSUME TypeOK, ServerHolds,
         HasListener' => HasListener, HasReadEnd' => HasReadEnd,
         HasWriteEnd' => HasWriteEnd,
         HasListener' => table'[serverSocket] = table[serverSocket],
         HasReadEnd' => table'[wakeupRead] = table[wakeupRead],
         HasWriteEnd' => table'[wakeupWrite] = table[wakeupWrite]
  PROVE  ServerHolds'
  BY DEF ServerHolds, Listener, PipeOut, PipeIn, Own

LEMMA AcceptPreserves ==
  ASSUME IInv, NEW c \in Conn, Accept(c)
  PROVE  IInv'
  <1> USE DEF IInv, OwnershipInv, Accept
  <1>1. TypeOK'
    BY KindsDiffer DEF TypeOK, LoopStages, Opened, LowestFree
  <1>2. FreshInv'
    BY DEF FreshInv, Opened, LowestFree
  <1>3. ClientInv'
    BY DEF ClientInv, Setup, TypeOK, FreshInv, Opened, LowestFree
  <1>4. ObjectInv'
    BY DEF ObjectInv, HeldByPool, Opened, LowestFree
  <1>5. JobInv'
    BY DEF JobInv, Opened, LowestFree
  <1>6. PhaseInv'
    BY DEF PhaseInv, Opened, LowestFree
  <1>7. FileInv'
    BY DEF FileInv, Opened, LowestFree
  <1>8. StopInv'
    BY DEF StopInv, Opened, LowestFree
  <1>9. NothingLeaks'
    <2>1. PICK k \in LowestFree : /\ table' = Opened(k, Socket(c))
                                  /\ client' = [conn |-> c, fd |-> k]
      OBVIOUS
    <2>2. loop = "serve" /\ loop' = "construct" /\ k \in Fd /\ c \in Conn
      BY DEF LowestFree
    <2>3. ASSUME NEW n \in Fd, table'[n] # Free
          PROVE  (OwnedByServer(n) \/ \E d \in Conn : OwnedByConnection(n, d))'
      <3>1. CASE n = k
        <4>1. OwnedByConnection(n, c)'
          BY <2>1, <2>2, <3>1 DEF OwnedByConnection, RawClientSocket, Opened, TypeOK
        <4>2. QED
          BY <2>2, <4>1
      <3>2. CASE n # k
        <4>1. table'[n] = table[n]
          BY <2>1, <3>2 DEF Opened, TypeOK
        <4>2. OwnedByServer(n) => OwnedByServer(n)'
          BY <2>2 DEF OwnedByServer, HasListener, HasReadEnd, HasWriteEnd
        <4>3. \A d \in Conn : OwnedByConnection(n, d) => OwnedByConnection(n, d)'
          BY <2>2, <4>1 DEF OwnedByConnection, RawClientSocket
        <4>4. QED
          BY <2>3, <4>1, <4>2, <4>3 DEF NothingLeaks
      <3>3. QED
        BY <3>1, <3>2
    <2>4. QED
      BY <2>3, Free = Free' DEF NothingLeaks, Free, Own
  <1>10. HoldersAreRight'
    BY KindsDiffer DEF HoldersAreRight, OwnersHold, ConnectionHolds, ServerHolds,
           RawClientSocket, HasListener, HasReadEnd, HasWriteEnd, TypeOK,
           Opened, LowestFree
  <1>11. QED
    BY <1>1, <1>2, <1>3, <1>4, <1>5, <1>6, <1>7, <1>8, <1>9, <1>10

LEMMA ConstructPreserves ==
  ASSUME IInv, Construct
  PROVE  IInv'
  <1> USE DEF IInv, OwnershipInv, Construct
  <1>1. TypeOK'
    BY KindsDiffer DEF TypeOK, LoopStages
  <1>2. FreshInv'
    BY DEF FreshInv
  <1>3. ClientInv'
    BY DEF ClientInv, Setup, TypeOK
  <1>4. ObjectInv'
    BY DEF ObjectInv, HeldByPool, TypeOK, FreshInv, ClientInv, Setup
  <1>5. JobInv'
    BY DEF JobInv
  <1>6. PhaseInv'
    BY DEF PhaseInv
  <1>7. FileInv'
    BY DEF FileInv
  <1>8. StopInv'
    BY DEF StopInv
  <1>9. NothingLeaks'
    BY KindsDiffer DEF NothingLeaks, OwnedByServer, OwnedByConnection,
           RawClientSocket, HasListener, HasReadEnd, HasWriteEnd, TypeOK,
           FreshInv, ClientInv, Setup
  <1>10. HoldersAreRight'
    BY KindsDiffer DEF HoldersAreRight, OwnersHold, ConnectionHolds, ServerHolds,
           RawClientSocket, HasListener, HasReadEnd, HasWriteEnd
  <1>11. QED
    BY <1>1, <1>2, <1>3, <1>4, <1>5, <1>6, <1>7, <1>8, <1>9, <1>10

LEMMA ConstructThrowsPreserves ==
  ASSUME IInv, ConstructThrows
  PROVE  IInv'
  <1> USE DEF IInv, OwnershipInv, ConstructThrows
  <1>1. TypeOK'
    BY KindsDiffer DEF TypeOK, LoopStages
  <1>2. FreshInv'
    BY DEF FreshInv
  <1>3. ClientInv'
    BY DEF ClientInv, Setup
  <1>4. ObjectInv'
    BY DEF ObjectInv, HeldByPool
  <1>5. JobInv'
    BY DEF JobInv
  <1>6. PhaseInv'
    BY DEF PhaseInv
  <1>7. FileInv'
    BY DEF FileInv
  <1>8. StopInv'
    BY DEF StopInv
  <1>9. NothingLeaks'
    BY KindsDiffer DEF NothingLeaks, OwnedByServer, OwnedByConnection,
           RawClientSocket, HasListener, HasReadEnd, HasWriteEnd, TypeOK,
           FreshInv, ClientInv, Setup
  <1>10. HoldersAreRight'
    BY KindsDiffer DEF HoldersAreRight, OwnersHold, ConnectionHolds, ServerHolds,
           RawClientSocket, HasListener, HasReadEnd, HasWriteEnd
  <1>11. QED
    BY <1>1, <1>2, <1>3, <1>4, <1>5, <1>6, <1>7, <1>8, <1>9, <1>10

LEMMA InsertPreserves ==
  ASSUME IInv, Insert
  PROVE  IInv'
  <1> USE DEF IInv, OwnershipInv, Insert
  <1>1. TypeOK'
    BY KindsDiffer DEF TypeOK, LoopStages, FreshInv, ClientInv, Setup
  <1>2. FreshInv'
    BY DEF FreshInv
  <1>3. ClientInv'
    BY DEF ClientInv, Setup
  <1>4. ObjectInv'
    BY DEF ObjectInv, HeldByPool, TypeOK, FreshInv, ClientInv, Setup
  <1>5. JobInv'
    BY DEF JobInv
  <1>6. PhaseInv'
    BY DEF PhaseInv
  <1>7. FileInv'
    BY DEF FileInv
  <1>8. StopInv'
    BY DEF StopInv
  <1>9. NothingLeaks'
    BY KindsDiffer DEF NothingLeaks, OwnedByServer, OwnedByConnection,
           RawClientSocket, HasListener, HasReadEnd, HasWriteEnd
  <1>10. HoldersAreRight'
    BY KindsDiffer DEF HoldersAreRight, OwnersHold, ConnectionHolds, ServerHolds,
           RawClientSocket, HasListener, HasReadEnd, HasWriteEnd
  <1>11. QED
    BY <1>1, <1>2, <1>3, <1>4, <1>5, <1>6, <1>7, <1>8, <1>9, <1>10

LEMMA InsertThrowsPreserves ==
  ASSUME IInv, InsertThrows
  PROVE  IInv'
  <1> USE DEF IInv, OwnershipInv, InsertThrows
  <1>1. TypeOK'
    BY KindsDiffer DEF TypeOK, LoopStages, Closed, ClosedByDestructor, Destroyed
  <1>2. FreshInv'
    BY DEF FreshInv, Closed, ClosedByDestructor, Destroyed
  <1>3. ClientInv'
    BY DEF ClientInv, Setup, TypeOK, Closed, ClosedByDestructor, Destroyed
  <1>4. ObjectInv'
    BY DEF ObjectInv, HeldByPool, TypeOK, FreshInv, ClientInv, Setup, JobInv,
           PhaseInv, FileInv, StopInv, Closed, ClosedByDestructor, Destroyed
  <1>5. JobInv'
    BY DEF JobInv, Closed, ClosedByDestructor, Destroyed
  <1>6. PhaseInv'
    BY DEF PhaseInv, Closed, ClosedByDestructor, Destroyed
  <1>7. FileInv'
    BY DEF FileInv, Closed, ClosedByDestructor, Destroyed
  <1>8. StopInv'
    BY DEF StopInv, Closed, ClosedByDestructor, Destroyed
  <1>9. NothingLeaks'
    BY KindsDiffer DEF NothingLeaks, OwnedByServer, OwnedByConnection,
           RawClientSocket, HasListener, HasReadEnd, HasWriteEnd, Closed,
           ClosedByDestructor, Destroyed
  <1>10. HoldersAreRight'
    BY KindsDiffer DEF HoldersAreRight, OwnersHold, ConnectionHolds, ServerHolds,
           RawClientSocket, HasListener, HasReadEnd, HasWriteEnd, Closed,
           ClosedByDestructor, Destroyed
  <1>11. QED
    BY <1>1, <1>2, <1>3, <1>4, <1>5, <1>6, <1>7, <1>8, <1>9, <1>10

LEMMA WatchPreserves ==
  ASSUME IInv, Watch
  PROVE  IInv'
  <1> USE DEF IInv, OwnershipInv, Watch
  <1>1. TypeOK'
    BY KindsDiffer DEF TypeOK, LoopStages
  <1>2. FreshInv'
    BY DEF FreshInv
  <1>3. ClientInv'
    BY DEF ClientInv, Setup
  <1>4. ObjectInv'
    BY DEF ObjectInv, HeldByPool
  <1>5. JobInv'
    BY DEF JobInv
  <1>6. PhaseInv'
    BY DEF PhaseInv
  <1>7. FileInv'
    BY DEF FileInv
  <1>8. StopInv'
    BY DEF StopInv
  <1>9. NothingLeaks'
    BY KindsDiffer DEF NothingLeaks, OwnedByServer, OwnedByConnection,
           RawClientSocket, HasListener, HasReadEnd, HasWriteEnd
  <1>10. HoldersAreRight'
    BY KindsDiffer DEF HoldersAreRight, OwnersHold, ConnectionHolds, ServerHolds,
           RawClientSocket, HasListener, HasReadEnd, HasWriteEnd
  <1>11. QED
    BY <1>1, <1>2, <1>3, <1>4, <1>5, <1>6, <1>7, <1>8, <1>9, <1>10

LEMMA WatchThrowsPreserves ==
  ASSUME IInv, WatchThrows
  PROVE  IInv'
  <1> USE DEF IInv, OwnershipInv, WatchThrows
  <1>1. TypeOK'
    BY KindsDiffer DEF TypeOK, LoopStages
  <1>2. FreshInv'
    BY DEF FreshInv
  <1>3. ClientInv'
    BY DEF ClientInv, Setup
  <1>4. ObjectInv'
    BY DEF ObjectInv, HeldByPool
  <1>5. JobInv'
    BY DEF JobInv
  <1>6. PhaseInv'
    BY DEF PhaseInv
  <1>7. FileInv'
    BY DEF FileInv
  <1>8. StopInv'
    BY DEF StopInv
  <1>9. NothingLeaks'
    BY KindsDiffer DEF NothingLeaks, OwnedByServer, OwnedByConnection,
           RawClientSocket, HasListener, HasReadEnd, HasWriteEnd
  <1>10. HoldersAreRight'
    BY KindsDiffer DEF HoldersAreRight, OwnersHold, ConnectionHolds, ServerHolds,
           RawClientSocket, HasListener, HasReadEnd, HasWriteEnd, TypeOK,
           FreshInv, ClientInv, Setup
  <1>11. QED
    BY <1>1, <1>2, <1>3, <1>4, <1>5, <1>6, <1>7, <1>8, <1>9, <1>10

LEMMA CatchPreserves ==
  ASSUME IInv, Catch
  PROVE  IInv'
  <1> USE DEF IInv, OwnershipInv, Catch
  <1>1. TypeOK'
    BY KindsDiffer DEF TypeOK, LoopStages, EraseFromMap, HeldByPool, Closed,
           ClosedByDestructor, Destroyed
  <1>2. FreshInv'
    BY DEF FreshInv, EraseFromMap, HeldByPool, Closed, ClosedByDestructor,
           Destroyed
  <1>3. ClientInv'
    BY DEF ClientInv, Setup, EraseFromMap, HeldByPool, Closed,
           ClosedByDestructor, Destroyed
  <1>4. ObjectInv'
    BY DEF ObjectInv, HeldByPool, EraseFromMap, Closed, ClosedByDestructor,
           Destroyed
  <1>5. JobInv'
    BY DEF JobInv, EraseFromMap, HeldByPool, Closed, ClosedByDestructor,
           Destroyed
  <1>6. PhaseInv'
    BY DEF PhaseInv, TypeOK, FreshInv, ClientInv, Setup, EraseFromMap,
           HeldByPool, Closed, ClosedByDestructor, Destroyed
  <1>7. FileInv'
    BY DEF FileInv, EraseFromMap, HeldByPool, Closed, ClosedByDestructor,
           Destroyed
  <1>8. StopInv'
    BY DEF StopInv, EraseFromMap, HeldByPool, Closed, ClosedByDestructor,
           Destroyed
  <1>9. NothingLeaks'
    <2> DEFINE d == client.conn
    <2>1. /\ loop = "catch" /\ ~RawClientSocket' /\ d \in Conn /\ client.fd \in Fd
          /\ responseFile' = responseFile
      BY DEF ClientInv, Setup, TypeOK, RawClientSocket
    <2>2. responseFile[d] = NoFd /\ ~HeldByPool(d) /\ file[d] = NoFd
      BY <2>1 DEF ClientInv, Setup, PhaseInv, FileInv, JobInv, HeldByPool, TypeOK
    <2>3. \A n \in Fd : OwnedByServer(n) => OwnedByServer(n)'
      BY <2>1 DEF OwnedByServer, HasListener, HasReadEnd, HasWriteEnd
    <2>4. ASSUME NEW n \in Fd, table'[n] # Free, NEW e \in Conn, OwnedByConnection(n, e)
          PROVE  table'[n] = table[n] /\ OwnedByConnection(n, e)'
      <3>1. CASE d \notin connections
        <4>1. table' = Closed({client.fd}) /\ UNCHANGED <<socket, file>>
          BY <3>1
        <4>2. table'[n] = table[n] /\ n # client.fd
          BY <2>1, <2>4, <4>1 DEF Closed, TypeOK
        <4>3. QED
          BY <2>1, <2>4, <4>1, <4>2 DEF OwnedByConnection
      <3>2. CASE d \in connections
        <4>1. table' = Closed({file[d], socket[d]}) /\ Destroyed({d})
          BY <2>2, <3>2 DEF EraseFromMap, ClosedByDestructor, Destroyed
        <4>2. table'[n] = table[n] /\ n # socket[d]
          BY <2>1, <2>4, <4>1 DEF Closed, TypeOK
        <4>3. ~RawClientSocket
          BY <2>1, <3>2 DEF RawClientSocket
        <4>4. QED
          BY <2>1, <2>2, <2>4, <4>1, <4>2, <4>3 DEF OwnedByConnection, Destroyed
      <3>3. QED
        BY <3>1, <3>2
    <2>5. ASSUME NEW n \in Fd, table'[n] # Free PROVE table[n] # Free
      BY <2>5 DEF EraseFromMap, Closed, TypeOK
    <2>6. QED
      BY <2>3, <2>4, <2>5 DEF NothingLeaks, Free, Own
  <1>10. HoldersAreRight'
    <2> SUFFICES ASSUME ~insertThrew' PROVE OwnersHold'
      BY DEF HoldersAreRight
    <2>0. OwnersHold
      BY DEF HoldersAreRight, CloseMember
    <2> USE <2>0
    <2> DEFINE d == client.conn
    <2>1. /\ loop = "catch" /\ ~RawClientSocket' /\ OwnersHold /\ TypeOK
          /\ d \in Conn /\ client.fd \in Fd /\ responseFile' = responseFile
          /\ UNCHANGED <<HasListener, HasReadEnd, HasWriteEnd>>
      BY DEF ClientInv, Setup, TypeOK, RawClientSocket, HasListener, HasReadEnd,
             HasWriteEnd
    <2>2. \A n \in Fd : table[n] \notin {Socket(d), File(d)} => table'[n] = table[n]
      <3>1. CASE d \notin connections
        BY <2>1, <3>1 DEF OwnersHold, RawClientSocket, Closed, TypeOK
      <3>2. CASE d \in connections /\ HeldByPool(d)
        BY <2>1, <3>2 DEF EraseFromMap, Closed, TypeOK
      <3>3. CASE d \in connections /\ ~HeldByPool(d)
        <4>1. table' = Closed({file[d], socket[d]})
          BY <3>3 DEF EraseFromMap, ClosedByDestructor
        <4>2. /\ file[d] # NoFd => table[file[d]] = File(d)
              /\ socket[d] # NoFd => table[socket[d]] = Socket(d)
          BY <2>1 DEF OwnersHold, ConnectionHolds
        <4>3. QED
          BY <2>1, <4>1, <4>2 DEF Closed, TypeOK
      <3>4. QED
        BY <3>1, <3>2, <3>3
    <2>3. responseFile[d] = NoFd /\ ~HeldByPool(d) /\ file[d] = NoFd
      BY <2>1 DEF ClientInv, Setup, PhaseInv, FileInv, JobInv, HeldByPool, TypeOK
    <2>4. ASSUME NEW e \in Conn PROVE ConnectionHolds(e)'
      <3>1. CASE e # d
        <4>1. UNCHANGED <<socket[e], file[e], responseFile[e]>>
          BY <2>1, <3>1 DEF EraseFromMap, Destroyed
        <4>2. \A n \in Fd : table[n] \in {Socket(e), File(e)} => table'[n] = table[n]
          BY <2>1, <2>2, <3>1, KindsDiffer
        <4>3. QED
          BY <2>1, <4>1, <4>2, ConnectionStays DEF OwnersHold
      <3>2. CASE e = d
        <4>1. socket'[d] = NoFd /\ file'[d] = NoFd /\ responseFile'[d] = NoFd
          BY <2>1, <2>3 DEF EraseFromMap, Destroyed, ClientInv
        <4>2. QED
          BY <3>2, <4>1, ConnectionGone
      <3>3. QED
        BY <3>1, <3>2
    <2>5. ServerHolds'
      BY <2>1, <2>2, KindsDiffer, ServerStays DEF OwnersHold, ServerHolds
    <2>6. QED
      BY <2>1, <2>4, <2>5 DEF OwnersHold
  <1>11. QED
    BY <1>1, <1>2, <1>3, <1>4, <1>5, <1>6, <1>7, <1>8, <1>9, <1>10

LEMMA HandOffPreserves ==
  ASSUME IInv, NEW c \in Conn, HandOff(c)
  PROVE  IInv'
  <1> USE DEF IInv, OwnershipInv, HandOff
  <1>1. TypeOK'
    BY KindsDiffer DEF TypeOK, LoopStages
  <1>2. FreshInv'
    BY DEF FreshInv
  <1>3. ClientInv'
    BY DEF ClientInv, Setup
  <1>4. ObjectInv'
    BY DEF ObjectInv, HeldByPool
  <1>5. JobInv'
    BY DEF JobInv, TypeOK, PhaseInv
  <1>6. PhaseInv'
    BY DEF PhaseInv, TypeOK
  <1>7. FileInv'
    BY DEF FileInv
  <1>8. StopInv'
    BY DEF StopInv
  <1>9. NothingLeaks'
    BY KindsDiffer DEF NothingLeaks, OwnedByServer, OwnedByConnection,
           RawClientSocket, HasListener, HasReadEnd, HasWriteEnd
  <1>10. HoldersAreRight'
    BY KindsDiffer DEF HoldersAreRight, OwnersHold, ConnectionHolds, ServerHolds,
           RawClientSocket, HasListener, HasReadEnd, HasWriteEnd
  <1>11. QED
    BY <1>1, <1>2, <1>3, <1>4, <1>5, <1>6, <1>7, <1>8, <1>9, <1>10

LEMMA HandOffThrowsPreserves ==
  ASSUME IInv, NEW c \in Conn, HandOffThrows(c)
  PROVE  IInv'
  <1> USE DEF IInv, OwnershipInv, HandOffThrows, GoTo
  <1>1. TypeOK'
    BY KindsDiffer DEF TypeOK, LoopStages
  <1>2. FreshInv'
    BY DEF FreshInv
  <1>3. ClientInv'
    BY DEF ClientInv, Setup
  <1>4. ObjectInv'
    BY DEF ObjectInv, HeldByPool
  <1>5. JobInv'
    BY DEF JobInv, TypeOK, PhaseInv
  <1>6. PhaseInv'
    BY DEF PhaseInv, TypeOK
  <1>7. FileInv'
    BY DEF FileInv
  <1>8. StopInv'
    BY DEF StopInv
  <1>9. NothingLeaks'
    BY KindsDiffer DEF NothingLeaks, OwnedByServer, OwnedByConnection,
           RawClientSocket, HasListener, HasReadEnd, HasWriteEnd
  <1>10. HoldersAreRight'
    BY KindsDiffer DEF HoldersAreRight, OwnersHold, ConnectionHolds, ServerHolds,
           RawClientSocket, HasListener, HasReadEnd, HasWriteEnd
  <1>11. QED
    BY <1>1, <1>2, <1>3, <1>4, <1>5, <1>6, <1>7, <1>8, <1>9, <1>10

LEMMA FlushPreserves ==
  ASSUME IInv, Flush
  PROVE  IInv'
  <1> USE DEF IInv, OwnershipInv, Flush
  <1>1. TypeOK'
    BY KindsDiffer DEF TypeOK, LoopStages
  <1>2. FreshInv'
    BY DEF FreshInv
  <1>3. ClientInv'
    BY DEF ClientInv, Setup
  <1>4. ObjectInv'
    BY DEF ObjectInv, HeldByPool
  <1>5. JobInv'
    BY DEF JobInv
  <1>6. PhaseInv'
    BY DEF PhaseInv
  <1>7. FileInv'
    BY DEF FileInv
  <1>8. StopInv'
    BY DEF StopInv
  <1>9. NothingLeaks'
    BY KindsDiffer DEF NothingLeaks, OwnedByServer, OwnedByConnection,
           RawClientSocket, HasListener, HasReadEnd, HasWriteEnd
  <1>10. HoldersAreRight'
    BY KindsDiffer DEF HoldersAreRight, OwnersHold, ConnectionHolds, ServerHolds,
           RawClientSocket, HasListener, HasReadEnd, HasWriteEnd
  <1>11. QED
    BY <1>1, <1>2, <1>3, <1>4, <1>5, <1>6, <1>7, <1>8, <1>9, <1>10

LEMMA CloseConnectionPreserves ==
  ASSUME IInv, NEW c \in Conn, CloseConnection(c)
  PROVE  IInv'
  <1> USE DEF IInv, OwnershipInv, CloseConnection
  <1>1. TypeOK'
    BY KindsDiffer DEF TypeOK, LoopStages, EraseFromMap, HeldByPool, Closed,
           ClosedByDestructor, Destroyed
  <1>2. FreshInv'
    BY DEF FreshInv, EraseFromMap, HeldByPool, Closed, ClosedByDestructor,
           Destroyed
  <1>3. ClientInv'
    BY DEF ClientInv, Setup, EraseFromMap, HeldByPool, Closed,
           ClosedByDestructor, Destroyed
  <1>4. ObjectInv'
    BY DEF ObjectInv, HeldByPool, EraseFromMap, Closed, ClosedByDestructor,
           Destroyed
  <1>5. JobInv'
    BY DEF JobInv, EraseFromMap, HeldByPool, Closed, ClosedByDestructor,
           Destroyed
  <1>6. PhaseInv'
    BY DEF PhaseInv, EraseFromMap, HeldByPool, Closed, ClosedByDestructor,
           Destroyed
  <1>7. FileInv'
    BY DEF FileInv, EraseFromMap, HeldByPool, Closed, ClosedByDestructor,
           Destroyed
  <1>8. StopInv'
    BY DEF StopInv, EraseFromMap, HeldByPool, Closed, ClosedByDestructor,
           Destroyed
  <1>9. NothingLeaks'
    BY KindsDiffer DEF NothingLeaks, OwnedByServer, OwnedByConnection,
           RawClientSocket, HasListener, HasReadEnd, HasWriteEnd, EraseFromMap,
           HeldByPool, Closed, ClosedByDestructor, Destroyed
  <1>10. HoldersAreRight'
    BY KindsDiffer DEF HoldersAreRight, OwnersHold, ConnectionHolds, ServerHolds,
           RawClientSocket, HasListener, HasReadEnd, HasWriteEnd, TypeOK,
           JobInv, PhaseInv, FileInv, EraseFromMap, HeldByPool, Closed,
           ClosedByDestructor, Destroyed
  <1>11. QED
    BY <1>1, <1>2, <1>3, <1>4, <1>5, <1>6, <1>7, <1>8, <1>9, <1>10

LEMMA TakeTaskPreserves ==
  ASSUME IInv, NEW w \in Worker, TakeTask(w)
  PROVE  IInv'
  <1> USE DEF IInv, OwnershipInv, TakeTask
  <1> DEFINE c == job[w]
  <1>0. c \in Conn \cup {NoConn}
    BY DEF TypeOK, JobInv, Move
  <1>1. TypeOK'
    BY <1>0, KindsDiffer DEF TypeOK, LoopStages, Move
  <1>2. FreshInv'
    BY <1>0 DEF FreshInv, Move
  <1>3. ClientInv'
    BY <1>0 DEF ClientInv, Setup, Move
  <1>4. ObjectInv'
    BY <1>0 DEF ObjectInv, HeldByPool, TypeOK, JobInv, Move
  <1>5. JobInv'
    BY <1>0 DEF JobInv, TypeOK, Move
  <1>6. PhaseInv'
    BY <1>0 DEF PhaseInv, TypeOK, Move
  <1>7. FileInv'
    BY <1>0 DEF FileInv, Move
  <1>8. StopInv'
    BY <1>0 DEF StopInv, Move
  <1>9. NothingLeaks'
    BY <1>0, KindsDiffer DEF NothingLeaks, OwnedByServer, OwnedByConnection,
           RawClientSocket, HasListener, HasReadEnd, HasWriteEnd, Move
  <1>10. HoldersAreRight'
    BY <1>0, KindsDiffer DEF HoldersAreRight, OwnersHold, ConnectionHolds, ServerHolds,
           RawClientSocket, HasListener, HasReadEnd, HasWriteEnd, Move
  <1>11. QED
    BY <1>1, <1>2, <1>3, <1>4, <1>5, <1>6, <1>7, <1>8, <1>9, <1>10

LEMMA OpenFilePreserves ==
  ASSUME IInv, NEW w \in Worker, OpenFile(w)
  PROVE  IInv'
  <1> USE DEF IInv, OwnershipInv, OpenFile
  <1> DEFINE c == job[w]
  <1>0. c \in Conn
    BY DEF TypeOK, JobInv, Move
  <1>1. TypeOK'
    <2>1. PICK k \in LowestFree : /\ table' = Opened(k, File(c))
                                  /\ responseFile' = [responseFile EXCEPT ![c] = k]
      OBVIOUS
    <2>2. k \in Fd /\ c \in Conn
      BY <1>0, <2>1 DEF LowestFree, TypeOK, JobInv
    <2>3. table' \in [Fd -> Descriptions] /\ responseFile' \in [Conn -> Fd \cup {NoFd}]
      BY <2>1, <2>2, KindsDiffer DEF TypeOK, Opened
    <2>4. QED
      BY <2>3 DEF TypeOK
  <1>2. FreshInv'
    BY <1>0 DEF FreshInv, Opened, LowestFree
  <1>3. ClientInv'
    BY <1>0 DEF ClientInv, Setup, Opened, LowestFree
  <1>4. ObjectInv'
    BY <1>0 DEF ObjectInv, HeldByPool, Opened, LowestFree
  <1>5. JobInv'
    BY <1>0 DEF JobInv, Opened, LowestFree
  <1>6. PhaseInv'
    BY <1>0 DEF PhaseInv, Opened, LowestFree
  <1>7. FileInv'
    BY <1>0 DEF FileInv, Opened, LowestFree
  <1>8. StopInv'
    BY <1>0 DEF StopInv, Opened, LowestFree
  <1>9. NothingLeaks'
    <2>1. PICK k \in LowestFree : /\ table' = Opened(k, File(c))
                                  /\ responseFile' = [responseFile EXCEPT ![c] = k]
      OBVIOUS
    <2>2. k \in Fd /\ c \in Conn /\ responseFile[c] = NoFd
      BY <1>0, <2>1 DEF LowestFree
    <2>3. ASSUME NEW n \in Fd, table'[n] # Free
          PROVE  (OwnedByServer(n) \/ \E d \in Conn : OwnedByConnection(n, d))'
      <3>1. CASE n = k
        <4>1. OwnedByConnection(n, c)'
          BY <2>1, <2>2, <3>1 DEF OwnedByConnection, Opened, TypeOK
        <4>2. QED
          BY <2>2, <4>1
      <3>2. CASE n # k
        <4>1. table'[n] = table[n]
          BY <2>1, <3>2 DEF Opened, TypeOK
        <4>2. OwnedByServer(n) => OwnedByServer(n)'
          BY DEF OwnedByServer, HasListener, HasReadEnd, HasWriteEnd
        <4>3. \A d \in Conn : OwnedByConnection(n, d) => OwnedByConnection(n, d)'
          BY <2>1, <2>2, <4>1 DEF OwnedByConnection, RawClientSocket, TypeOK
        <4>4. QED
          BY <2>3, <4>1, <4>2, <4>3 DEF NothingLeaks
      <3>3. QED
        BY <3>1, <3>2
    <2>4. QED
      BY <2>3, Free = Free' DEF NothingLeaks, Free, Own
  <1>10. HoldersAreRight'
    <2> SUFFICES ASSUME ~insertThrew' PROVE OwnersHold'
      BY DEF HoldersAreRight
    <2>0. OwnersHold
      BY DEF HoldersAreRight, CloseMember
    <2> USE <2>0
    <2>1. PICK k \in LowestFree : /\ table' = Opened(k, File(c))
                                  /\ responseFile' = [responseFile EXCEPT ![c] = k]
      OBVIOUS
    <2>2. /\ TypeOK /\ OwnersHold /\ k \in Fd /\ c \in Conn /\ table[k] = Free
          /\ responseFile[c] = NoFd
      BY <1>0, <2>1 DEF LowestFree
    <2>3. /\ \A n \in Fd : n # k => table'[n] = table[n]
          /\ \A n \in Fd : table[n] # Free => table'[n] = table[n]
          /\ table'[k] = File(c)
      BY <2>1, <2>2 DEF Opened, TypeOK
    <2>4. ASSUME NEW d \in Conn, d # c PROVE ConnectionHolds(d)'
      <3>1. \A n \in Fd : table[n] \in {Socket(d), File(d)} => table'[n] = table[n]
        BY <2>3, KindsDiffer
      <3>2. UNCHANGED <<socket[d], file[d], responseFile[d]>>
        BY <2>1, <2>2, <2>4 DEF TypeOK
      <3>3. QED
        BY <2>2, <3>1, <3>2, ConnectionStays DEF OwnersHold
    <2>5. ConnectionHolds(c)'
      <3>1. socket[c] \in Fd \cup {NoFd} /\ file[c] \in Fd \cup {NoFd} /\ ConnectionHolds(c)
        BY <2>2 DEF OwnersHold, TypeOK
      <3>2. /\ socket[c] # NoFd => table'[socket[c]] = Socket(c)
            /\ file[c] # NoFd => table'[file[c]] = File(c)
        BY <2>2, <2>3, <3>1, KindsDiffer DEF ConnectionHolds
      <3>3. responseFile'[c] = k
        BY <2>1, <2>2 DEF TypeOK
      <3>4. QED
        BY <2>3, <3>2, <3>3 DEF ConnectionHolds, Socket, File
    <2>6. RawClientSocket' => table'[client'.fd] = Socket(client'.conn)
      BY <2>2, <2>3, KindsDiffer
      DEF OwnersHold, RawClientSocket, ClientInv, Setup, TypeOK
    <2>7. ServerHolds'
      BY <2>2, <2>3, KindsDiffer, ServerStays
      DEF OwnersHold, ServerHolds, HasListener, HasReadEnd, HasWriteEnd
    <2>8. QED
      BY <2>4, <2>5, <2>6, <2>7 DEF OwnersHold, Socket
  <1>11. QED
    BY <1>1, <1>2, <1>3, <1>4, <1>5, <1>6, <1>7, <1>8, <1>9, <1>10

LEMMA RespondPreserves ==
  ASSUME IInv, NEW w \in Worker, Respond(w)
  PROVE  IInv'
  <1> USE DEF IInv, OwnershipInv, Respond
  <1> DEFINE c == job[w]
  <1>0. c \in Conn
    BY DEF TypeOK, JobInv, Move
  <1>1. TypeOK'
    BY <1>0, KindsDiffer DEF TypeOK, LoopStages, Move, TakeFileRegion
  <1>2. FreshInv'
    BY <1>0 DEF FreshInv, TypeOK, JobInv, PhaseInv, Move, TakeFileRegion
  <1>3. ClientInv'
    BY <1>0 DEF ClientInv, Setup, TypeOK, JobInv, PhaseInv, Move, TakeFileRegion
  <1>4. ObjectInv'
    BY <1>0 DEF ObjectInv, HeldByPool, Move, TakeFileRegion
  <1>5. JobInv'
    BY <1>0 DEF JobInv, Move, TakeFileRegion
  <1>6. PhaseInv'
    BY <1>0 DEF PhaseInv, TypeOK, JobInv, Move, TakeFileRegion
  <1>7. FileInv'
    BY <1>0 DEF FileInv, TypeOK, Move, TakeFileRegion
  <1>8. StopInv'
    BY <1>0 DEF StopInv, Move, TakeFileRegion
  <1>9. NothingLeaks'
    <2>1. file[c] = NoFd /\ c \in Conn
      BY <1>0 DEF TypeOK, PhaseInv, FileInv, Move
    <2>2. /\ file' = [file EXCEPT ![c] = responseFile[c]]
          /\ responseFile' = [responseFile EXCEPT ![c] = NoFd]
      BY DEF TakeFileRegion
    <2>3. \A n \in Fd, d \in Conn : OwnedByConnection(n, d) => OwnedByConnection(n, d)'
      BY <2>1, <2>2 DEF OwnedByConnection, RawClientSocket, TypeOK
    <2>4. \A n \in Fd : OwnedByServer(n) => OwnedByServer(n)'
      BY DEF OwnedByServer, HasListener, HasReadEnd, HasWriteEnd
    <2>5. QED
      BY <2>3, <2>4 DEF NothingLeaks, Free, Own
  <1>10. HoldersAreRight'
    BY <1>0, KindsDiffer DEF HoldersAreRight, OwnersHold, ConnectionHolds, ServerHolds,
           RawClientSocket, HasListener, HasReadEnd, HasWriteEnd, Move,
           TakeFileRegion
  <1>11. QED
    BY <1>1, <1>2, <1>3, <1>4, <1>5, <1>6, <1>7, <1>8, <1>9, <1>10

LEMMA PushPreserves ==
  ASSUME IInv, NEW w \in Worker, Push(w)
  PROVE  IInv'
  <1> USE DEF IInv, OwnershipInv, Push
  <1> DEFINE c == job[w]
  <1>0. c \in Conn
    BY DEF TypeOK, JobInv, Move
  <1>1. TypeOK'
    BY <1>0, KindsDiffer DEF TypeOK, LoopStages, Move
  <1>2. FreshInv'
    BY <1>0 DEF FreshInv, Move
  <1>3. ClientInv'
    BY <1>0 DEF ClientInv, Setup, Move
  <1>4. ObjectInv'
    BY <1>0 DEF ObjectInv, HeldByPool, Move
  <1>5. JobInv'
    BY <1>0 DEF JobInv, Move
  <1>6. PhaseInv'
    BY <1>0 DEF PhaseInv, TypeOK, JobInv, Move
  <1>7. FileInv'
    BY <1>0 DEF FileInv, Move
  <1>8. StopInv'
    BY <1>0 DEF StopInv, Move
  <1>9. NothingLeaks'
    BY <1>0, KindsDiffer DEF NothingLeaks, OwnedByServer, OwnedByConnection,
           RawClientSocket, HasListener, HasReadEnd, HasWriteEnd, Move
  <1>10. HoldersAreRight'
    BY <1>0, KindsDiffer DEF HoldersAreRight, OwnersHold, ConnectionHolds, ServerHolds,
           RawClientSocket, HasListener, HasReadEnd, HasWriteEnd, Move
  <1>11. QED
    BY <1>1, <1>2, <1>3, <1>4, <1>5, <1>6, <1>7, <1>8, <1>9, <1>10

LEMMA WakePreserves ==
  ASSUME IInv, NEW w \in Worker, Wake(w)
  PROVE  IInv'
  <1> USE DEF IInv, OwnershipInv, Wake
  <1> DEFINE c == job[w]
  <1>0. c \in Conn
    BY DEF TypeOK, JobInv, Move
  <1>1. TypeOK'
    BY <1>0, KindsDiffer DEF TypeOK, LoopStages, Move
  <1>2. FreshInv'
    BY <1>0 DEF FreshInv, Move
  <1>3. ClientInv'
    BY <1>0 DEF ClientInv, Setup, Move
  <1>4. ObjectInv'
    BY <1>0 DEF ObjectInv, HeldByPool, Move
  <1>5. JobInv'
    BY <1>0 DEF JobInv, Move
  <1>6. PhaseInv'
    BY <1>0 DEF PhaseInv, Move
  <1>7. FileInv'
    BY <1>0 DEF FileInv, Move
  <1>8. StopInv'
    BY <1>0 DEF StopInv, Move
  <1>9. NothingLeaks'
    BY <1>0, KindsDiffer DEF NothingLeaks, OwnedByServer, OwnedByConnection,
           RawClientSocket, HasListener, HasReadEnd, HasWriteEnd, Move
  <1>10. HoldersAreRight'
    BY <1>0, KindsDiffer DEF HoldersAreRight, OwnersHold, ConnectionHolds, ServerHolds,
           RawClientSocket, HasListener, HasReadEnd, HasWriteEnd, Move
  <1>11. QED
    BY <1>1, <1>2, <1>3, <1>4, <1>5, <1>6, <1>7, <1>8, <1>9, <1>10

LEMMA ReleasePreserves ==
  ASSUME IInv, NEW w \in Worker, Release(w)
  PROVE  IInv'
  <1> USE DEF IInv, OwnershipInv, Release
  <1> DEFINE c == job[w]
  <1>0. c \in Conn
    BY DEF TypeOK, JobInv, Move
  <1>1. TypeOK'
    BY <1>0, KindsDiffer DEF TypeOK, LoopStages, Closed, ClosedByDestructor,
           Destroyed, Move
  <1>2. FreshInv'
    BY <1>0 DEF FreshInv, Closed, ClosedByDestructor, Destroyed, Move
  <1>3. ClientInv'
    BY <1>0 DEF ClientInv, Setup, TypeOK, JobInv, PhaseInv, Closed,
           ClosedByDestructor, Destroyed, Move
  <1>4. ObjectInv'
    BY <1>0 DEF ObjectInv, HeldByPool, TypeOK, JobInv, Closed,
           ClosedByDestructor, Destroyed, Move
  <1>5. JobInv'
    BY <1>0 DEF JobInv, TypeOK, Closed, ClosedByDestructor, Destroyed, Move
  <1>6. PhaseInv'
    BY <1>0 DEF PhaseInv, TypeOK, Closed, ClosedByDestructor, Destroyed, Move
  <1>7. FileInv'
    BY <1>0 DEF FileInv, Closed, ClosedByDestructor, Destroyed, Move
  <1>8. StopInv'
    BY <1>0 DEF StopInv, Closed, ClosedByDestructor, Destroyed, Move
  <1>9. NothingLeaks'
    <2>1. responseFile[c] = NoFd /\ c \in Conn
      BY <1>0 DEF TypeOK, JobInv, FileInv, Move
    <2>2. responseFile' = responseFile
      BY <2>1 DEF TypeOK
    <2>3. CASE c \in connections
      <3>1. /\ table' = Closed({NoFd}) /\ Destroyed({})
        BY <2>1, <2>3
      <3>2. /\ socket' = socket /\ file' = file /\ table' = table
        BY <3>1 DEF Closed, Destroyed, TypeOK
      <3>3. QED
        BY ZenonT(60), <2>2, <3>2
        DEF NothingLeaks, OwnedByServer, OwnedByConnection, RawClientSocket,
            HasListener, HasReadEnd, HasWriteEnd
    <2>4. CASE c \notin connections
      <3>1. /\ table' = Closed({NoFd, file[c], socket[c]}) /\ Destroyed({c})
        BY <2>1, <2>4 DEF ClosedByDestructor
      <3>2. \A n \in Fd : \/ table'[n] = Free
                          \/ table'[n] = table[n] /\ n # file[c] /\ n # socket[c]
        BY <3>1 DEF Closed, TypeOK
      <3>3. \A n \in Fd, d \in Conn :
              table'[n] = table[n] /\ n # file[c] /\ n # socket[c]
              /\ OwnedByConnection(n, d) => OwnedByConnection(n, d)'
        BY <2>1, <2>2, <3>1 DEF OwnedByConnection, RawClientSocket, Destroyed, TypeOK
      <3>4. \A n \in Fd : OwnedByServer(n) => OwnedByServer(n)'
        BY DEF OwnedByServer, HasListener, HasReadEnd, HasWriteEnd
      <3>5. QED
        BY <3>2, <3>3, <3>4 DEF NothingLeaks, Free, Own
    <2>5. QED
      BY <2>3, <2>4
  <1>10. HoldersAreRight'
    <2> SUFFICES ASSUME ~insertThrew' PROVE OwnersHold'
      BY DEF HoldersAreRight
    <2>0. OwnersHold
      BY DEF HoldersAreRight, CloseMember
    <2> USE <2>0
    <2>1. responseFile[c] = NoFd /\ c \in Conn /\ OwnersHold /\ TypeOK
      BY <1>0 DEF TypeOK, JobInv, FileInv, Move
    <2>2. responseFile' = responseFile /\ UNCHANGED <<loop, client, connections>>
      BY <2>1 DEF TypeOK
    <2>3. CASE c \in connections
      <3>1. /\ table' = Closed({NoFd}) /\ Destroyed({})
        BY <2>1, <2>3
      <3>2. /\ socket' = socket /\ file' = file /\ table' = table
        BY <3>1 DEF Closed, Destroyed, TypeOK
      <3>3. QED
        BY <2>1, <2>2, <3>2
        DEF OwnersHold, ConnectionHolds, ServerHolds, RawClientSocket,
            HasListener, HasReadEnd, HasWriteEnd, Socket, File, Listener, PipeOut, PipeIn, Own
    <2>4. CASE c \notin connections
      <3>1. /\ table' = Closed({NoFd, file[c], socket[c]}) /\ Destroyed({c})
        BY <2>1, <2>4 DEF ClosedByDestructor
      <3>2. \A n \in Fd : table[n] \notin {Socket(c), File(c)} => table'[n] = table[n]
        <4>1. /\ file[c] # NoFd => table[file[c]] = File(c)
              /\ socket[c] # NoFd => table[socket[c]] = Socket(c)
          BY <2>1 DEF OwnersHold, ConnectionHolds
        <4>2. QED
          BY <2>1, <3>1, <4>1 DEF Closed, TypeOK
      <3>3. /\ RawClientSocket => client.conn # c
            /\ RawClientSocket => client.conn \in Conn /\ client.fd \in Fd
        BY DEF RawClientSocket, ClientInv, Setup, PhaseInv, Move, TypeOK
      <3>4. ASSUME NEW d \in Conn PROVE ConnectionHolds(d)'
        <4>1. CASE d = c
          BY <2>1, <2>2, <3>1, <4>1, ConnectionGone DEF Destroyed
        <4>2. CASE d # c
          <5>1. UNCHANGED <<socket[d], file[d], responseFile[d]>>
            BY <2>2, <3>1, <4>2 DEF Destroyed
          <5>2. \A n \in Fd : table[n] \in {Socket(d), File(d)} => table'[n] = table[n]
            BY <2>1, <3>2, <4>2, KindsDiffer
          <5>3. QED
            BY <2>1, <5>1, <5>2, ConnectionStays DEF OwnersHold
        <4>3. QED
          BY <4>1, <4>2
      <3>5. RawClientSocket => table'[client.fd] = Socket(client.conn)
        <4>1. RawClientSocket => table[client.fd] = Socket(client.conn)
          BY <2>1 DEF OwnersHold
        <4>2. RawClientSocket => Socket(client.conn) \notin {Socket(c), File(c)}
          BY <2>1, <3>3, KindsDiffer
        <4>3. QED
          BY <3>2, <3>3, <4>1, <4>2
      <3>6. ServerHolds'
        BY <2>1, <2>2, <3>2, KindsDiffer, ServerStays
        DEF OwnersHold, ServerHolds, HasListener, HasReadEnd, HasWriteEnd
      <3>7. QED
        BY <2>2, <3>4, <3>5, <3>6 DEF OwnersHold, RawClientSocket, Socket
    <2>5. QED
      BY <2>3, <2>4
  <1>11. QED
    BY <1>1, <1>2, <1>3, <1>4, <1>5, <1>6, <1>7, <1>8, <1>9, <1>10

LEMMA StopPreserves ==
  ASSUME IInv, Stop
  PROVE  IInv'
  <1> USE DEF IInv, OwnershipInv, Stop
  <1>1. TypeOK'
    BY KindsDiffer DEF TypeOK, LoopStages, GoTo
  <1>2. FreshInv'
    BY DEF FreshInv, GoTo
  <1>3. ClientInv'
    BY DEF ClientInv, Setup, GoTo
  <1>4. ObjectInv'
    BY DEF ObjectInv, HeldByPool, GoTo
  <1>5. JobInv'
    BY DEF JobInv, GoTo
  <1>6. PhaseInv'
    BY DEF PhaseInv, GoTo
  <1>7. FileInv'
    BY DEF FileInv, GoTo
  <1>8. StopInv'
    BY DEF StopInv, GoTo
  <1>9. NothingLeaks'
    BY KindsDiffer DEF NothingLeaks, OwnedByServer, OwnedByConnection,
           RawClientSocket, HasListener, HasReadEnd, HasWriteEnd, GoTo
  <1>10. HoldersAreRight'
    BY KindsDiffer DEF HoldersAreRight, OwnersHold, ConnectionHolds, ServerHolds,
           RawClientSocket, HasListener, HasReadEnd, HasWriteEnd, GoTo
  <1>11. QED
    BY <1>1, <1>2, <1>3, <1>4, <1>5, <1>6, <1>7, <1>8, <1>9, <1>10

LEMMA CloseListenerPreserves ==
  ASSUME IInv, CloseListener
  PROVE  IInv'
  <1> USE DEF IInv, OwnershipInv, CloseListener
  <1>1. TypeOK'
    BY KindsDiffer DEF TypeOK, LoopStages, CloseMember, Closed, GoTo
  <1>2. FreshInv'
    BY DEF FreshInv, CloseMember, Closed, GoTo
  <1>3. ClientInv'
    BY DEF ClientInv, Setup, CloseMember, Closed, GoTo
  <1>4. ObjectInv'
    BY DEF ObjectInv, HeldByPool, CloseMember, Closed, GoTo
  <1>5. JobInv'
    BY DEF JobInv, CloseMember, Closed, GoTo
  <1>6. PhaseInv'
    BY DEF PhaseInv, CloseMember, Closed, GoTo
  <1>7. FileInv'
    BY DEF FileInv, CloseMember, Closed, GoTo
  <1>8. StopInv'
    BY DEF StopInv, CloseMember, Closed, GoTo
  <1>9. NothingLeaks'
    BY KindsDiffer DEF NothingLeaks, OwnedByServer, OwnedByConnection,
           RawClientSocket, HasListener, HasReadEnd, HasWriteEnd, CloseMember,
           Closed, GoTo
  <1>10. HoldersAreRight'
    <2> SUFFICES ASSUME ~insertThrew' PROVE OwnersHold'
      BY DEF HoldersAreRight
    <2>0. OwnersHold
      BY DEF HoldersAreRight, CloseMember
    <2> USE <2>0
    <2>1. /\ TypeOK /\ \A c \in Conn : ConnectionHolds(c)
          /\ ServerHolds /\ table[serverSocket] = Listener
          /\ ~RawClientSocket'
      BY DEF OwnersHold, ServerHolds, HasListener, HasReadEnd, HasWriteEnd,
             CloseMember, GoTo, RawClientSocket
    <2>2. /\ \A n \in Fd : n # serverSocket => table'[n] = table[n]
          /\ UNCHANGED <<socket, file, responseFile>>
      BY <2>1 DEF CloseMember, Closed, TypeOK
    <2>3. ASSUME NEW c \in Conn PROVE ConnectionHolds(c)'
      <3>1. \A n \in Fd : table[n] \in {Socket(c), File(c)} => table'[n] = table[n]
        BY <2>1, <2>2, KindsDiffer
      <3>2. QED
        BY <2>1, <2>2, <3>1, ConnectionStays
    <2>4. ServerHolds'
      <3>1. table'[wakeupRead] = table[wakeupRead] /\ table'[wakeupWrite] = table[wakeupWrite]
        BY <2>2
      <3>2. /\ ~HasListener' /\ HasReadEnd /\ HasWriteEnd
        BY DEF HasListener, HasReadEnd, HasWriteEnd, CloseMember, GoTo
      <3>3. QED
        BY <2>1, <3>1, <3>2, ServerStays
    <2>5. QED
      BY <2>1, <2>3, <2>4 DEF OwnersHold
  <1>11. QED
    BY <1>1, <1>2, <1>3, <1>4, <1>5, <1>6, <1>7, <1>8, <1>9, <1>10

LEMMA CloseReadEndPreserves ==
  ASSUME IInv, CloseReadEnd
  PROVE  IInv'
  <1> USE DEF IInv, OwnershipInv, CloseReadEnd
  <1>1. TypeOK'
    BY KindsDiffer DEF TypeOK, LoopStages, CloseMember, Closed, GoTo
  <1>2. FreshInv'
    BY DEF FreshInv, CloseMember, Closed, GoTo
  <1>3. ClientInv'
    BY DEF ClientInv, Setup, CloseMember, Closed, GoTo
  <1>4. ObjectInv'
    BY DEF ObjectInv, HeldByPool, CloseMember, Closed, GoTo
  <1>5. JobInv'
    BY DEF JobInv, CloseMember, Closed, GoTo
  <1>6. PhaseInv'
    BY DEF PhaseInv, CloseMember, Closed, GoTo
  <1>7. FileInv'
    BY DEF FileInv, CloseMember, Closed, GoTo
  <1>8. StopInv'
    BY DEF StopInv, CloseMember, Closed, GoTo
  <1>9. NothingLeaks'
    BY KindsDiffer DEF NothingLeaks, OwnedByServer, OwnedByConnection,
           RawClientSocket, HasListener, HasReadEnd, HasWriteEnd, CloseMember,
           Closed, GoTo
  <1>10. HoldersAreRight'
    <2> SUFFICES ASSUME ~insertThrew' PROVE OwnersHold'
      BY DEF HoldersAreRight
    <2>0. OwnersHold
      BY DEF HoldersAreRight, CloseMember
    <2> USE <2>0
    <2>1. /\ TypeOK /\ \A c \in Conn : ConnectionHolds(c)
          /\ ServerHolds /\ table[wakeupRead] = PipeOut
          /\ ~RawClientSocket'
      BY DEF OwnersHold, ServerHolds, HasListener, HasReadEnd, HasWriteEnd,
             CloseMember, GoTo, RawClientSocket
    <2>2. /\ \A n \in Fd : n # wakeupRead => table'[n] = table[n]
          /\ UNCHANGED <<socket, file, responseFile>>
      BY <2>1 DEF CloseMember, Closed, TypeOK
    <2>3. ASSUME NEW c \in Conn PROVE ConnectionHolds(c)'
      <3>1. \A n \in Fd : table[n] \in {Socket(c), File(c)} => table'[n] = table[n]
        BY <2>1, <2>2, KindsDiffer
      <3>2. QED
        BY <2>1, <2>2, <3>1, ConnectionStays
    <2>4. ServerHolds'
      <3>1. table'[wakeupWrite] = table[wakeupWrite]
        BY <2>2
      <3>2. /\ ~HasListener' /\ HasReadEnd /\ HasWriteEnd /\ ~HasReadEnd'
        BY DEF HasListener, HasReadEnd, HasWriteEnd, CloseMember, GoTo
      <3>3. QED
        BY <2>1, <3>1, <3>2, ServerStays
    <2>5. QED
      BY <2>1, <2>3, <2>4 DEF OwnersHold
  <1>11. QED
    BY <1>1, <1>2, <1>3, <1>4, <1>5, <1>6, <1>7, <1>8, <1>9, <1>10

LEMMA CloseWriteEndPreserves ==
  ASSUME IInv, CloseWriteEnd
  PROVE  IInv'
  <1> USE DEF IInv, OwnershipInv, CloseWriteEnd
  <1>1. TypeOK'
    BY KindsDiffer DEF TypeOK, LoopStages, CloseMember, Closed, GoTo
  <1>2. FreshInv'
    BY DEF FreshInv, CloseMember, Closed, GoTo
  <1>3. ClientInv'
    BY DEF ClientInv, Setup, CloseMember, Closed, GoTo
  <1>4. ObjectInv'
    BY DEF ObjectInv, HeldByPool, CloseMember, Closed, GoTo
  <1>5. JobInv'
    BY DEF JobInv, CloseMember, Closed, GoTo
  <1>6. PhaseInv'
    BY DEF PhaseInv, CloseMember, Closed, GoTo
  <1>7. FileInv'
    BY DEF FileInv, CloseMember, Closed, GoTo
  <1>8. StopInv'
    BY DEF StopInv, CloseMember, Closed, GoTo
  <1>9. NothingLeaks'
    BY KindsDiffer DEF NothingLeaks, OwnedByServer, OwnedByConnection,
           RawClientSocket, HasListener, HasReadEnd, HasWriteEnd, CloseMember,
           Closed, GoTo
  <1>10. HoldersAreRight'
    <2> SUFFICES ASSUME ~insertThrew' PROVE OwnersHold'
      BY DEF HoldersAreRight
    <2>0. OwnersHold
      BY DEF HoldersAreRight, CloseMember
    <2> USE <2>0
    <2>1. /\ TypeOK /\ \A c \in Conn : ConnectionHolds(c)
          /\ ServerHolds /\ table[wakeupWrite] = PipeIn
          /\ ~RawClientSocket'
      BY DEF OwnersHold, ServerHolds, HasListener, HasReadEnd, HasWriteEnd,
             CloseMember, GoTo, RawClientSocket
    <2>2. /\ \A n \in Fd : n # wakeupWrite => table'[n] = table[n]
          /\ UNCHANGED <<socket, file, responseFile>>
      BY <2>1 DEF CloseMember, Closed, TypeOK
    <2>3. ASSUME NEW c \in Conn PROVE ConnectionHolds(c)'
      <3>1. \A n \in Fd : table[n] \in {Socket(c), File(c)} => table'[n] = table[n]
        BY <2>1, <2>2, KindsDiffer
      <3>2. QED
        BY <2>1, <2>2, <3>1, ConnectionStays
    <2>4. ServerHolds'
      BY <2>1, <2>2, ServerStays
      DEF HasListener, HasReadEnd, HasWriteEnd, CloseMember, GoTo
    <2>5. QED
      BY <2>1, <2>3, <2>4 DEF OwnersHold
  <1>11. QED
    BY <1>1, <1>2, <1>3, <1>4, <1>5, <1>6, <1>7, <1>8, <1>9, <1>10

LEMMA DropTasksPreserves ==
  ASSUME IInv, DropTasks
  PROVE  IInv'
  <1> USE DEF IInv, OwnershipInv, DropTasks
  <1>1. TypeOK'
    BY KindsDiffer DEF TypeOK, LoopStages
  <1>2. FreshInv'
    BY DEF FreshInv
  <1>3. ClientInv'
    BY DEF ClientInv, Setup
  <1>4. ObjectInv'
    BY DEF ObjectInv, HeldByPool, TypeOK, JobInv, PhaseInv
  <1>5. JobInv'
    BY DEF JobInv
  <1>6. PhaseInv'
    BY DEF PhaseInv
  <1>7. FileInv'
    BY DEF FileInv
  <1>8. StopInv'
    BY DEF StopInv
  <1>9. NothingLeaks'
    BY KindsDiffer DEF NothingLeaks, OwnedByServer, OwnedByConnection,
           RawClientSocket, HasListener, HasReadEnd, HasWriteEnd
  <1>10. HoldersAreRight'
    BY KindsDiffer DEF HoldersAreRight, OwnersHold, ConnectionHolds, ServerHolds,
           RawClientSocket, HasListener, HasReadEnd, HasWriteEnd
  <1>11. QED
    BY <1>1, <1>2, <1>3, <1>4, <1>5, <1>6, <1>7, <1>8, <1>9, <1>10

LEMMA JoinWorkersPreserves ==
  ASSUME IInv, JoinWorkers
  PROVE  IInv'
  <1> USE DEF IInv, OwnershipInv, JoinWorkers
  <1>1. TypeOK'
    BY KindsDiffer DEF TypeOK, LoopStages, GoTo
  <1>2. FreshInv'
    BY DEF FreshInv, GoTo
  <1>3. ClientInv'
    BY DEF ClientInv, Setup, GoTo
  <1>4. ObjectInv'
    BY DEF ObjectInv, HeldByPool, GoTo
  <1>5. JobInv'
    BY DEF JobInv, GoTo
  <1>6. PhaseInv'
    BY DEF PhaseInv, GoTo
  <1>7. FileInv'
    BY DEF FileInv, GoTo
  <1>8. StopInv'
    BY DEF StopInv, GoTo
  <1>9. NothingLeaks'
    BY KindsDiffer DEF NothingLeaks, OwnedByServer, OwnedByConnection,
           RawClientSocket, HasListener, HasReadEnd, HasWriteEnd, GoTo
  <1>10. HoldersAreRight'
    BY KindsDiffer DEF HoldersAreRight, OwnersHold, ConnectionHolds, ServerHolds,
           RawClientSocket, HasListener, HasReadEnd, HasWriteEnd, GoTo
  <1>11. QED
    BY <1>1, <1>2, <1>3, <1>4, <1>5, <1>6, <1>7, <1>8, <1>9, <1>10

LEMMA DestroyMembersPreserves ==
  ASSUME IInv, DestroyMembers
  PROVE  IInv'
  <1> USE DEF IInv, OwnershipInv, DestroyMembers
  <1>1. TypeOK'
    BY KindsDiffer DEF TypeOK, LoopStages, Closed, ClosedByDestructor,
           Destroyed, GoTo
  <1>2. FreshInv'
    BY DEF FreshInv, Closed, ClosedByDestructor, Destroyed, GoTo
  <1>3. ClientInv'
    BY DEF ClientInv, Setup, Closed, ClosedByDestructor, Destroyed, GoTo
  <1>4. ObjectInv'
    BY DEF ObjectInv, HeldByPool, TypeOK, FreshInv, ClientInv, Setup, JobInv,
           PhaseInv, FileInv, StopInv, Closed, ClosedByDestructor, Destroyed,
           GoTo
  <1>5. JobInv'
    BY DEF JobInv, Closed, ClosedByDestructor, Destroyed, GoTo
  <1>6. PhaseInv'
    BY DEF PhaseInv, TypeOK, FreshInv, ClientInv, Setup, ObjectInv, HeldByPool,
           JobInv, FileInv, StopInv, Closed, ClosedByDestructor, Destroyed, GoTo
  <1>7. FileInv'
    BY DEF FileInv, Closed, ClosedByDestructor, Destroyed, GoTo
  <1>8. StopInv'
    BY DEF StopInv, Closed, ClosedByDestructor, Destroyed, GoTo
  <1>9. NothingLeaks'
    BY KindsDiffer DEF NothingLeaks, OwnedByServer, OwnedByConnection,
           RawClientSocket, HasListener, HasReadEnd, HasWriteEnd, Closed,
           ClosedByDestructor, Destroyed, GoTo
  <1>10. HoldersAreRight'
    BY KindsDiffer DEF HoldersAreRight, OwnersHold, ConnectionHolds, ServerHolds,
           RawClientSocket, HasListener, HasReadEnd, HasWriteEnd, TypeOK,
           FreshInv, ClientInv, Setup, ObjectInv, HeldByPool, JobInv, PhaseInv,
           FileInv, StopInv, Closed, ClosedByDestructor, Destroyed, GoTo
  <1>11. QED
    BY <1>1, <1>2, <1>3, <1>4, <1>5, <1>6, <1>7, <1>8, <1>9, <1>10

-----------------------------------------------------------------------------
LEMMA InitEstablishes == Init => IInv
  <1> SUFFICES ASSUME Init PROVE IInv
    OBVIOUS
  <1> USE DEF Init
  <1>1. TypeOK
    BY KindsDiffer DEF TypeOK, LoopStages
  <1>2. FreshInv /\ ClientInv /\ StopInv
    BY DEF FreshInv, ClientInv, StopInv, Setup
  <1>3. ObjectInv /\ JobInv /\ PhaseInv /\ FileInv
    BY DEF ObjectInv, JobInv, PhaseInv, FileInv, HeldByPool
  <1>4. NothingLeaks
    BY DEF NothingLeaks, OwnedByServer, HasListener, HasReadEnd, HasWriteEnd
  <1>5. HoldersAreRight
    BY DEF HoldersAreRight, OwnersHold, ConnectionHolds, ServerHolds, RawClientSocket
  <1>6. QED
    BY <1>1, <1>2, <1>3, <1>4, <1>5 DEF IInv, OwnershipInv

LEMMA StepPreserves == IInv /\ [Next]_vars => IInv'
  <1> SUFFICES ASSUME IInv, [Next]_vars PROVE IInv'
    OBVIOUS
  <1>1. CASE AcceptStep
    BY <1>1, AcceptPreserves, ConstructPreserves, ConstructThrowsPreserves,
       InsertPreserves, InsertThrowsPreserves, WatchPreserves,
       WatchThrowsPreserves, CatchPreserves DEF AcceptStep
  <1>2. CASE ServeStep
    BY <1>2, FlushPreserves, HandOffPreserves, HandOffThrowsPreserves,
       CloseConnectionPreserves DEF ServeStep
  <1>3. CASE StopStep
    BY <1>3, StopPreserves, CloseListenerPreserves, CloseReadEndPreserves,
       CloseWriteEndPreserves, DropTasksPreserves, JoinWorkersPreserves,
       DestroyMembersPreserves DEF StopStep
  <1>4. ASSUME NEW w \in Worker, WorkerStep(w) PROVE IInv'
    BY <1>4, TakeTaskPreserves, OpenFilePreserves, RespondPreserves,
       PushPreserves, WakePreserves, ReleasePreserves DEF WorkerStep
  <1>5. CASE UNCHANGED vars
    <2>1. OwnershipInv'
      BY <1>5 DEF IInv, OwnershipInv, TypeOK, FreshInv, ClientInv, ObjectInv, JobInv,
                  PhaseInv, FileInv, StopInv, HeldByPool, Setup
    <2>2. NothingLeaks'
      BY <1>5 DEF IInv, NothingLeaks, OwnedByServer, OwnedByConnection,
                  RawClientSocket, HasListener, HasReadEnd, HasWriteEnd
    <2>3. HoldersAreRight'
      BY <1>5 DEF IInv, HoldersAreRight, OwnersHold, ConnectionHolds, ServerHolds,
                  RawClientSocket, HasListener, HasReadEnd, HasWriteEnd
    <2>4. QED
      BY <2>1, <2>2, <2>3 DEF IInv
  <1>6. QED
    BY <1>1, <1>2, <1>3, <1>4, <1>5 DEF Next

THEOREM Invariance == Spec => []IInv
  BY InitEstablishes, StepPreserves, PTL DEF Spec

-----------------------------------------------------------------------------
(* Every variable of the ownership model keeps its type, whatever fails    *)
(* (acceptConnections, processRequest, ~Server).                           *)
THEOREM TypeCorrect == Spec => []TypeOK
  <1>1. IInv => TypeOK
    BY DEF IInv, OwnershipInv
  <1>2. QED
    BY <1>1, Invariance, PTL

(* No path through acceptConnections, processRequest, closeConnection or   *)
(* ~Server loses an open descriptor, even if the map insertion throws.     *)
THEOREM NoLeak == Spec => []NothingLeaks
  <1>1. IInv => NothingLeaks
    BY DEF IInv
  <1>2. QED
    BY <1>1, Invariance, PTL

(* As long as the insertion into `connections' (server.cpp:168) does not   *)
(* throw, no thread ever uses or closes a descriptor number that has come  *)
(* to stand for something else.                                            *)
THEOREM NoForeignClose == Spec => []HoldersAreRight
  <1>1. IInv => HoldersAreRight
    BY DEF IInv
  <1>2. QED
    BY <1>1, Invariance, PTL

(* A destroyed Server leaves no descriptor open (server.cpp:46-54 and the  *)
(* destructors of its members).                                            *)
THEOREM StopsClean == Spec => []CleanStop
  <1>1. ASSUME IInv PROVE CleanStop
    <2> USE <1>1 DEF IInv, OwnershipInv
    <2>1. ASSUME loop = "stopped", NEW c \in Conn
          PROVE  socket[c] = NoFd /\ file[c] = NoFd /\ responseFile[c] = NoFd
      <3>1. ~HeldByPool(c) /\ c \notin connections
        BY <2>1 DEF StopInv, JobInv, HeldByPool, TypeOK
      <3>2. QED
        BY <2>1, <3>1 DEF ObjectInv, FileInv, StopInv
    <2>2. ASSUME loop = "stopped", NEW n \in Fd PROVE table[n] = Free
      BY <2>1, <2>2
      DEF NothingLeaks, OwnedByServer, OwnedByConnection, RawClientSocket, HasListener,
          HasReadEnd, HasWriteEnd
    <2>3. QED
      BY <2>2 DEF CleanStop
  <1>2. QED
    BY <1>1, Invariance, PTL

=============================================================================

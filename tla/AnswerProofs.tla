---------------------------- MODULE AnswerProofs ----------------------------
(***************************************************************************)
(* Theorems about Answer.  The two halves are proved about on their own,   *)
(* in ResponseProofs and DeliveryProofs; here they are put together.       *)
(***************************************************************************)
EXTENDS Answer, SequenceTheorems, TLAPS

WorkerProofs == INSTANCE ResponseProofs
LoopProofs == INSTANCE DeliveryProofs

-----------------------------------------------------------------------------
(* What the two modules assume of their constants holds here, and what     *)
(* they define is what Answer's instances of their components define.      *)

LEMMA WorkerBounds == WorkerProofs!Bounds
  BY AnswerAssumption DEF WorkerProofs!Bounds

LEMMA LoopBounds == LoopProofs!DeliveryAssumption
  BY AnswerAssumption DEF LoopProofs!DeliveryAssumption

LEMMA SameWorker ==
  /\ Worker!Init <=> WorkerProofs!Init
  /\ Worker!vars = WorkerProofs!vars
  /\ Worker!vars = workerVars
  BY Zenon
  DEF Worker!Init, WorkerProofs!Init, Worker!vars, WorkerProofs!vars, workerVars,
      Worker!OK, WorkerProofs!OK, Worker!Unset, WorkerProofs!Unset,
      Worker!NoRegion, WorkerProofs!NoRegion

LEMMA SameWorkerStep == Worker!Next <=> WorkerProofs!Next
  BY Zenon
  DEF Worker!Next, WorkerProofs!Next, Worker!HandlerCall, WorkerProofs!HandlerCall,
      Worker!SetStatus, WorkerProofs!SetStatus, Worker!Send, WorkerProofs!Send,
      Worker!End, WorkerProofs!End, Worker!Ended, WorkerProofs!Ended, Worker!EndWith,
      WorkerProofs!EndWith, Worker!Refused, WorkerProofs!Refused, Worker!Reply,
      WorkerProofs!Reply, Worker!SendNotFound, WorkerProofs!SendNotFound,
      Worker!SendInvalidRange, WorkerProofs!SendInvalidRange, Worker!SendFile,
      WorkerProofs!SendFile, Worker!SendSlice, WorkerProofs!SendSlice,
      Worker!SendFiles, WorkerProofs!SendFiles, Worker!Return, WorkerProofs!Return,
      Worker!Throw, WorkerProofs!Throw, Worker!Escape, WorkerProofs!Escape, Worker!Take, WorkerProofs!Take, Worker!Call,
      WorkerProofs!Call, Worker!Ignored, WorkerProofs!Ignored, Worker!IsPartial,
      WorkerProofs!IsPartial, Worker!FirstByte, WorkerProofs!FirstByte,
      Worker!LastByte, WorkerProofs!LastByte, Worker!InRange, WorkerProofs!InRange,
      Worker!PromisedLength, WorkerProofs!PromisedLength, Worker!Slice,
      WorkerProofs!Slice, Worker!Region, WorkerProofs!Region, Worker!Header,
      WorkerProofs!Header, Worker!Body, WorkerProofs!Body, Worker!ChunkedHeader,
      WorkerProofs!ChunkedHeader, Worker!Chunks, WorkerProofs!Chunks,
      Worker!LastChunk, WorkerProofs!LastChunk, Worker!Unset, WorkerProofs!Unset,
      Worker!STATUS_CODE, WorkerProofs!STATUS_CODE, Worker!OK, WorkerProofs!OK,
      Worker!PARTIAL_CONTENT, WorkerProofs!PARTIAL_CONTENT, Worker!BAD_REQUEST,
      WorkerProofs!BAD_REQUEST, Worker!FORBIDDEN, WorkerProofs!FORBIDDEN,
      Worker!NOT_FOUND, WorkerProofs!NOT_FOUND, Worker!RANGE_NOT_SATISFIABLE,
      WorkerProofs!RANGE_NOT_SATISFIABLE

LEMMA SameLoop ==
  /\ Loop!Init <=> LoopProofs!Init
  /\ Loop!vars = LoopProofs!vars
  /\ Loop!vars = loopVars
  BY Zenon
  DEF Loop!Init, LoopProofs!Init, Loop!vars, LoopProofs!vars, loopVars,
      Loop!NoRegion, LoopProofs!NoRegion

LEMMA SameLoopStep == Loop!Next <=> LoopProofs!Next
  BY Zenon
  DEF Loop!Next, LoopProofs!Next, Loop!SetResponse, LoopProofs!SetResponse, Loop!GoTo,
      LoopProofs!GoTo, Loop!Finish, LoopProofs!Finish, Loop!Writable,
      LoopProofs!Writable, Loop!Sweep, LoopProofs!Sweep, Loop!BufferLeft,
      LoopProofs!BufferLeft, Loop!Unsent, LoopProofs!Unsent, Loop!Piece,
      LoopProofs!Piece, Loop!Send, LoopProofs!Send, Loop!SendWouldBlock,
      LoopProofs!SendWouldBlock, Loop!SendFails, LoopProofs!SendFails, Loop!BufferOut,
      LoopProofs!BufferOut, Loop!FileLeft, LoopProofs!FileLeft, Loop!Available,
      LoopProofs!Available, Loop!Advanced, LoopProofs!Advanced, Loop!Transfer,
      LoopProofs!Transfer, Loop!SendFile, LoopProofs!SendFile, Loop!SendFileEnds,
      LoopProofs!SendFileEnds, Loop!SendFileWouldBlock, LoopProofs!SendFileWouldBlock,
      Loop!SendFileFails, LoopProofs!SendFileFails, Loop!FileOut, LoopProofs!FileOut,
      Loop!Truncate, LoopProofs!Truncate, Loop!Write, LoopProofs!Write, Loop!Regions,
      LoopProofs!Regions, Loop!FileRegions, LoopProofs!FileRegions, Loop!NoRegion,
      LoopProofs!NoRegion

-----------------------------------------------------------------------------
(* The worker's half: every step is one of Response, or leaves it alone.   *)

FileFits == fileSize \in 0..MaxFile

LEMMA FileFitsStep == FileFits /\ [Next]_vars => FileFits'
  <1> SUFFICES ASSUME FileFits, [Next]_vars PROVE FileFits'
    OBVIOUS
  <1>1. CASE HandlerStep
    BY <1>1 DEF HandlerStep, loopVars, FileFits
  <1>2. CASE Respond
    BY <1>2 DEF Respond, Loop!SetResponse, FileFits
  <1>6. CASE Escape
    BY <1>6 DEF Escape, loopVars, FileFits
  <1>3. CASE LoopStep
    BY <1>3 DEF LoopStep, FileFits, Loop!Write, Loop!Writable, Loop!Sweep, Loop!Send,
       Loop!SendWouldBlock, Loop!SendFails, Loop!BufferOut, Loop!SendFile,
       Loop!SendFileEnds, Loop!SendFileWouldBlock, Loop!SendFileFails, Loop!FileOut
  <1>4. CASE FileShrinks
    BY <1>4 DEF FileShrinks, Loop!Truncate, FileFits
  <1>5. CASE UNCHANGED vars
    BY <1>5 DEF vars, loopVars, FileFits
  <1>7. QED
    BY <1>1, <1>2, <1>3, <1>4, <1>5, <1>6 DEF Next

LEMMA IsAWorkerStep == FileFits /\ [Next]_vars => [WorkerProofs!Next]_(WorkerProofs!vars)
  <1>1. FileFits /\ [Next]_vars => [Worker!Next]_workerVars
    BY DEF Next, HandlerStep, Respond, Escape, LoopStep, FileShrinks, Worker!Next, FileFits,
       vars
  <1>2. QED
    BY <1>1, SameWorkerStep DEF workerVars, WorkerProofs!vars

LEMMA WorkersHalf == Spec => WorkerProofs!Spec
  <1>1. Init => WorkerProofs!Init /\ FileFits
    BY AnswerAssumption, SameWorker DEF Init, Loop!Init, FileFits
  <1>2. QED
    BY <1>1, FileFitsStep, IsAWorkerStep, PTL DEF Spec, WorkerProofs!Spec

LEMMA WorkerInvariant == Spec => []WorkerProofs!IInv
  <1>1. WorkerProofs!Init => WorkerProofs!IInv
    BY WorkerBounds, WorkerProofs!IInvInit
  <1>2. WorkerProofs!IInv /\ [WorkerProofs!Next]_(WorkerProofs!vars) => WorkerProofs!IInv'
    BY WorkerBounds, WorkerProofs!IInvNext
  <1>3. QED
    BY <1>1, <1>2, WorkersHalf, PTL DEF WorkerProofs!Spec

(* Whatever a handler calls, and wherever it throws, there is one header   *)
(* and it comes first, unless the exception leaves sendFiles.              *)
THEOREM HeaderOnce == Spec => []OneHeader
  <1>1. WorkerProofs!IInv => OneHeader
    <2>1. WorkerProofs!Blank => Len(data) = 0
      BY DEF WorkerProofs!Blank
    <2>2. QED
      BY <2>1 DEF WorkerProofs!IInv, WorkerProofs!Whole, WorkerProofs!NoOtherHeader,
         WorkerProofs!IsHeader, OneHeader, Worker!OneHeader, Worker!IsHeader
  <1>2. QED
    BY <1>1, WorkerInvariant, PTL

(* The header announces what follows it, in memory and in the file.        *)
LEMMA InvariantFraming == WorkerProofs!IInv => FramingHonest
  BY DEF WorkerProofs!IInv, WorkerProofs!Whole, WorkerProofs!Blank,
     WorkerProofs!TellsLength, WorkerProofs!BodyInMemory, WorkerProofs!BodyInFile,
     WorkerProofs!Unset, FramingHonest, Worker!FramingHonest, Worker!RegionIsASlice,
     Worker!BodyInMemory, Worker!BodyInFile, Worker!Unset

THEOREM Framing == Spec => []FramingHonest
  BY InvariantFraming, WorkerInvariant, PTL

(* After end() nothing changes what the client gets, neither the handler   *)
(* nor an exception nor the event loop that writes it.                     *)
THEOREM Final == Spec => EndedIsFinal
  <1>1. [WorkerProofs!Next]_(WorkerProofs!vars)
          => [hasEnded => UNCHANGED <<data, region>>]_(Worker!vars)
    BY WorkerProofs!NextKeepsTheEnd DEF WorkerProofs!vars, Worker!vars
  <1>2. QED
    BY <1>1, WorkersHalf, PTL DEF WorkerProofs!Spec, EndedIsFinal, Worker!EndedIsFinal

-----------------------------------------------------------------------------
(* The hand-off: the writing half is given what it was made for.           *)

LEMMA Fits == WorkerProofs!IInv => Len(data) \in 0..MaxBuffer /\ region \in Loop!Regions
  <1> SUFFICES ASSUME WorkerProofs!IInv
               PROVE  Len(data) \in 0..MaxBuffer /\ region \in Loop!Regions
    OBVIOUS
  <1>1. Len(data) \in Nat
    BY LenProperties DEF WorkerProofs!IInv, WorkerProofs!TypeOK
  <1>2. Len(data) <= 2 * calls + 1 + MaxMessage /\ calls \in 0..MaxCalls
    BY <1>1, AnswerAssumption
    DEF WorkerProofs!IInv, WorkerProofs!TypeOK, WorkerProofs!RoomEnough, WorkerProofs!EndSize
  <1>3. Len(data) <= MaxBuffer
    BY <1>1, <1>2, AnswerAssumption
  <1>4. region \in Loop!Regions
    BY DEF WorkerProofs!IInv, WorkerProofs!Slices, WorkerProofs!NoRegion,
       WorkerProofs!FileRegions, Loop!Regions, Loop!NoRegion, Loop!FileRegions
  <1>5. QED
    BY <1>1, <1>3, <1>4, AnswerAssumption

LEMMA IsALoopStep ==
  WorkerProofs!IInv' /\ [Next]_vars => [Loop!Next]_(Loop!vars)
  <1>0. WorkerProofs!IInv' => (Len(data) \in 0..MaxBuffer /\ region \in Loop!Regions)'
    BY Fits, PTL
  <1> SUFFICES ASSUME WorkerProofs!IInv', [Next]_vars PROVE [Loop!Next]_loopVars
    BY DEF Loop!vars, loopVars
  <1>1. CASE HandlerStep
    BY <1>1 DEF HandlerStep
  <1>2. CASE Respond
    <2>1. Len(data') \in 0..MaxBuffer /\ region' \in Loop!Regions
      BY <1>0 DEF Loop!Regions, Loop!FileRegions, Loop!NoRegion
    <2>2. QED
      BY <1>2, <2>1 DEF Respond, Loop!Next
  <1>3. CASE LoopStep \/ FileShrinks
    BY <1>3 DEF LoopStep, FileShrinks, Loop!Next
  <1>4. CASE Escape \/ UNCHANGED vars
    BY <1>4 DEF Escape, vars
  <1>5. QED
    BY <1>1, <1>2, <1>3, <1>4 DEF Next

(* processRequest hands over a buffer and a region that lies within the    *)
(* file, once, and leaves them alone: the writing half runs as Delivery    *)
(* says, and all that is proved of it holds here.                          *)
THEOREM Contract == Spec => KeepsTheContract
  <1>1. Init => Loop!Init
    BY DEF Init
  <1>2. QED
    BY <1>1, IsALoopStep, WorkerInvariant, PTL DEF Spec, KeepsTheContract, Loop!Spec

-----------------------------------------------------------------------------
(* Both halves at once                                                     *)

LEMMA LoopInvariant == Spec => []LoopProofs!IInv
  <1>1. LoopProofs!Init => LoopProofs!IInv
    BY LoopBounds, LoopProofs!IInvInit
  <1>2. LoopProofs!IInv /\ [LoopProofs!Next]_(LoopProofs!vars) => LoopProofs!IInv'
    BY LoopBounds, LoopProofs!IInvStep
  <1>3. Loop!Init => LoopProofs!Init
    BY SameLoop
  <1>4. [Loop!Next]_(Loop!vars) => [LoopProofs!Next]_(LoopProofs!vars)
    BY SameLoopStep DEF Loop!vars, LoopProofs!vars
  <1>5. QED
    BY <1>1, <1>2, <1>3, <1>4, Contract, PTL DEF KeepsTheContract, Loop!Spec

(* What the loop took is what the worker has made, also while it is being  *)
(* written: after setResponse nobody touches `data' and `region'.  Before  *)
(* it, there is nothing to write.                                          *)
Handed ==
  /\ stage = "taken" => promised = [buffer |-> Len(data), file |-> region]
  /\ stage # "taken" => writing = "none"

LEMMA HandedStep == Handed /\ [Next]_vars => Handed'
  <1> SUFFICES ASSUME Handed, [Next]_vars PROVE Handed'
    OBVIOUS
  <1>1. ASSUME NEW size, Worker!HandlerCall(size) PROVE stage = "handling" /\ stage' = stage
    BY <1>1
    DEF Worker!HandlerCall, Worker!SetStatus, Worker!Send, Worker!End, Worker!SendNotFound,
        Worker!SendInvalidRange, Worker!Reply, Worker!SendFile, Worker!SendFiles, Worker!Call
  <1>2. CASE HandlerStep
    BY <1>1, <1>2 DEF HandlerStep, loopVars, Handed
  <1>3. CASE Respond
    BY <1>3 DEF Respond, Worker!Return, Worker!Throw, Worker!Take, Loop!SetResponse, Handed
  <1>4. CASE LoopStep
    <2>1. UNCHANGED promised /\ writing # "none"
      BY <1>4 DEF Loop!GoTo, Loop!Finish, LoopStep, Loop!Write, Loop!Writable, Loop!Sweep, Loop!Send,
         Loop!SendWouldBlock, Loop!SendFails, Loop!BufferOut, Loop!SendFile,
         Loop!SendFileEnds, Loop!SendFileWouldBlock, Loop!SendFileFails, Loop!FileOut
    <2>2. QED
      BY <1>4, <2>1 DEF LoopStep, workerVars, Handed
  <1>5. CASE FileShrinks
    BY <1>5 DEF FileShrinks, Loop!Truncate, workerVars, Handed
  <1>6. CASE Escape
    BY <1>6 DEF Escape, Worker!Escape, loopVars, Handed
  <1>7. CASE UNCHANGED vars
    BY <1>7 DEF vars, workerVars, loopVars, Handed
  <1>8. QED
    BY <1>2, <1>3, <1>4, <1>5, <1>6, <1>7 DEF Next

LEMMA AllHanded == Spec => []Handed
  <1>1. Init => Handed
    BY DEF Init, Worker!Init, Loop!Init, Handed
  <1>2. QED
    BY <1>1, HandedStep, PTL DEF Spec

(* A client gets nothing but a response that processRequest took, and that *)
(* begins with a header.                                                   *)
THEOREM Answered == Spec => []StatusLineFirst
  <1>1. WorkerProofs!IInv => Worker!StatusLineFirst
    BY DEF WorkerProofs!IInv, WorkerProofs!Whole, WorkerProofs!Blank,
       WorkerProofs!HeaderFirst, WorkerProofs!IsHeader,
       Worker!StatusLineFirst, Worker!IsHeader
  <1>2. LoopProofs!IInv /\ Handed => (wire # <<>> => stage = "taken")
    BY DEF LoopProofs!IInv, LoopProofs!Before, Handed
  <1>3. WorkerProofs!IInv /\ LoopProofs!IInv /\ Handed => StatusLineFirst
    BY <1>1, <1>2 DEF StatusLineFirst
  <1>4. QED
    BY <1>3, WorkerInvariant, LoopInvariant, AllHanded, PTL

(* The arithmetic: the header announces what the two counters of the       *)
(* writing half count.                                                     *)
LEMMA Counted ==
  ASSUME WorkerProofs!IInv, LoopProofs!IInv, Handed, HasLength, Len(wire) >= 1
  PROVE  \E n \in Nat :
           /\ data[1].length = {n}
           /\ Len(wire) - 1 <= n
           /\ Len(wire) - 1 = n <=> ~Loop!BufferLeft /\ ~Loop!FileLeft
           /\ result = "COMPLETE" => ~Loop!BufferLeft /\ ~Loop!FileLeft
  <1>1. writing # "none"
    <2>1. wire = <<>> => Len(wire) = 0
      OBVIOUS
    <2>2. QED
      BY <2>1 DEF LoopProofs!IInv, LoopProofs!Before
  <1>2. stage = "taken" /\ promised.buffer = Len(data) /\ promised.file = region
    BY DEF HasLength, Framed, Handed
  <1>3. PICK body : body = IF region.valid THEN region.remaining ELSE 0
    OBVIOUS
  <1>4. data[1].length = {Len(data) - 1 + body}
    BY <1>2, <1>3, InvariantFraming
    DEF HasLength, Framed, FramingHonest, Worker!FramingHonest, Worker!BodyInMemory, Worker!BodyInFile
  <1>5. /\ writeBuffer \in Nat /\ bytesWritten \in Nat /\ Len(wire) \in Nat
        /\ file.offset \in Int /\ file.remaining \in Int
        /\ region.offset \in Int /\ region.remaining \in Int
        /\ file.valid \in BOOLEAN /\ region.valid \in BOOLEAN
    <2>1. /\ bytesWritten \in Nat /\ writeBuffer \in Nat /\ Len(wire) \in Nat
      BY AnswerAssumption, LenProperties DEF LoopProofs!IInv, LoopProofs!TypeOK
    <2>2. /\ file.offset \in Int /\ file.remaining \in Int /\ file.valid \in BOOLEAN
      BY AnswerAssumption DEF LoopProofs!IInv, LoopProofs!TypeOK, LoopProofs!FileRegions
    <2>3. /\ region.offset \in Int /\ region.remaining \in Int /\ region.valid \in BOOLEAN
      BY AnswerAssumption DEF WorkerProofs!IInv, WorkerProofs!TypeOK, WorkerProofs!FileRegions
    <2>4. QED
      BY <2>1, <2>2, <2>3
  <1>6. /\ writeBuffer = Len(data)
        /\ bytesWritten <= writeBuffer
        /\ file.valid = region.valid
        /\ file.offset >= region.offset
        /\ file.offset + file.remaining = region.offset + region.remaining
        /\ file.offset # region.offset => file.valid /\ file.remaining >= 0
        /\ Len(wire) = bytesWritten + (file.offset - region.offset)
    BY <1>1, <1>2 DEF LoopProofs!IInv, LoopProofs!Accounting
  <1>7. region.valid => region.remaining >= 0
    BY DEF HasLength, Framed, Worker!RegionIsASlice
  <1>8. PICK moved : moved = file.offset - region.offset
    OBVIOUS
  <1>9. /\ moved \in Nat /\ body \in Nat /\ moved <= body
        /\ Len(wire) = bytesWritten + moved
        /\ moved = body <=> ~(file.valid /\ file.remaining > 0)
    <2>1. /\ moved \in Nat /\ Len(wire) = bytesWritten + moved
          /\ moved + file.remaining = region.remaining
      <3>1. PICK o, p, q, r : /\ o = region.offset /\ p = file.offset
                              /\ q = region.remaining /\ r = file.remaining
        OBVIOUS
      <3>2. /\ o \in Int /\ p \in Int /\ q \in Int /\ r \in Int
            /\ p >= o /\ p + r = o + q /\ moved = p - o
        BY <1>5, <1>6, <1>8, <3>1
      <3>3. moved \in Nat /\ moved + r = q
        BY <3>2
      <3>4. Len(wire) = bytesWritten + moved
        BY <1>6, <1>8
      <3>5. QED
        BY <3>1, <3>3, <3>4
    <2>2. CASE region.valid
      <3>1. body = region.remaining /\ body >= 0 /\ file.valid
        BY <1>3, <1>6, <1>7, <2>2
      <3>2. file.remaining >= 0
        <4>1. CASE moved = 0
          BY <1>5, <2>1, <3>1, <4>1
        <4>2. CASE moved # 0
          BY <1>5, <1>6, <1>8, <4>2
        <4>3. QED
          BY <4>1, <4>2
      <3>3. moved <= body /\ (moved = body <=> ~(file.remaining > 0)) /\ body \in Nat
        BY <1>5, <2>1, <3>1, <3>2
      <3>4. QED
        BY <2>1, <3>1, <3>3
    <2>3. CASE ~region.valid
      <3>1. body = 0 /\ ~file.valid
        BY <1>3, <1>6, <2>3
      <3>2. moved = 0
        BY <1>5, <1>6, <1>8, <3>1
      <3>3. QED
        BY <2>1, <3>1, <3>2
    <2>4. QED
      BY <2>2, <2>3
  <1>10. result = "COMPLETE" => ~Loop!BufferLeft /\ ~Loop!FileLeft
    BY <1>1 DEF LoopProofs!IInv, LoopProofs!Order, LoopProofs!BufferLeft, LoopProofs!FileLeft,
       Loop!BufferLeft, Loop!FileLeft
  <1>11. PICK n : n = Len(data) - 1 + body
    OBVIOUS
  <1>12. n \in Nat /\ Len(wire) - 1 <= n
    BY <1>5, <1>6, <1>9, <1>11
  <1>13. Len(wire) - 1 = n <=> bytesWritten = writeBuffer /\ moved = body
    BY <1>5, <1>6, <1>9, <1>11
  <1>14. bytesWritten = writeBuffer <=> ~Loop!BufferLeft
    BY <1>5, <1>6 DEF Loop!BufferLeft
  <1>15. moved = body <=> ~Loop!FileLeft
    BY <1>9 DEF Loop!FileLeft
  <1>16. QED
    BY <1>4, <1>10, <1>11, <1>12, <1>13, <1>14, <1>15

(* A client that counts bytes against content-length has counted them all  *)
(* exactly when the server has sent all that it will send.                 *)
THEOREM CountingTells == Spec => []ClientCanTell
  <1>1. WorkerProofs!IInv /\ LoopProofs!IInv /\ Handed => ClientCanTell
    <2> SUFFICES ASSUME WorkerProofs!IInv, LoopProofs!IInv, Handed,
                        HasLength, Len(wire) >= 1
                 PROVE  /\ \A n \in data[1].length :
                             /\ Len(wire) - 1 <= n
                             /\ Len(wire) - 1 = n <=> ~Loop!BufferLeft /\ ~Loop!FileLeft
                        /\ writing = "closed" /\ result = "COMPLETE" =>
                             data[1].length = {Len(wire) - 1}
      BY DEF ClientCanTell, HeaderSize
    <2>1. PICK n \in Nat :
            /\ data[1].length = {n}
            /\ Len(wire) - 1 <= n
            /\ Len(wire) - 1 = n <=> ~Loop!BufferLeft /\ ~Loop!FileLeft
            /\ result = "COMPLETE" => ~Loop!BufferLeft /\ ~Loop!FileLeft
      BY Counted
    <2>2. QED
      BY <2>1
  <1>2. QED
    BY <1>1, WorkerInvariant, LoopInvariant, AllHanded, PTL

=============================================================================

--------------------------- MODULE DeliveryProofs ---------------------------
(***************************************************************************)
(* Theorems about Delivery, for responses and files of every size.         *)
(***************************************************************************)
EXTENDS DeliveryInvariant, SequenceTheorems, TLAPS

USE DEF vars

-----------------------------------------------------------------------------
(* What a piece adds to the wire.                                          *)

LEMMA PieceIsASeq ==
  ASSUME NEW from \in {"buffer", "file"}, NEW at \in Nat, NEW n \in Nat
  PROVE  /\ Piece(from, at, n) \in Seq(Bytes)
         /\ Len(Piece(from, at, n)) = n
         /\ \A i \in 1..n : Piece(from, at, n)[i] = [from |-> from, at |-> at + i]
  <1>1. Piece(from, at, n) \in [1..n -> Bytes]
    BY DEF Piece, Bytes
  <1>2. Piece(from, at, n) \in Seq(Bytes)
    BY <1>1, SeqDef
  <1>3. Len(Piece(from, at, n)) = n
    BY <1>1, <1>2, LenProperties
  <1>4. QED
    BY <1>2, <1>3 DEF Piece

LEMMA Appended ==
  ASSUME NEW w \in Seq(Bytes), NEW p \in Seq(Bytes), NEW longer, longer = w \o p
  PROVE  /\ longer \in Seq(Bytes)
         /\ Len(w) \in Nat /\ Len(p) \in Nat
         /\ Len(longer) = Len(w) + Len(p)
         /\ \A i \in 1..Len(w) : longer[i] = w[i]
         /\ \A i \in 1..Len(longer) :
              i > Len(w) => longer[i] = p[i - Len(w)] /\ i - Len(w) \in 1..Len(p)
  <1>1. Len(w) \in Nat /\ Len(p) \in Nat
    BY LenProperties
  <1>2. QED
    BY <1>1, ConcatProperties

-----------------------------------------------------------------------------
(* The invariant                                                           *)

LEMMA IInvInit == ASSUME DeliveryAssumption PROVE Init => IInv
  <1> SUFFICES ASSUME Init PROVE IInv
    OBVIOUS
  <1>1. TypeOK
    BY DEF DeliveryAssumption, Init, TypeOK, WriteStages, Results, FileRegions, NoRegion
  <1>2. Before
    BY DEF Init, Before
  <1>3. InOrder
    BY <1>1 DEF Init, InOrder, ResponseLength, FileBytes, NoRegion, TypeOK
  <1>4. QED
    BY <1>1, <1>2, <1>3 DEF IInv, Init

LEMMA SetResponseStep ==
  ASSUME DeliveryAssumption, IInv,
         NEW size \in 0..MaxBuffer, NEW region \in Regions, SetResponse(size, region)
  PROVE  IInv'
  <1>1. region \in FileRegions /\ (region.valid \/ region = NoRegion)
    <2>1. NoRegion \in FileRegions
      BY DEF NoRegion, FileRegions, DeliveryAssumption
    <2>2. QED
      BY <2>1 DEF Regions
  <1>2. /\ writing = "none" /\ writeBuffer' = size /\ bytesWritten' = 0
        /\ file' = region /\ writing' = "waiting"
        /\ promised' = [buffer |-> size, file |-> region]
        /\ result' = result /\ fileSize' = fileSize /\ wire' = wire
    BY DEF SetResponse
  <1>3. wire = <<>> /\ result = "PENDING"
    BY <1>2 DEF IInv, Before
  <1>4. TypeOK'
    BY <1>1, <1>2 DEF IInv, TypeOK, WriteStages, DeliveryAssumption
  <1>5. Accounting'
    BY <1>1, <1>2, <1>3 DEF Accounting, FileRegions, DeliveryAssumption
  <1>6. Order'
    BY <1>1, <1>2, <1>3 DEF Order
  <1>7. InOrder'
    BY <1>1, <1>2, <1>3 DEF InOrder, ResponseLength, FileBytes, Positive, FileRegions,
       DeliveryAssumption
  <1>8. QED
    BY <1>2, <1>4, <1>5, <1>6, <1>7 DEF IInv

(* Steps that move no byte: what they leave alone, and what IInv asks of   *)
(* the three variables they may change.                                    *)
LEMMA StageStep ==
  ASSUME IInv, writing # "none", writing' \in WriteStages \ {"none"},
         UNCHANGED <<writeBuffer, bytesWritten, file, wire, promised>>,
         result' \in Results, fileSize' \in 0..MaxFile,
         writing' = "file" => ~BufferLeft,
         result' = "COMPLETE" => writing' = "closed" /\ ~BufferLeft /\ ~FileLeft
  PROVE  IInv'
  <1>1. TypeOK'
    BY DEF IInv, TypeOK
  <1>2. Accounting' /\ Order'
    BY DEF IInv, Accounting, Order, BufferLeft, FileLeft
  <1>3. InOrder'
    BY DEF IInv, InOrder, ResponseLength, FileBytes, ResponseByte, Positive
  <1>4. QED
    BY <1>1, <1>2, <1>3 DEF IInv, WriteStages

LEMMA SendStep == ASSUME DeliveryAssumption, IInv, Send PROVE IInv'
  <1>1. PICK n \in 1..Unsent : /\ wire' = wire \o Piece("buffer", bytesWritten, n)
                               /\ bytesWritten' = bytesWritten + n
    BY DEF Send
  <1>2. /\ writing = "buffer" /\ BufferLeft
        /\ UNCHANGED <<writeBuffer, file, writing, result, fileSize, promised>>
    BY DEF Send
  <1>3. TypeOK /\ Accounting /\ Order /\ InOrder
    BY <1>2 DEF IInv
  <1>4. /\ bytesWritten \in Nat /\ writeBuffer \in 0..MaxBuffer /\ n \in Nat
        /\ wire \in Seq(Bytes) /\ MaxBuffer \in Nat /\ bytesWritten + n <= writeBuffer
    BY <1>1, <1>3 DEF TypeOK, DeliveryAssumption, Unsent
  <1>5. /\ wire' \in Seq(Bytes)
        /\ Len(wire') = Len(wire) + n /\ Len(wire) \in Nat
        /\ \A i \in 1..Len(wire) : wire'[i] = wire[i]
        /\ \A i \in 1..Len(wire') : i > Len(wire) =>
             wire'[i] = [from |-> "buffer", at |-> bytesWritten + (i - Len(wire))]
    <2>1. PICK p \in Seq(Bytes) :
            /\ p = Piece("buffer", bytesWritten, n) /\ Len(p) = n
            /\ \A i \in 1..n : p[i] = [from |-> "buffer", at |-> bytesWritten + i]
      BY <1>1, <1>4, PieceIsASeq
    <2>2. wire' = wire \o p
      BY <1>1, <1>4, <2>1
    <2>3. /\ wire' \in Seq(Bytes) /\ Len(wire') = Len(wire) + n /\ Len(wire) \in Nat
          /\ \A i \in 1..Len(wire) : wire'[i] = wire[i]
          /\ \A i \in 1..Len(wire') :
               i > Len(wire) => wire'[i] = p[i - Len(wire)] /\ i - Len(wire) \in 1..n
      <3>1. wire \in Seq(Bytes) /\ Len(p) = n /\ n \in Nat
        BY <1>4, <2>1
      <3>2. wire' \in Seq(Bytes) /\ Len(wire) \in Nat /\ Len(wire') = Len(wire) + n
        BY <2>2, <3>1, Appended
      <3>3. \A i \in 1..Len(wire) : wire'[i] = wire[i]
        BY <2>2, <3>1, Appended
      <3>4. \A i \in 1..Len(wire') :
              i > Len(wire) => wire'[i] = p[i - Len(wire)] /\ i - Len(wire) \in 1..n
        BY <2>2, <3>1, Appended
      <3>5. QED
        BY <3>2, <3>3, <3>4
    <2>4. QED
      BY <2>1, <2>3
  <1>6. /\ file.offset = promised.file.offset
        /\ Len(wire) = bytesWritten
        /\ promised.buffer = writeBuffer
    <2>1. file.offset \in Nat /\ promised.file.offset \in Nat
      BY <1>3 DEF TypeOK, FileRegions, DeliveryAssumption
    <2>2. QED
      BY <1>2, <1>3, <1>4, <2>1 DEF Order, Accounting
  <1>7. TypeOK'
    BY <1>1, <1>2, <1>3, <1>4, <1>5 DEF TypeOK
  <1>8. Accounting' /\ Order'
    <2>1. /\ Len(wire') = bytesWritten' /\ bytesWritten' <= writeBuffer'
      BY <1>1, <1>2, <1>4, <1>5, <1>6
    <2>2. /\ file'.offset = promised'.file.offset
          /\ file'.offset - promised'.file.offset = 0
          /\ bytesWritten' + 0 = bytesWritten'
      BY <1>1, <1>2, <1>3, <1>4, <1>6 DEF TypeOK, FileRegions, DeliveryAssumption
    <2>3. Accounting'
      BY <1>2, <1>3, <1>6, <2>1, <2>2 DEF Accounting
    <2>4. Order'
      BY <1>2, <1>3, <2>2 DEF Order
    <2>5. QED
      BY <2>3, <2>4
  <1>9. InOrder'
    <2>1. ResponseLength' = ResponseLength /\ ResponseLength \in Nat
          /\ promised.buffer <= ResponseLength
      BY <1>2, <1>3 DEF ResponseLength, FileBytes, Positive, TypeOK, FileRegions,
         DeliveryAssumption
    <2>2. Len(wire') <= promised.buffer
      BY <1>4, <1>5, <1>6
    <2>3. ASSUME NEW i \in 1..Len(wire') PROVE wire'[i] = ResponseByte(i)'
      <3>1. i \in Nat /\ i <= promised.buffer /\ Len(wire) \in Nat
        BY <1>4, <1>5, <1>6, <2>2
      <3>2. CASE i > Len(wire)
        BY <1>2, <1>4, <1>5, <1>6, <3>1, <3>2 DEF ResponseByte
      <3>3. CASE i <= Len(wire)
        <4>1. i \in 1..Len(wire)
          BY <3>1, <3>3
        <4>2. wire'[i] = ResponseByte(i)
          BY <1>3, <1>5, <4>1 DEF InOrder
        <4>3. QED
          BY <1>2, <4>2 DEF ResponseByte
      <3>4. QED
        BY <3>1, <3>2, <3>3
    <2>4. Len(wire') <= ResponseLength'
      BY <1>3, <1>4, <1>5, <2>1, <2>2 DEF TypeOK
    <2>5. QED
      BY <2>3, <2>4 DEF InOrder
  <1>10. QED
    BY <1>2, <1>7, <1>8, <1>9 DEF IInv

(* sendfile() took n bytes, whatever it returned.                          *)
LEMMA TransferStep ==
  ASSUME DeliveryAssumption, IInv, writing = "file", FileLeft,
         NEW n \in Available, Transfer(n),
         writing' \in {"file", "waiting", "closed"},
         result' \in Results \ {"COMPLETE"},
         UNCHANGED <<writeBuffer, bytesWritten, fileSize, promised>>
  PROVE  IInv'
  <1>1. TypeOK /\ Accounting /\ Order /\ InOrder
    BY DEF IInv
  <1>2. /\ file.offset \in Nat /\ promised.file.offset \in Nat /\ file.valid
        /\ file.remaining \in Int /\ promised.file.remaining \in Int
        /\ file.remaining > 0 /\ fileSize \in 0..MaxFile /\ bytesWritten \in Nat
        /\ writeBuffer \in Nat /\ wire \in Seq(Bytes) /\ MaxFile \in Nat
    BY <1>1 DEF TypeOK, FileRegions, DeliveryAssumption, FileLeft
  <1>3. n \in 1..file.remaining /\ n \in Nat /\ file.offset + n <= fileSize
    BY <1>2 DEF Available
  <1>4. /\ wire' = wire \o Piece("file", file.offset, n)
        /\ file' = [file EXCEPT !.offset = @ + n, !.remaining = @ - n]
    BY DEF Transfer, Advanced
  <1>5. /\ wire' \in Seq(Bytes)
        /\ Len(wire') = Len(wire) + n /\ Len(wire) \in Nat
        /\ \A i \in 1..Len(wire) : wire'[i] = wire[i]
        /\ \A i \in 1..Len(wire') : i > Len(wire) =>
             wire'[i] = [from |-> "file", at |-> file.offset + (i - Len(wire))]
    <2>0. PICK at \in Nat : at = file.offset
      BY <1>2
    <2>1. PICK p \in Seq(Bytes) :
            /\ p = Piece("file", at, n) /\ Len(p) = n
            /\ \A i \in 1..n : p[i] = [from |-> "file", at |-> at + i]
      BY <1>3, PieceIsASeq
    <2>2. wire' = wire \o p
      BY <1>4, <2>0, <2>1
    <2>3. /\ wire' \in Seq(Bytes) /\ Len(wire') = Len(wire) + n /\ Len(wire) \in Nat
          /\ \A i \in 1..Len(wire) : wire'[i] = wire[i]
          /\ \A i \in 1..Len(wire') :
               i > Len(wire) => wire'[i] = p[i - Len(wire)] /\ i - Len(wire) \in 1..n
      BY <1>2, <2>1, <2>2, Appended
    <2>4. QED
      BY <2>0, <2>1, <2>3
  <1>6. /\ file' \in FileRegions /\ file'.valid = file.valid
        /\ file'.offset = file.offset + n /\ file'.remaining = file.remaining - n
    <2>1. file \in FileRegions
      BY <1>1 DEF TypeOK
    <2>2. /\ file.offset + n \in 0..MaxFile
          /\ file.remaining - n \in -MaxFile..MaxFile
      BY <1>2, <1>3, <2>1 DEF FileRegions
    <2>3. file' = [valid |-> file.valid, offset |-> file.offset + n,
                   remaining |-> file.remaining - n]
      BY <1>4, <2>1 DEF FileRegions
    <2>4. QED
      BY <1>2, <2>1, <2>2, <2>3 DEF FileRegions
  <1>7. /\ bytesWritten = promised.buffer /\ writeBuffer = promised.buffer
        /\ Len(wire) = promised.buffer + (file.offset - promised.file.offset)
        /\ file.offset >= promised.file.offset
        /\ file.offset + file.remaining = promised.file.offset + promised.file.remaining
        /\ promised.file.valid
    BY <1>1, <1>2 DEF Accounting, Order, BufferLeft
  <1> DEFINE start == promised.file.offset
             left == promised.file.remaining
             header == promised.buffer
  <1>a. /\ start \in Nat /\ left \in Int /\ header \in Nat
        /\ file.offset \in Nat /\ file.remaining \in Int /\ Len(wire) \in Nat /\ n \in Nat
        /\ n <= file.remaining /\ file.remaining > 0
        /\ Len(wire) = header + (file.offset - start)
        /\ file.offset >= start
        /\ file.offset + file.remaining = start + left
    BY <1>2, <1>3, <1>5, <1>7
  <1> HIDE DEF start, left, header
  <1>8. TypeOK'
    BY <1>1, <1>5, <1>6 DEF TypeOK, WriteStages
  <1>9. Accounting'
    <2>1. /\ file'.offset >= promised.file.offset
          /\ file'.offset + file'.remaining = promised.file.offset + promised.file.remaining
          /\ file'.valid /\ file'.remaining >= 0
      BY SMTT(60), <1>2, <1>3, <1>6, <1>7
    <2>2. Len(wire') = header + (file'.offset - start)
      BY <1>5, <1>6, <1>a
    <2>3. QED
      BY <1>2, <1>7, <2>1, <2>2 DEF Accounting, start, header
  <1>10. Order'
    BY <1>2, <1>7 DEF Order, BufferLeft
  <1>11. InOrder'
    <2>1. /\ ResponseLength' = ResponseLength
          /\ ResponseLength = promised.buffer + promised.file.remaining
      <3>1. promised.file.remaining > 0
        BY SMTT(60), <1>2, <1>7
      <3>2. FileBytes = promised.file.remaining
        BY <1>7, <3>1 DEF FileBytes, Positive
      <3>3. FileBytes' = FileBytes
        BY DEF FileBytes, Positive
      <3>4. QED
        BY <3>2, <3>3 DEF ResponseLength
    <2>2. Len(wire') <= ResponseLength'
      <3>1. ResponseLength' = header + left
        BY <2>1 DEF header, left
      <3>2. QED
        BY SMTT(60), <1>5, <1>a, <3>1
    <2>3. ASSUME NEW i \in 1..Len(wire') PROVE wire'[i] = ResponseByte(i)'
      <3>1. i \in Nat /\ Len(wire) \in Nat /\ Len(wire) >= promised.buffer
            /\ promised.buffer \in Nat
        BY SMTT(60), <1>2, <1>5, <1>7
      <3>2. CASE i > Len(wire)
        <4>1. file.offset + (i - Len(wire)) = start + (i - header)
          BY SMTT(60), <1>a, <3>1
        <4>2. QED
          BY <1>5, <3>1, <3>2, <4>1 DEF ResponseByte, start, header
      <3>3. CASE i <= Len(wire)
        <4>1. i \in 1..Len(wire)
          BY <3>1, <3>3
        <4>2. wire'[i] = ResponseByte(i)
          BY <1>1, <1>5, <4>1 DEF InOrder
        <4>3. QED
          BY <4>2 DEF ResponseByte
      <3>4. QED
        BY <3>1, <3>2, <3>3
    <2>4. QED
      BY <2>2, <2>3 DEF InOrder
  <1>12. QED
    BY <1>8, <1>9, <1>10, <1>11 DEF IInv

LEMMA WriteStep == ASSUME DeliveryAssumption, IInv, Write PROVE IInv'
  <1> USE DEF GoTo, Finish, WriteStages, Results
  <1>1. TypeOK /\ (writing # "none" => Order) /\ fileSize \in 0..MaxFile
    BY DEF IInv, TypeOK
  <1>2. CASE Writable
    BY <1>1, <1>2, StageStep DEF Writable, Order, TypeOK
  <1>3. CASE Sweep
    BY <1>1, <1>3, StageStep DEF Sweep, Order, TypeOK
  <1>4. CASE Send
    BY <1>4, SendStep
  <1>5. CASE SendWouldBlock
    BY <1>1, <1>5, StageStep DEF SendWouldBlock
  <1>6. CASE SendFails
    BY <1>1, <1>6, StageStep DEF SendFails
  <1>7. CASE BufferOut
    BY <1>1, <1>7, StageStep DEF BufferOut, Order, TypeOK
  <1>8. CASE SendFile
    <2>1. PICK n \in Available : Transfer(n)
      BY <1>8 DEF SendFile
    <2>2. result \in Results \ {"COMPLETE"}
      BY <1>1, <1>8 DEF SendFile, Order, TypeOK
    <2>3. QED
      BY <1>8, <2>1, <2>2, TransferStep DEF SendFile
  <1>9. CASE SendFileEnds
    BY <1>1, <1>9, StageStep DEF SendFileEnds
  <1>10. CASE SendFileWouldBlock
    <2>1. /\ writing = "file" /\ FileLeft /\ writing' = "waiting" /\ result' = "PENDING"
          /\ UNCHANGED <<writeBuffer, bytesWritten, fileSize, promised>>
      BY <1>10 DEF SendFileWouldBlock
    <2>2. CASE UNCHANGED <<file, wire>>
      BY <1>1, <2>1, <2>2, StageStep
    <2>3. CASE \E n \in Available : Transfer(n)
      BY <2>1, <2>3, TransferStep
    <2>4. QED
      BY <1>10, <2>2, <2>3 DEF SendFileWouldBlock
  <1>11. CASE SendFileFails
    <2>1. /\ writing = "file" /\ FileLeft /\ writing' = "closed" /\ result' = "CLOSED"
          /\ UNCHANGED <<writeBuffer, bytesWritten, fileSize, promised>>
      BY <1>11 DEF SendFileFails
    <2>2. CASE UNCHANGED <<file, wire>>
      BY <1>1, <2>1, <2>2, StageStep
    <2>3. CASE \E n \in Available : Transfer(n)
      BY <2>1, <2>3, TransferStep
    <2>4. QED
      BY <1>11, <2>2, <2>3 DEF SendFileFails
  <1>12. CASE FileOut
    BY <1>1, <1>12, StageStep DEF FileOut, Order
  <1>13. QED
    BY <1>2, <1>3, <1>4, <1>5, <1>6, <1>7, <1>8, <1>9, <1>10, <1>11, <1>12 DEF Write

LEMMA TruncateStep == ASSUME DeliveryAssumption, IInv, Truncate PROVE IInv'
  <1>1. fileSize' \in 0..MaxFile
        /\ UNCHANGED <<writeBuffer, bytesWritten, file, writing, result, wire, promised>>
    BY DEF Truncate
  <1>2. CASE writing = "none"
    <2>1. TypeOK'
      BY <1>1 DEF IInv, TypeOK
    <2>2. Before' /\ InOrder'
      BY <1>1, <1>2 DEF IInv, Before, InOrder, ResponseLength, FileBytes, ResponseByte,
         Positive
    <2>3. QED
      BY <1>1, <1>2, <2>1, <2>2 DEF IInv
  <1>3. CASE writing # "none"
    BY <1>1, <1>3, StageStep DEF IInv, TypeOK, Order
  <1>4. QED
    BY <1>2, <1>3

LEMMA IInvStep == ASSUME DeliveryAssumption, IInv, [Next]_vars PROVE IInv'
  <1>1. CASE \E size \in 0..MaxBuffer, region \in Regions : SetResponse(size, region)
    BY <1>1, SetResponseStep
  <1>2. CASE Write
    BY <1>2, WriteStep
  <1>3. CASE Truncate
    BY <1>3, TruncateStep
  <1>4. CASE UNCHANGED vars
    BY <1>4 DEF IInv, TypeOK, Before, Accounting, Order, InOrder, ResponseLength,
       FileBytes, ResponseByte, Positive, BufferLeft, FileLeft
  <1>5. QED
    BY <1>1, <1>2, <1>3, <1>4 DEF Next

(* The invariant holds in every reachable state.                           *)
THEOREM Invariance == Spec => []IInv
  BY IInvInit, IInvStep, DeliveryAssumption, PTL DEF Spec

(* Sizes, counters and the file region keep their types; in particular no  *)
(* offset passes the end of the file.                                      *)
THEOREM TypeCorrect == Spec => []TypeOK
  <1>1. IInv => TypeOK
    BY DEF IInv
  <1>2. QED
    BY <1>1, Invariance, PTL

(* The client gets the bytes of the response in order, none twice, none    *)
(* left out, however often write() had to come back.                       *)
THEOREM BytesInOrder == Spec => []InOrder
  <1>1. IInv => InOrder
    BY DEF IInv
  <1>2. QED
    BY <1>1, Invariance, PTL

-----------------------------------------------------------------------------
(* COMPLETE and the abstract stream                                        *)

LEMMA NothingLeft ==
  ASSUME DeliveryAssumption, IInv, writing # "none", ~BufferLeft, ~FileLeft
  PROVE  Len(wire) = ResponseLength
  <1>1. TypeOK /\ Accounting
    BY DEF IInv
  <1>2. /\ file.offset \in Nat /\ promised.file.offset \in Nat
        /\ file.remaining \in Int /\ promised.file.remaining \in Int
        /\ bytesWritten \in Nat /\ writeBuffer \in Nat
        /\ file.valid \in BOOLEAN
    BY <1>1 DEF TypeOK, FileRegions, DeliveryAssumption
  <1>3. bytesWritten = promised.buffer
    BY <1>1, <1>2 DEF BufferLeft, Accounting
  <1>4. file.offset - promised.file.offset = FileBytes
    BY SMTT(60), <1>1, <1>2 DEF Accounting, FileLeft, FileBytes, Positive
  <1>5. QED
    BY <1>1, <1>3, <1>4 DEF Accounting, ResponseLength

(* COMPLETE is said only of a response that is out to its last byte, also  *)
(* when the file became shorter on the way.                                *)
THEOREM CompletesWhole == Spec => []CompleteIsWhole
  <1>1. IInv => CompleteIsWhole
    <2> SUFFICES ASSUME IInv, result = "COMPLETE" PROVE Len(wire) = ResponseLength
      BY DEF CompleteIsWhole
    <2>1. writing # "none" /\ ~BufferLeft /\ ~FileLeft
      BY DEF IInv, Before, Order
    <2>2. QED
      BY <2>1, NothingLeft, DeliveryAssumption
  <1>2. QED
    BY <1>1, Invariance, PTL

(* ResponseLength is a number, and fixed from setResponse on.              *)
LEMMA LengthType == ASSUME DeliveryAssumption, TypeOK PROVE ResponseLength \in Nat
  BY DEF DeliveryAssumption, TypeOK, FileRegions, ResponseLength, FileBytes, Positive

LEMMA LengthFixed == UNCHANGED promised => UNCHANGED ResponseLength
  BY DEF ResponseLength, FileBytes, Positive

LEMMA StreamInit == Init => Stream!Init
  BY EmptySeq DEF Init, Stream!Init, ResponseLength, FileBytes, NoRegion, streamState

LEMMA Longer ==
  ASSUME wire \in Seq(Bytes), NEW from \in {"buffer", "file"}, NEW at \in Nat,
         NEW n \in Nat, wire' = wire \o Piece(from, at, n)
  PROVE  Len(wire') >= Len(wire)
  <1>1. PICK p \in Seq(Bytes) : p = Piece(from, at, n)
    BY PieceIsASeq
  <1>2. Len(wire') = Len(wire) + Len(p)
    BY <1>1, Appended
  <1>3. Len(wire) \in Nat /\ Len(p) \in Nat
    BY <1>1, LenProperties
  <1>4. QED
    BY <1>2, <1>3

(* Bytes that left make the stream grow, or break with them.               *)
LEMMA BytesLeave ==
  ASSUME DeliveryAssumption, IInv, IInv', writing # "none",
         Send \/ \E n \in Available : Transfer(n)
  PROVE  Len(wire') >= Len(wire)
  <1>1. TypeOK
    BY DEF IInv
  <1>2. wire \in Seq(Bytes) /\ "buffer" \in {"buffer", "file"} /\ "file" \in {"buffer", "file"}
    BY <1>1 DEF TypeOK
  <1>3. CASE Send
    <2>1. PICK n \in 1..Unsent : wire' = wire \o Piece("buffer", bytesWritten, n)
      BY <1>3 DEF Send
    <2>2. bytesWritten \in Nat /\ n \in Nat
      BY <1>1, <2>1 DEF TypeOK, DeliveryAssumption, Unsent
    <2>3. QED
      BY <1>2, <2>1, <2>2, Longer
  <1>4. CASE \E n \in Available : Transfer(n)
    <2>1. PICK n \in Available : wire' = wire \o Piece("file", file.offset, n)
      BY <1>4 DEF Transfer
    <2>2. PICK at \in Nat : at = file.offset
      BY <1>1 DEF TypeOK, FileRegions, DeliveryAssumption
    <2>3. n \in Nat
      BY <1>1, <2>1 DEF Available, TypeOK, FileRegions, DeliveryAssumption
    <2>4. wire' = wire \o Piece("file", at, n)
      BY <2>1, <2>2
    <2>5. QED
      BY <1>2, <2>3, <2>4, Longer
  <1>5. QED
    BY <1>3, <1>4

LEMMA WriteIsAStreamStep ==
  ASSUME DeliveryAssumption, IInv, Write, IInv'
  PROVE  Stream!Next \/ UNCHANGED Stream!vars
  <1> USE DEF GoTo, Finish
  <1>1. UNCHANGED promised /\ writing # "none"
    BY DEF Write, Writable, Sweep, Send, SendWouldBlock, SendFails, BufferOut,
       SendFile, SendFileEnds, SendFileWouldBlock, SendFileFails, FileOut
  <1>2. ResponseLength' = ResponseLength /\ ResponseLength \in Nat
    BY <1>1, LengthFixed, LengthType DEF IInv
  <1>3. /\ Len(wire) \in Nat /\ Len(wire') \in Nat
        /\ Len(wire) <= ResponseLength /\ Len(wire') <= ResponseLength
    <2>1. wire \in Seq(Bytes) /\ wire' \in Seq(Bytes)
      BY DEF IInv, TypeOK
    <2>2. Len(wire) \in Nat /\ Len(wire') \in Nat
      BY <2>1, LenProperties
    <2>3. QED
      BY <1>2, <2>2 DEF IInv, InOrder
  <1>4. result = "COMPLETE" => writing = "closed"
    BY <1>1 DEF IInv, Order
  <1>5. wire' = wire => Len(wire') >= Len(wire)
    BY <1>3
  <1> DEFINE grows == Len(wire') >= Len(wire)
             wasOpen == streamState = "open"
             staysOpen == streamState' = "open"
             breaks == streamState' = "broken"
  <1>6. grows /\ wasOpen /\ staysOpen => Stream!Next
    BY <1>2, <1>3 DEF Stream!Next, Stream!Grow
  <1>7. grows /\ wasOpen /\ breaks => Stream!Next
    BY <1>2, <1>3 DEF Stream!Next, Stream!Break
  <1> HIDE DEF grows
  <1>8. writing \in {"waiting", "buffer", "file"} => wasOpen
    BY DEF streamState
  <1>9. writing' \in {"waiting", "buffer", "file"} => staysOpen
    BY DEF streamState
  <1>10. writing' = "closed" /\ result' = "CLOSED" => breaks
    BY DEF streamState
  <1> HIDE DEF wasOpen, staysOpen, breaks
  <1>11. CASE wire' = wire /\ ~FileOut
    <2>1. grows
      BY <1>5, <1>11 DEF grows
    <2>2. writing \in {"waiting", "buffer", "file"}
      BY DEF Write, Writable, Sweep, Send, SendWouldBlock, SendFails, BufferOut,
         SendFile, SendFileEnds, SendFileWouldBlock, SendFileFails, FileOut
    <2>3. \/ writing' \in {"waiting", "buffer", "file"}
          \/ writing' = "closed" /\ result' = "CLOSED"
      BY <1>11 DEF Write, Writable, Sweep, Send, SendWouldBlock, SendFails, BufferOut,
         SendFile, SendFileEnds, SendFileWouldBlock, SendFileFails
    <2>4. QED
      BY <1>6, <1>7, <1>8, <1>9, <1>10, <2>1, <2>2, <2>3
  <1>12. CASE FileOut
    <2>1. /\ writing = "file" /\ ~FileLeft /\ writing' = "closed"
          /\ result' = "COMPLETE" /\ wire' = wire
      BY <1>12 DEF FileOut
    <2>2. ~BufferLeft
      BY <2>1 DEF IInv, Order
    <2>3. Len(wire) = ResponseLength
      BY <2>1, <2>2, NothingLeft
    <2>4. streamState = "open" /\ streamState' = "complete"
      BY <2>1 DEF streamState
    <2>5. QED
      BY <1>2, <2>1, <2>3, <2>4 DEF Stream!Next, Stream!Complete
  <1>13. CASE wire' # wire
    <2>1. /\ writing \in {"buffer", "file"}
          /\ Send \/ \E n \in Available : Transfer(n)
      BY <1>13 DEF Write, Writable, Sweep, SendWouldBlock, SendFails, BufferOut, Send,
         SendFile, SendFileEnds, SendFileWouldBlock, SendFileFails, FileOut
    <2>2. grows
      BY <1>1, <2>1, BytesLeave DEF grows
    <2>3. \/ writing' \in {"waiting", "buffer", "file"}
          \/ writing' = "closed" /\ result' = "CLOSED"
      BY <1>13 DEF Write, Writable, Sweep, Send, SendWouldBlock, SendFails, BufferOut,
         SendFile, SendFileEnds, SendFileWouldBlock, SendFileFails, FileOut
    <2>4. QED
      BY <1>6, <1>7, <1>8, <1>9, <1>10, <2>1, <2>2, <2>3
  <1>14. QED
    BY <1>11, <1>12, <1>13

LEMMA SetResponseBegins ==
  ASSUME DeliveryAssumption, IInv, IInv',
         NEW size \in 0..MaxBuffer, NEW region \in Regions, SetResponse(size, region)
  PROVE  Stream!Begin
  <1>1. writing = "none" /\ writing' = "waiting" /\ wire' = wire
    BY DEF SetResponse
  <1>2. wire' = <<>>
    BY <1>1 DEF IInv, Before
  <1>3. Len(wire') = 0
    BY <1>2, EmptySeq
  <1>4. streamState = "none" /\ streamState' = "open"
    BY <1>1 DEF streamState
  <1>5. TypeOK'
    BY DEF IInv
  <1>6. promised'.buffer \in Nat /\ FileBytes' \in Nat
    BY <1>5 DEF TypeOK, FileRegions, DeliveryAssumption, FileBytes, Positive
  <1>7. ResponseLength' \in Nat
    BY <1>6 DEF ResponseLength
  <1>8. QED
    BY <1>3, <1>4, <1>7 DEF Stream!Begin

LEMMA StepIsAStreamStep ==
  ASSUME DeliveryAssumption, IInv, [Next]_vars
  PROVE  [Stream!Next]_(Stream!vars)
  <1>1. IInv'
    BY IInvStep
  <1>2. CASE \E size \in 0..MaxBuffer, region \in Regions : SetResponse(size, region)
    BY <1>1, <1>2, SetResponseBegins DEF Stream!Next
  <1>3. CASE Write
    BY <1>1, <1>3, WriteIsAStreamStep
  <1>4. CASE Truncate \/ UNCHANGED vars
    <2>1. UNCHANGED <<promised, wire, writing, result>>
      BY <1>4 DEF Truncate
    <2>2. UNCHANGED ResponseLength
      BY <2>1, LengthFixed
    <2>3. UNCHANGED streamState
      BY <2>1 DEF streamState
    <2>4. QED
      BY <2>1, <2>2, <2>3 DEF Stream!vars
  <1>5. QED
    BY <1>2, <1>3, <1>4 DEF Next

(* The writing half implements the byte stream a client sees: one that     *)
(* only grows, up to a length fixed when it begins, and is complete exactly*)
(* when it has grown to it.                                                *)
THEOREM Refinement == Spec => RefinesStream
  <1>1. IInv /\ [Next]_vars => [Stream!Next]_(Stream!vars)
    BY StepIsAStreamStep, DeliveryAssumption
  <1>2. QED
    BY <1>1, StreamInit, Invariance, PTL DEF Spec, RefinesStream, Stream!Spec

=============================================================================

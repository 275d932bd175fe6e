-------------------------- MODULE DeliveryInvariant --------------------------
(***************************************************************************)
(* The inductive invariant of Delivery, which the configurations check and *)
(* DeliveryProofs proves.                                                  *)
(***************************************************************************)
EXTENDS Delivery

(* Nothing is promised, and nothing leaves, before setResponse.            *)
Before ==
  /\ wire = <<>>
  /\ promised = [buffer |-> 0, file |-> NoRegion]
  /\ result = "PENDING"

(* The counters account for every byte of the response: what is left and   *)
(* what is out.  A region with a negative length is never touched.         *)
Accounting ==
  /\ writeBuffer = promised.buffer
  /\ bytesWritten <= writeBuffer
  /\ file.valid = promised.file.valid
  /\ file.offset >= promised.file.offset
  /\ file.offset + file.remaining = promised.file.offset + promised.file.remaining
  /\ file.offset # promised.file.offset => file.valid /\ file.remaining >= 0
  /\ Len(wire) = bytesWritten + (file.offset - promised.file.offset)

(* The file follows the buffer, and COMPLETE is said when both are out.    *)
Order ==
  /\ file.offset # promised.file.offset \/ writing = "file" => ~BufferLeft
  /\ result = "COMPLETE" => writing = "closed" /\ ~BufferLeft /\ ~FileLeft

IInv ==
  /\ TypeOK
  /\ writing = "none" => Before
  /\ writing # "none" => Accounting /\ Order
  /\ InOrder

=============================================================================

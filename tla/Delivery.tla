------------------------------ MODULE Delivery ------------------------------
(***************************************************************************)
(* The writing half of Connection (src/core/io/connection.cpp): a response *)
(* is a buffer and, perhaps, a slice of an open file.  The event loop      *)
(* calls write() whenever the socket takes more; write() sends as much as  *)
(* it can, may be told to come back in the middle of either part, and the  *)
(* file may become shorter meanwhile.  Bytes carry where they come from,   *)
(* so that order, gaps and repetitions show.                               *)
(***************************************************************************)
EXTENDS Integers, Sequences

CONSTANTS
  MaxBuffer,   \* bound on the size of a buffer
  MaxFile,     \* bound on the size of a file
  Apple        \* which of the two sendfile() branches is compiled

ASSUME DeliveryAssumption ==
  MaxBuffer \in Nat /\ MaxFile \in Nat /\ Apple \in BOOLEAN

VARIABLES
  writeBuffer,   \* size of Connection::writeBuffer
  bytesWritten,
  file,          \* Connection::file
  writing,       \* where write() is: see WriteStages
  result,        \* IOResult of the last write(), "CLOSED" also for the sweep
  fileSize,      \* current size of the file on disk
  wire,          \* what the socket has taken, byte by byte
  promised       \* what setResponse was given (history)

vars == <<writeBuffer, bytesWritten, file, writing, result, fileSize, wire, promised>>

(* none: no response yet; waiting: for the socket to become writable;      *)
(* buffer, file: in flushBuffer, flushFile; closed: closeConnection ran.   *)
WriteStages == {"none", "waiting", "buffer", "file", "closed"}
Results == {"PENDING", "COMPLETE", "CLOSED"}

FileRegions == [valid : BOOLEAN, offset : 0..MaxFile, remaining : -MaxFile..MaxFile]
NoRegion == [valid |-> FALSE, offset |-> 0, remaining |-> 0]

Bytes == [from : {"buffer", "file"}, at : Nat]
Piece(from, at, n) == [i \in 1..n |-> [from |-> from, at |-> at + i]]

TypeOK ==
  /\ writeBuffer \in 0..MaxBuffer
  /\ bytesWritten \in 0..MaxBuffer
  /\ file \in FileRegions
  /\ writing \in WriteStages
  /\ result \in Results
  /\ fileSize \in 0..MaxFile
  /\ wire \in Seq(Bytes)
  /\ promised \in [buffer : 0..MaxBuffer, file : FileRegions]

Init ==
  /\ writeBuffer = 0
  /\ bytesWritten = 0
  /\ file = NoRegion
  /\ writing = "none"
  /\ result = "PENDING"
  /\ fileSize = MaxFile
  /\ wire = <<>>
  /\ promised = [buffer |-> 0, file |-> NoRegion]

-----------------------------------------------------------------------------
(* Connection::setResponse                                                 *)
SetResponse(size, region) ==
  /\ writing = "none"
  /\ writeBuffer' = size
  /\ bytesWritten' = 0
  /\ file' = region
  /\ writing' = "waiting"
  /\ promised' = [buffer |-> size, file |-> region]
  /\ UNCHANGED <<result, fileSize, wire>>

GoTo(from, to) == writing = from /\ writing' = to

Finish(from, outcome) ==
  /\ GoTo(from, "closed")
  /\ result' = outcome

(* handleWritable: the socket takes more, write() begins.                  *)
Writable ==
  /\ GoTo("waiting", "buffer")
  /\ UNCHANGED <<writeBuffer, bytesWritten, file, result, fileSize, wire, promised>>

(* closeIdleConnections gives up on a client that does not read.           *)
Sweep ==
  /\ Finish("waiting", "CLOSED")
  /\ UNCHANGED <<writeBuffer, bytesWritten, file, fileSize, wire, promised>>

-----------------------------------------------------------------------------
(* Connection::flushBuffer.  EINTR only goes round the loop.               *)

BufferLeft == bytesWritten < writeBuffer

(* Bug: send() is given the whole size, though part of it is out.          *)
Unsent_All == writeBuffer

(* How many bytes send() is asked to take.                                 *)
Unsent == writeBuffer - bytesWritten

Send ==
  /\ writing = "buffer"
  /\ BufferLeft
  /\ \E n \in 1..Unsent :
       /\ wire' = wire \o Piece("buffer", bytesWritten, n)
       /\ bytesWritten' = bytesWritten + n
  /\ UNCHANGED <<writeBuffer, file, writing, result, fileSize, promised>>

(* Bug: flushBuffer starts over after a PENDING.                           *)
SendWouldBlock_Restart ==
  /\ BufferLeft
  /\ GoTo("buffer", "waiting")
  /\ result' = "PENDING"
  /\ bytesWritten' = 0
  /\ UNCHANGED <<writeBuffer, file, fileSize, wire, promised>>

SendWouldBlock ==
  /\ BufferLeft
  /\ GoTo("buffer", "waiting")
  /\ result' = "PENDING"
  /\ UNCHANGED <<writeBuffer, bytesWritten, file, fileSize, wire, promised>>

SendFails ==
  /\ BufferLeft
  /\ Finish("buffer", "CLOSED")
  /\ UNCHANGED <<writeBuffer, bytesWritten, file, fileSize, wire, promised>>

BufferOut ==
  /\ ~BufferLeft
  /\ GoTo("buffer", "file")
  /\ UNCHANGED <<writeBuffer, bytesWritten, file, result, fileSize, wire, promised>>

-----------------------------------------------------------------------------
(* Connection::flushFile                                                   *)

FileLeft == file.valid /\ file.remaining > 0

(* What one sendfile() can take: the file may be shorter than promised.    *)
Available ==
  {n \in 1..file.remaining : file.offset + n <= fileSize}

(* Bug: remaining is not reduced with the offset.                          *)
Advanced_OffsetOnly(n) == [file EXCEPT !.offset = @ + n]

Advanced(n) == [file EXCEPT !.offset = @ + n, !.remaining = @ - n]

(* n bytes leave; on Linux the kernel moves the offset, on macOS the code. *)
Transfer(n) ==
  /\ wire' = wire \o Piece("file", file.offset, n)
  /\ file' = Advanced(n)

SendFile ==
  /\ writing = "file"
  /\ FileLeft
  /\ \E n \in Available : Transfer(n)
  /\ UNCHANGED <<writeBuffer, bytesWritten, writing, result, fileSize, promised>>

(* Bug: a file that ended early is taken for a file that was sent.         *)
SendFileEnds_Complete ==
  /\ FileLeft
  /\ Available = {}
  /\ Finish("file", "COMPLETE")
  /\ UNCHANGED <<writeBuffer, bytesWritten, file, fileSize, wire, promised>>

(* Bug: sendfile() is simply called again when it returns 0.               *)
SendFileEnds_Retry ==
  /\ writing = "file"
  /\ FileLeft
  /\ Available = {}
  /\ UNCHANGED vars

SendFileEnds ==
  /\ FileLeft
  /\ Available = {}
  /\ Finish("file", "CLOSED")
  /\ UNCHANGED <<writeBuffer, bytesWritten, file, fileSize, wire, promised>>

(* EAGAIN: on Linux nothing was sent; macOS reports what was sent with it. *)
SendFileWouldBlock ==
  /\ FileLeft
  /\ GoTo("file", "waiting")
  /\ result' = "PENDING"
  /\ \/ UNCHANGED <<file, wire>>
     \/ Apple /\ \E n \in Available : Transfer(n)
  /\ UNCHANGED <<writeBuffer, bytesWritten, fileSize, promised>>

SendFileFails ==
  /\ FileLeft
  /\ Finish("file", "CLOSED")
  /\ \/ UNCHANGED <<file, wire>>
     \/ Apple /\ \E n \in Available : Transfer(n)
  /\ UNCHANGED <<writeBuffer, bytesWritten, fileSize, promised>>

FileOut ==
  /\ ~FileLeft
  /\ Finish("file", "COMPLETE")
  /\ UNCHANGED <<writeBuffer, bytesWritten, file, fileSize, wire, promised>>

-----------------------------------------------------------------------------
(* Somebody else truncates the file.                                       *)
Truncate ==
  /\ \E n \in 0..MaxFile : n < fileSize /\ fileSize' = n
  /\ UNCHANGED <<writeBuffer, bytesWritten, file, writing, result, wire, promised>>

Write ==
  \/ Writable \/ Sweep
  \/ Send \/ SendWouldBlock \/ SendFails \/ BufferOut
  \/ SendFile \/ SendFileEnds \/ SendFileWouldBlock \/ SendFileFails \/ FileOut

(* Any response a worker may store: see module Response.                   *)
Regions == {NoRegion} \cup {r \in FileRegions : r.valid /\ r.offset + r.remaining <= MaxFile}

Next ==
  \/ \E size \in 0..MaxBuffer, region \in Regions : SetResponse(size, region)
  \/ Write
  \/ Truncate

Spec == Init /\ [][Next]_vars

(* The event loop keeps running (weak fairness), and the client keeps      *)
(* reading, so that EAGAIN is not all that send() and sendfile() ever say. *)
Fairness ==
  /\ WF_vars(Write)
  /\ SF_vars(Send) /\ SF_vars(SendFile) /\ SF_vars(SendFileEnds)
FairSpec == Spec /\ Fairness

-----------------------------------------------------------------------------
(* Properties                                                              *)

Positive(n) == IF n > 0 THEN n ELSE 0

(* The response: the buffer, then the slice of the file.                   *)
FileBytes == IF promised.file.valid THEN Positive(promised.file.remaining) ELSE 0
ResponseLength == promised.buffer + FileBytes
ResponseByte(i) ==
  IF i <= promised.buffer
  THEN [from |-> "buffer", at |-> i]
  ELSE [from |-> "file", at |-> promised.file.offset + (i - promised.buffer)]

(* However often write() is interrupted, and in whichever part, the client *)
(* gets the response's bytes in order, none twice, none left out, and none *)
(* beyond the slice (flushBuffer, flushFile).                              *)
InOrder ==
  /\ Len(wire) <= ResponseLength
  /\ \A i \in 1..Len(wire) : wire[i] = ResponseByte(i)

(* COMPLETE means that the client got all of it, even when the file became *)
(* shorter: connection.cpp:140 "the response cannot be completed".         *)
CompleteIsWhole == result = "COMPLETE" => Len(wire) = ResponseLength

(* The write side implements the byte stream a client sees.                *)
streamState ==
  CASE writing = "none" -> "none"
    [] writing = "closed" /\ result = "COMPLETE" -> "complete"
    [] writing = "closed" /\ result # "COMPLETE" -> "broken"
    [] OTHER -> "open"

Stream == INSTANCE ByteStream
  WITH total <- ResponseLength, sent <- Len(wire), state <- streamState

RefinesStream == Stream!Spec

(* A client that reads gets to the end of its response, or learns that it  *)
(* will not: write() never goes round without sending, not even when the   *)
(* file ends early or offset and remaining disagree.                       *)
ResponseEnds == writing # "none" ~> writing = "closed"

=============================================================================

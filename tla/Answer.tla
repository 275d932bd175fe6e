------------------------------- MODULE Answer -------------------------------
(***************************************************************************)
(* A response from the first call of the handler to the last byte: a       *)
(* worker makes it (module Response), processRequest hands it to the       *)
(* Connection, and the event loop writes it (module Delivery).  The file a *)
(* handler measures in sendFile is the file that sendfile() reads later,   *)
(* and it may become shorter at any time.                                  *)
(***************************************************************************)
EXTENDS Integers, Sequences

CONSTANTS
  MaxCalls, MaxMessage, MaxFile,   \* of Response, MaxFile also of Delivery
  MaxBuffer, Apple                 \* of Delivery

(* The bound on a buffer must not cut off a response: a sendFiles that     *)
(* fails adds two bytes at most, and the end a header and the message.     *)
ASSUME AnswerAssumption ==
  /\ MaxCalls \in Nat /\ MaxMessage \in Nat /\ MaxFile \in Nat
  /\ MaxBuffer \in Nat /\ 2 * MaxCalls + 1 + MaxMessage <= MaxBuffer
  /\ Apple \in BOOLEAN

VARIABLES
  hasEnded, status, message, contentLength, chunked, data, region, stage,
  calls, zipFailed,                                       \* of Response
  writeBuffer, bytesWritten, file, writing, result, fileSize, wire, promised
                                                          \* of Delivery

Worker == INSTANCE Response
Loop == INSTANCE Delivery

workerVars == <<hasEnded, status, message, contentLength, chunked, data, region,
                stage, calls, zipFailed>>
loopVars == <<writeBuffer, bytesWritten, file, writing, result, fileSize, wire,
              promised>>
vars == <<workerVars, loopVars>>

Init == Worker!Init /\ Loop!Init

HandlerStep ==
  /\ Worker!HandlerCall(fileSize)
  /\ UNCHANGED loopVars

(* The end of processRequest: end(), takeData(), takeFileRegion() and      *)
(* Connection::setResponse.                                                *)
Respond ==
  /\ Worker!Return \/ Worker!Throw
  /\ Loop!SetResponse(Len(data'), region')

(* An exception that processRequest does not catch.                        *)
Escape ==
  /\ Worker!Escape
  /\ UNCHANGED loopVars

LoopStep ==
  /\ Loop!Write
  /\ UNCHANGED workerVars

FileShrinks ==
  /\ Loop!Truncate
  /\ UNCHANGED workerVars

Next == HandlerStep \/ Respond \/ Escape \/ LoopStep \/ FileShrinks

Spec == Init /\ [][Next]_vars

-----------------------------------------------------------------------------
(* Properties                                                              *)

Framed == stage = "taken" /\ ~zipFailed /\ Worker!RegionIsASlice
HasLength == Framed /\ ~data[1].chunked
HeaderSize == 1

(* A client that counts the bytes of the body against content-length is    *)
(* never wrong: it has counted them all exactly when the server has sent   *)
(* all it will send, whatever the handler called, however the writes were  *)
(* split and whether or not the file became shorter meanwhile              *)
(* (response.cpp:80-133 with connection.cpp:91-167).                       *)
ClientCanTell ==
  HasLength /\ Len(wire) >= HeaderSize =>
    /\ \A n \in data[1].length :
         /\ Len(wire) - HeaderSize <= n
         /\ Len(wire) - HeaderSize = n <=> ~Loop!BufferLeft /\ ~Loop!FileLeft
    /\ writing = "closed" /\ result = "COMPLETE" =>
         data[1].length = {Len(wire) - HeaderSize}

(* What processRequest hands over is what the writing half was made for:   *)
(* a region that lay within the file, handed over once, and no change to   *)
(* it while it is being written.                                           *)
KeepsTheContract == Loop!Spec

(* A client that gets anything gets a status line first, and only from a   *)
(* handler that returned or threw a std::exception: nothing of a response  *)
(* leaves while its handler runs, or after it was lost (server.cpp:211-226).*)
StatusLineFirst ==
  /\ Worker!StatusLineFirst
  /\ wire # <<>> => stage = "taken"

(* The worker's half alone: see module Response for what these say.        *)
OneHeader == Worker!OneHeader
FramingHonest == Worker!FramingHonest
EndedIsFinal == Worker!EndedIsFinal

=============================================================================

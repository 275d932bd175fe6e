------------------------------ MODULE Response ------------------------------
(***************************************************************************)
(* A response while a worker makes it (src/messages/response.cpp): a       *)
(* handler may call the operations of class Response in any order, as      *)
(* often as it likes, and return or throw between any two of them; then    *)
(* Server::processRequest ends the response and takes it apart.  What      *)
(* counts here is how the response is framed: where its header is, which   *)
(* length the header announces and which bytes follow.                     *)
(*                                                                         *)
(* A message is its length.  Of the headers only the two that frame the    *)
(* body are kept, "content-length" and "transfer-encoding: chunked"; a     *)
(* handler is taken not to set() these two by hand.                        *)
(***************************************************************************)
EXTENDS Integers, Sequences

CONSTANTS
  MaxCalls,     \* bound on the calls a handler makes
  MaxMessage,   \* bound on the length of a message
  MaxFile       \* bound on the size of a file

VARIABLES
  hasEnded, status, message,     \* Response's members
  contentLength, chunked,        \* of its `headers'
  data,                          \* its `data', byte by byte
  region,                        \* its `file'
  stage,                         \* "handling", then "taken" by processRequest,
                                 \* or "lost" to an exception it does not catch
  calls,                         \* calls so far
  zipFailed                      \* did an exception leave sendFiles? (history)

vars == <<hasEnded, status, message, contentLength, chunked, data, region,
          stage, calls, zipFailed>>

Bounds == MaxCalls \in Nat /\ MaxMessage \in Nat /\ MaxFile \in Nat

(* enums::STATUS_CODE: the codes the program itself uses.                  *)
OK == 200
PARTIAL_CONTENT == 206
BAD_REQUEST == 400
FORBIDDEN == 403
NOT_FOUND == 404
RANGE_NOT_SATISFIABLE == 416
STATUS_CODE ==
  {OK, PARTIAL_CONTENT, BAD_REQUEST, FORBIDDEN, NOT_FOUND,
   RANGE_NOT_SATISFIABLE}

(* The value of the content-length header: {} when there is none, else {n}.*)
Unset == {}
Lengths == {Unset} \cup {{n} : n \in -MaxFile..(MaxFile + MaxMessage)}

FileRegions ==
  [valid : BOOLEAN, offset : 0..MaxFile, remaining : -MaxFile..MaxFile]
NoRegion == [valid |-> FALSE, offset |-> 0, remaining |-> 0]
Region(offset, remaining) ==
  [valid |-> TRUE, offset |-> offset, remaining |-> remaining]

(* A byte of `data' tells what it belongs to.  A header is one byte, and   *)
(* so are a chunk and the last chunk; a message has as many as it is long. *)
Header(code, length, isChunked) ==
  [kind |-> "header", status |-> code, length |-> length, chunked |-> isChunked]
IsHeader(byte) == byte.kind = "header"
Body(length) == [i \in 1..length |-> [kind |-> "message"]]

Headers ==
  [kind : {"header"}, status : STATUS_CODE, length : Lengths, chunked : BOOLEAN]
Bytes == Headers \cup [kind : {"message", "chunk", "end"}]

TypeOK ==
  /\ hasEnded \in BOOLEAN /\ chunked \in BOOLEAN /\ zipFailed \in BOOLEAN
  /\ status \in STATUS_CODE
  /\ message \in 0..MaxMessage
  /\ contentLength \in Lengths
  /\ data \in Seq(Bytes)
  /\ region \in FileRegions
  /\ stage \in {"handling", "taken", "lost"}
  /\ calls \in 0..MaxCalls

(* Response::Response                                                      *)
Init ==
  /\ hasEnded = FALSE
  /\ status = OK
  /\ message = 0
  /\ contentLength = Unset
  /\ chunked = FALSE
  /\ data = <<>>
  /\ region = NoRegion
  /\ stage = "handling"
  /\ calls = 0
  /\ zipFailed = FALSE

-----------------------------------------------------------------------------
(* status(code).send(text).end() of a length, when not ended yet.          *)
EndWith(code, length) ==
  /\ status' = code
  /\ message' = length
  /\ contentLength' = {length}
  /\ data' = data \o <<Header(code, {length}, chunked)>> \o Body(length)
  /\ hasEnded' = TRUE
  /\ UNCHANGED <<chunked, region>>

(* One call by the handler.                                                *)
Call ==
  /\ stage = "handling"
  /\ calls < MaxCalls
  /\ calls' = calls + 1
  /\ stage' = stage

Ignored ==
  UNCHANGED <<hasEnded, status, message, contentLength, chunked, data, region>>

SetStatus(code) ==
  /\ Call
  /\ status' = code
  /\ UNCHANGED <<hasEnded, message, contentLength, chunked, data, region,
                 zipFailed>>

(* send and json: the text so far is replaced, ended or not.               *)
Send(length) ==
  /\ Call
  /\ message' = length
  /\ UNCHANGED <<hasEnded, status, contentLength, chunked, data, region,
                 zipFailed>>

(* Bug: end() without its guard.                                           *)
Ended_Again == EndWith(status, message)

(* end(): also what processRequest calls last.                             *)
Ended ==
  IF hasEnded THEN Ignored ELSE EndWith(status, message)

End == Call /\ Ended /\ UNCHANGED zipFailed

(* status(code).send(text).end(), as in sendNotFound, sendInvalidRange and *)
(* after a middleware's refusal; the texts have MaxMessage bytes.          *)
Refused(code) ==
  IF hasEnded
  THEN /\ status' = code
       /\ message' = MaxMessage
       /\ UNCHANGED <<hasEnded, contentLength, chunked, data, region>>
  ELSE EndWith(code, MaxMessage)

Reply(code) == Call /\ Refused(code) /\ UNCHANGED zipFailed
SendNotFound == Reply(NOT_FOUND)
SendInvalidRange == Reply(RANGE_NOT_SATISFIABLE)

-----------------------------------------------------------------------------
(* Response::sendFile.  -1 stands for a limit the caller did not give; the *)
(* values are those of StaticServe::getRange, which reads them off a Range *)
(* header: nothing relates start to end.                                   *)

IsPartial(start, end) == start >= 0 \/ end >= 0
FirstByte(start) == IF start < 0 THEN 0 ELSE start
LastByte(end, size) == IF end < 0 THEN size - 1 ELSE end

(* Bug: only one limit is compared with the file's size.                   *)
InRange_StartOnly(start, end, size) == start < size
InRange(start, end, size) == start < size /\ end < size

PromisedLength(start, end, size) ==
  IF IsPartial(start, end)
  THEN LastByte(end, size) - FirstByte(start) + 1
  ELSE size

(* Bug: `end' taken for the position after the last byte.                  *)
Slice_Short(start, end, size) ==
  Region(FirstByte(start), LastByte(end, size) - FirstByte(start))
Slice(start, end, size) ==
  Region(FirstByte(start), LastByte(end, size) - FirstByte(start) + 1)

SendSlice(start, end, size) ==
  LET code == IF IsPartial(start, end) THEN PARTIAL_CONTENT ELSE status
      length == {PromisedLength(start, end, size)}
  IN  /\ status' = code
      /\ contentLength' = length
      /\ data' = Append(data, Header(code, length, chunked))
      /\ region' = Slice(start, end, size)
      /\ hasEnded' = TRUE
      /\ UNCHANGED <<message, chunked>>

(* Refused(NOT_FOUND): there is no such file, or open() fails.             *)
SendFile(size, start, end) ==
  /\ Call
  /\ UNCHANGED zipFailed
  /\ \/ hasEnded /\ Ignored
     \/ ~hasEnded /\ Refused(NOT_FOUND)
     \/ ~hasEnded /\ ~InRange(start, end, size) /\ Refused(RANGE_NOT_SATISFIABLE)
     \/ ~hasEnded /\ InRange(start, end, size) /\ SendSlice(start, end, size)

-----------------------------------------------------------------------------
(* Response::sendFiles.  The archive is read after the header went into    *)
(* `data'; an exception from it, or the one logger::error throws for it,   *)
(* leaves the response unended with what it has got so far.                *)

ChunkedHeader == Append(data, Header(status, Unset, TRUE))
Chunks == <<[kind |-> "chunk"]>>
LastChunk == <<[kind |-> "end"]>>

SendFiles ==
  /\ Call
  /\ IF hasEnded
     THEN Ignored /\ UNCHANGED zipFailed
     ELSE /\ contentLength' = Unset
          /\ chunked' = TRUE
          /\ \/ /\ data' = ChunkedHeader \o Chunks \o LastChunk
                /\ hasEnded' = TRUE
                /\ zipFailed' = zipFailed
             \/ /\ \E part \in {<<>>, Chunks} : data' = ChunkedHeader \o part
                /\ hasEnded' = FALSE
                /\ zipFailed' = TRUE
          /\ UNCHANGED <<status, message, region>>

-----------------------------------------------------------------------------
(* The rest of Server::processRequest, after the handler returned or threw *)
(* a std::exception.  takeData and takeFileRegion move `data' and `region' *)
(* to the Connection; they stay visible here.                              *)

Take == stage = "handling" /\ stage' = "taken"

(* Bug: processRequest leaves it to the handler to call end().             *)
Return_NoEnd ==
  /\ Take
  /\ Ignored
  /\ UNCHANGED <<calls, zipFailed>>

Return ==
  /\ Take
  /\ Ended
  /\ UNCHANGED <<calls, zipFailed>>

(* A std::exception: status(BAD_REQUEST).send("Bad Request"), then end().  *)
Throw ==
  /\ Take
  /\ Refused(BAD_REQUEST)
  /\ UNCHANGED <<calls, zipFailed>>

(* Whatever else a handler may throw leaves processRequest (it catches     *)
(* nothing but std::exception): no end(), nothing is taken, and the        *)
(* connection is never given back.  What the pool makes of it is not in    *)
(* this repository.                                                        *)
Escape ==
  /\ stage = "handling" /\ stage' = "lost"
  /\ Ignored
  /\ UNCHANGED <<calls, zipFailed>>

HandlerCall(size) ==
  \/ \E code \in STATUS_CODE : SetStatus(code)
  \/ \E length \in 0..MaxMessage : Send(length)
  \/ End \/ SendNotFound \/ SendInvalidRange
  \/ \E start, end \in -1..MaxFile : SendFile(size, start, end)
  \/ SendFiles

Next ==
  \/ \E size \in 0..MaxFile : HandlerCall(size)
  \/ Return
  \/ Throw
  \/ Escape

Spec == Init /\ [][Next]_vars

-----------------------------------------------------------------------------
(* Properties                                                              *)

BodyInMemory == Len(data) - 1
BodyInFile == IF region.valid THEN region.remaining ELSE 0

(* A file region is, file_region.h:9, "a slice of an open file that still  *)
(* has to be streamed to a client": it has no negative length.             *)
RegionIsASlice == region.valid => region.remaining >= 0

(* Whatever a handler calls, and wherever it throws, the client gets one   *)
(* header, and it comes first.  An exception out of sendFiles is the only  *)
(* way to a second one (response.cpp:146-167).                             *)
OneHeader ==
  ~zipFailed => \A i \in 2..Len(data) : ~IsHeader(data[i])

(* What processRequest takes begins with a status line: no sequence of     *)
(* calls and no std::exception, wherever it is thrown, hands the loop less *)
(* than a header (server.cpp:211-226).                                     *)
StatusLineFirst ==
  stage = "taken" => hasEnded /\ data # <<>> /\ IsHeader(data[1])

(* The header tells the truth about the body: as many bytes follow as it   *)
(* announces, in memory and in the file together, or it announces chunks   *)
(* and their end follows and no length and no file does.  sendFile,        *)
(* sendFiles, end and the two refusals each set a part of this.            *)
FramingHonest ==
  stage = "taken" /\ ~zipFailed /\ RegionIsASlice =>
    IF data[1].chunked
    THEN data[1].length = Unset /\ data[Len(data)].kind = "end" /\ ~region.valid
    ELSE data[1].length = {BodyInMemory + BodyInFile}

(* After a response was ended, nothing the handler still does, and no      *)
(* exception it still throws, changes what the client gets.                *)
EndedIsFinal == [][hasEnded => UNCHANGED <<data, region>>]_vars

=============================================================================

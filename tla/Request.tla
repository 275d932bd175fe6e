------------------------------- MODULE Request -------------------------------
(***************************************************************************)
(* A request on its way in.  The client's bytes arrive in pieces of any    *)
(* size, the event loop decides after each piece whether the request is    *)
(* complete (src/helpers/request.cpp), and a worker then parses the same   *)
(* text a second time and in another way (Server::makeRequest).            *)
(*                                                                         *)
(* A text is a sequence of one-letter strings.  Of the head only what both *)
(* readers act on is kept: whether the request line can be parsed, the     *)
(* method, the query, the values of the content-length headers in their    *)
(* order, and the content type.  Numerals are binary here, and the widths  *)
(* of int and size_t are constants.  The idle sweep is modelled as far as  *)
(* it meets a connection that is still being read; the rest of it is in    *)
(* module Reactor.                                                         *)
(***************************************************************************)
EXTENDS Integers, Sequences, SequencesExt, FiniteSets, Strings

CONSTANTS
  Messages,   \* what a client may send
  Decode(_),  \* brewtils::url::decode
  IntMax,     \* largest int
  SizeMax     \* largest size_t and unsigned long long

(* The head comes in this many pieces, the last of them the empty line.    *)
HeadPieces == 2
Wire(m) == <<"head", "emptyLine">> \o m.body \o m.more

(* No client sends as much as a negative number is as a size_t.            *)
ASSUME RequestAssumption ==
  /\ IntMax \in Nat /\ SizeMax \in Nat /\ IntMax < SizeMax
  /\ \A m \in Messages :
       /\ DOMAIN m = {"line", "method", "query", "lengths", "type", "body",
                      "more"}
       /\ m.lengths \in Seq(Seq(STRING))
       /\ m.query \in Seq(STRING) /\ m.body \in Seq(STRING)
       /\ m.more \in Seq(STRING)
       /\ Len(Wire(m)) < SizeMax - IntMax

VARIABLES
  message,        \* what the client sends in this connection
  sent,           \* number of its pieces that are out
  finished,       \* the client has closed its side
  readBuffer,     \* Connection::readBuffer
  silent,         \* lastActivity is longer ago than IDLE_TIMEOUT
  step,           \* reading, closed, or where makeRequest is
  contentLength,  \* of the Request the worker makes
  queries,        \* likewise, a function on texts
  start,          \* where in the query the loop is
  body,           \* likewise: the text that is parsed as a body
  fields          \* likewise: the fields of a form

clientVars == <<message, sent, finished>>
connectionVars == <<readBuffer, silent>>
reqVars == <<contentLength, queries, start, body, fields>>
vars == <<clientVars, connectionVars, step, reqVars>>

Done == {"handled", "failed"}
Steps == {"reading", "closed", "line", "headers", "queries", "body"} \cup Done

TypeOK ==
  /\ sent \in 0..Len(Wire(message))
  /\ finished \in BOOLEAN /\ silent \in BOOLEAN
  /\ IsPrefix(readBuffer, Wire(message)) /\ Len(readBuffer) <= sent
  /\ step \in Steps
  /\ contentLength \in -IntMax - 1 .. IntMax
  /\ start \in 1..Len(message.query) + 2

Init ==
  /\ message \in Messages
  /\ sent = 0
  /\ finished = FALSE
  /\ readBuffer = <<>>
  /\ silent = FALSE
  /\ step = "reading"
  /\ contentLength = 0
  /\ queries = <<>>
  /\ start = 1
  /\ body = <<>>
  /\ fields = <<>>

-----------------------------------------------------------------------------
(* Numbers in texts                                                        *)

Values == UNION {ToSet(m.lengths) : m \in Messages}
Texts == UNION {{SubSeq(v, i, Len(v)) : i \in 1..3} : v \in Values}

(* Read once for each text: TLC evaluates it often.                        *)
Numeral[s \in Texts] == ReadNumeral(s)

(* std::stoull: a minus sign negates modulo 2^w.  Where it throws, the     *)
(* caller takes 0.                                                         *)
Stoull(s) ==
  LET n == Numeral[s]
  IN  IF ~n.found \/ n.size > SizeMax THEN 0 ELSE n.value % (SizeMax + 1)

(* Bug: the range is not looked at.                                        *)
StoiThrows_NoRange(s) == ~Numeral[s].found

StoiThrows(s) ==
  LET n == Numeral[s] IN ~n.found \/ n.value \notin -IntMax - 1 .. IntMax

Stoi(s) == Numeral[s].value

-----------------------------------------------------------------------------
(* The client and the event loop                                           *)

Send ==
  /\ ~finished
  /\ sent' \in sent + 1 .. Len(Wire(message))
  /\ UNCHANGED <<message, finished, connectionVars, step, reqVars>>

Finish ==
  /\ ~finished
  /\ finished' = TRUE
  /\ UNCHANGED <<message, sent, connectionVars, step, reqVars>>

Arrived == SubSeq(Wire(message), 1, sent)

(* All has been read that came, and nothing more comes for IDLE_TIMEOUT.   *)
Pause ==
  /\ step = "reading" /\ readBuffer = Arrived /\ ~finished
  /\ silent' = TRUE
  /\ UNCHANGED <<clientVars, readBuffer, step, reqVars>>

(* The first content-length in the headers                                 *)
FramedLength ==
  IF message.lengths = <<>> THEN 0 ELSE Stoull(Head(message.lengths))

(* Bug: the length of the head is not subtracted.                          *)
IsRequestComplete_NoHead(text) ==
  /\ Len(text) >= HeadPieces
  /\ Len(text) >= FramedLength

IsRequestComplete(text) ==
  /\ Len(text) >= HeadPieces
  /\ Len(text) - HeadPieces >= FramedLength

(* handleReadable: all there is is read.  When the client has closed its   *)
(* side the connection is closed, whatever has been read.                  *)
Read ==
  /\ step = "reading"
  /\ readBuffer # Arrived \/ finished
  /\ readBuffer' = Arrived
  /\ silent' = FALSE
  /\ step' = IF finished THEN "closed"
             ELSE IF IsRequestComplete(Arrived) THEN "line" ELSE "reading"
  /\ UNCHANGED <<clientVars, reqVars>>

(* closeIdleConnections: nobody tells the client why.  A connection that a *)
(* worker has is left alone.                                               *)
Sweep ==
  /\ step = "reading" /\ silent
  /\ step' = "closed"
  /\ UNCHANGED <<clientVars, connectionVars, reqVars>>

-----------------------------------------------------------------------------
(* The worker: makeRequest                                                 *)

(* processRequest answers 400 to a std::exception, and all that makeRequest *)
(* lets out is one.                                                        *)
Fail ==
  /\ step' = "failed"
  /\ UNCHANGED <<clientVars, connectionVars, reqVars>>

Go(next) ==
  /\ step' = next
  /\ UNCHANGED <<clientVars, connectionVars>>

ParseLine ==
  /\ step = "line"
  /\ \/ message.line = "malformed" /\ Fail
     \/ message.line = "fine" /\ Go("headers") /\ UNCHANGED reqVars

(* Bug: one more character is skipped.                                     *)
ValueOf_Short(s) == SubSeq(s, 3, Len(s))

(* A header's value begins two characters after its colon, whatever is     *)
(* there.                                                                  *)
ValueOf(s) == SubSeq(s, 2, Len(s))

(* Every content-length is converted, and the last one counts.             *)
ParseHeaders ==
  LET throws == \E i \in DOMAIN message.lengths :
                  StoiThrows(ValueOf(message.lengths[i]))
  IN  /\ step = "headers"
      /\ \/ throws /\ Fail
         \/ /\ ~throws
            /\ Go("queries")
            /\ contentLength' = IF message.lengths = <<>> THEN 0
                                ELSE Stoi(ValueOf(Last(message.lengths)))
            /\ UNCHANGED <<queries, start, body, fields>>

(* string::find: the first place from `from' on, or one past the end.      *)
Find(s, c, from) ==
  LET places == {i \in from..Len(s) : s[i] = c}
  IN  IF places = {} THEN Len(s) + 1
      ELSE CHOOSE i \in places : \A j \in places : i <= j

(* map[key] = value                                                        *)
Set(map, key, value) ==
  [k \in DOMAIN map \cup {key} |-> IF k = key THEN value ELSE map[k]]

InQuery == step = "queries" /\ start <= Len(message.query)
Equals == Find(message.query, "=", start)

(* Bug: the next key begins at the ampersand.                              *)
After_NoSkip(end) == end

(* Bug: the end of the text is npos, and the loop starts again at 0.       *)
After_Wrap(end) == IF end > Len(message.query) THEN 1 ELSE end + 1

(* Where the next turn begins.                                             *)
After(end) == end + 1

(* One turn of the loop over the query.                                    *)
ParsePair ==
  LET query == message.query
      end == Find(query, "&", Equals + 1)
  IN  /\ InQuery
      /\ Equals <= Len(query)
      /\ queries' = Set(queries, Decode(SubSeq(query, start, Equals - 1)),
                        Decode(SubSeq(query, Equals + 1, end - 1)))
      /\ start' = After(end)
      /\ Go("queries")
      /\ UNCHANGED <<contentLength, body, fields>>

(* A turn that finds no "=" changes nothing, and the next is like it.      *)
TurnInVain ==
  /\ InQuery
  /\ Equals > Len(message.query)
  /\ UNCHANGED vars

EndQuery ==
  /\ step = "queries"
  /\ start > Len(message.query)
  /\ Go("body")
  /\ UNCHANGED reqVars

FieldsOf(text) ==
  FoldLeft(LAMBDA map, part :
             LET pair == Split(part, "=")
             IN  IF Len(pair) # 2 THEN map
                 ELSE Set(map, Decode(pair[1]), Decode(pair[2])),
           <<>>, Split(text, "&"))

HasBody == message.method \notin {"GET", "HEAD"}

(* The values of content-type that makeRequest knows.  "text" stands for   *)
(* text/plain and application/javascript, "multipart" for one that names   *)
(* its boundary.  Any other value, as text/plain with a charset or a       *)
(* multipart without boundary, is of none of these kinds.                  *)
Parsed == {"text", "json", "form", "multipart"}

(* All that has been read after the head is the body.  Parsing JSON may    *)
(* throw; a body of no known kind is left where it is.  What a multipart's *)
(* parts hold is left out.                                                 *)
ParseBody ==
  /\ step = "body"
  /\ \/ /\ ~(HasBody /\ message.type \in Parsed)
        /\ Go("handled") /\ UNCHANGED reqVars
     \/ HasBody /\ message.type = "json" /\ Fail
     \/ /\ HasBody /\ message.type \in Parsed
        /\ Go("handled")
        /\ body' = SubSeq(readBuffer, HeadPieces + 1, Len(readBuffer))
        /\ fields' = IF message.type = "form" THEN FieldsOf(body') ELSE <<>>
        /\ UNCHANGED <<contentLength, queries, start>>

Work ==
  \/ ParseLine \/ ParseHeaders
  \/ ParsePair \/ TurnInVain \/ EndQuery
  \/ ParseBody

Next == Send \/ Finish \/ Pause \/ Read \/ Sweep \/ Work

(* The poller is level-triggered and the worker runs; the client need do   *)
(* nothing, and the sweep need not come.                                   *)
Spec == Init /\ [][Next]_vars /\ WF_vars(Read) /\ WF_vars(Work)

-----------------------------------------------------------------------------
(* Properties                                                              *)

OneLength(m) == Len(m.lengths) = 1 /\ IsPrefix(<<Blank>>, m.lengths[1])
Honest(m) == OneLength(m) /\ Stoi(m.lengths[1]) = Len(m.body)

(* However its bytes were cut up on the way, a request that announces the  *)
(* length of its body, and a type that makeRequest knows, reaches the      *)
(* handler with the whole of it; after it nothing can stand but what the   *)
(* client had sent behind it.  Of any other type the handler gets no body  *)
(* at all (helpers/request.cpp:28, server.cpp:196, 403-459).               *)
BodyIsWhole ==
  step = "handled" /\ HasBody /\ Honest(message) =>
    IF message.type \in Parsed
    THEN /\ IsPrefix(message.body, body)
         /\ IsPrefix(body, message.body \o message.more)
    ELSE body = <<>>

(* The event loop and the worker read the same header with different code; *)
(* a handler sees the length that the event loop waited for.  A header     *)
(* without a space after its colon, and several of them, are exempt: there *)
(* they differ (helpers/request.cpp:16-22, server.cpp:346-349).            *)
LengthsAgree ==
  step = "handled" /\ OneLength(message) => contentLength = FramedLength

WellFormed(text) ==
  text = <<>> \/ \A part \in ToSet(Split(text, "&")) : "=" \in ToSet(part)

(* Of the parts with some key the last counts; what is encoded separates   *)
(* nothing.                                                                *)
KeyOf(part) == Decode(SubSeq(part, 1, Find(part, "=", 1) - 1))
ValueIn(part) == Decode(SubSeq(part, Find(part, "=", 1) + 1, Len(part)))
PairsIn(parts) ==
  LET LastWith(key) == CHOOSE i \in DOMAIN parts :
        /\ KeyOf(parts[i]) = key
        /\ \A j \in i + 1 .. Len(parts) : KeyOf(parts[j]) # key
  IN  [key \in {KeyOf(parts[i]) : i \in DOMAIN parts} |->
         ValueIn(parts[LastWith(key)])]

(* The handler finds each key of a query, decoded, with the decoded value  *)
(* that was last given to it, and nothing else (server.cpp:368-387).       *)
PairsRight ==
  step = "handled" /\ message.query # <<>> /\ WellFormed(message.query) =>
    queries = PairsIn(Split(message.query, "&"))

WellMeant ==
  {m \in Messages : (Honest(m) \/ m.lengths = <<>>) /\ WellFormed(m.query)}

(* A client that sends an honest request with a well-formed query, and     *)
(* keeps its side open, gets it handled or refused, into however many      *)
(* pieces it is cut and whenever they come; unless the client pauses for   *)
(* longer than IDLE_TIMEOUT before the last of them, which may cost it the *)
(* connection without a word (server.cpp:183-226, 271-290).                *)
Served ==
  /\ message \in WellMeant
  /\ <>(sent = Len(Wire(message)))
  /\ []~finished
  => <>(step \in Done \/ (step = "closed" /\ silent))

(* Whatever the query is, a worker that has begun with a request comes to  *)
(* its end: "no thread ever blocks on a client" (server.h:30-31).          *)
WorkersComeBack == step = "line" ~> step \in Done

=============================================================================

-------------------------------- MODULE Service --------------------------------
(***************************************************************************)
(* What a worker does with one request, from makeRequest's result, be it a *)
(* request or an exception, to the end of processRequest: the way through  *)
(* the routers is module Router's, the response module Response's, and in  *)
(* between the middlewares read the request's headers, set the response's, *)
(* refuse and send files.  Whether makeRequest ends is module Request's    *)
(* question.  What handlers throw is a std::exception here.                *)
(*                                                                         *)
(* The program has registered everything and called listen(); of what it   *)
(* has built, `app', nothing changes while requests are served, and a      *)
(* Request and a Response belong to one call of processRequest: one        *)
(* request tells all.  The file system answers as it likes.  Fields that   *)
(* Response sets itself are in module Response as far as they frame.       *)
(***************************************************************************)
EXTENDS Integers, Sequences, SequencesExt, FiniteSets, TLC

CONSTANTS
  Apps,                 \* what programs may have built, see Example
  Requests,             \* method, target, origin, cookie and range
  Decode(_), LongMax,   \* of Middlewares
  MaxRouter, Methods,   \* of Router
  MaxMessage, MaxFile   \* of Response

VARIABLES
  app,                                     \* routes, mounts, guards, calls
  step, request, tempPath, trail, passed,  \* of Router
  hasEnded, status, message, contentLength, chunked, data, region, stage,
  calls, zipFailed,                        \* of Response
  asked,         \* the headers of the request that middlewares read
  fields,        \* headers of the Response
  cookies,       \* Request::cookies
  script,        \* the calls of the handler that was chosen
  crashed,       \* undefined behaviour has ended the program
  sent,          \* fields in the header that was serialized (history)
  size           \* size of the file that sendFile measured (history)

pathVars == <<step, request, tempPath, trail, passed>>
workerVars == <<hasEnded, status, message, contentLength, chunked, data, region,
                stage, calls, zipFailed>>
ownVars == <<asked, fields, cookies, script, crashed, sent, size>>
vars == <<app, pathVars, workerVars, ownVars>>

INSTANCE Middlewares

App == 0
Routers == 0..MaxRouter

(* Module Router's texts, and the paths with a slash in front.             *)
Texts == {s \in Seq(STRING) : Len(s) > 0}
Nothing == ""
Slashed == {s \in Texts : Len(s) > 1 /\ Head(s) = Nothing}

(* What a handler calls; its status is OK, and a 403 of a handler's own is *)
(* left out.                                                               *)
Calls == {"status", "send", "json", "end", "sendFiles"}

(* What a program has built, as module Router has it built: no router is   *)
(* mounted in a circle, and each route has its handler.                    *)
Built(a) ==
  /\ a.routes \in [Routers -> SUBSET (Methods \X Texts)]
  /\ DOMAIN a.mounts = Routers
  /\ \A r \in Routers :
       /\ IsFiniteSet(DOMAIN a.mounts[r])
       /\ \A x \in DOMAIN a.mounts[r] :
            x \in Texts /\ a.mounts[r][x] \in Routers /\ a.mounts[r][x] > r
  /\ a.guards \in [Routers -> Seq(Guards)]
  /\ \A r \in Routers : \A route \in a.routes[r] :
       a.calls[<<r, route[1], route[2]>>] \in Seq(Calls)

(* The size of a file, an off_t, is a long long too.                       *)
ASSUME ServiceAssumption ==
  /\ MaxRouter \in Nat
  /\ "HEAD" \notin Methods /\ Nothing \in STRING
  /\ MaxMessage \in Nat
  /\ MaxFile \in Nat /\ LongMax \in Nat /\ MaxFile <= LongMax
  /\ \A a \in Apps : Built(a)
  /\ \A r \in Requests :
       /\ r.method \in Methods \cup {"HEAD"} /\ r.target \in Slashed
       /\ r.cookie \in Seq(STRING) /\ r.range \in Seq(STRING)

(* Bug: they are added in listen(), behind the program's own.              *)
SetupMiddlewares_Last(guards) == guards \o <<Version, Date>>

(* Server::Server: setupMiddlewares runs before the program's own use().   *)
SetupMiddlewares(guards) == <<Version, Date>> \o guards

GuardsOf(r) ==
  IF r = App THEN SetupMiddlewares(app.guards[r]) ELSE app.guards[r]

Paths == INSTANCE Router WITH
  routes <- app.routes,
  mounts <- app.mounts,
  middlewares <- [r \in Routers |-> Len(GuardsOf(r))],
  life <- "serving",
  doomed <- [r \in Routers |-> 0],
  deleted <- {},
  Names <- STRING, RoutePaths <- Slashed,
  MountPaths <- Slashed \ {<<Nothing, Nothing>>}, Targets <- Slashed,
  MaxRegistrations <- 0

(* No handler and no middleware makes more calls than status, json, end.   *)
Worker == INSTANCE Response WITH MaxCalls <- 3

Init ==
  /\ app \in Apps
  /\ step = "idle"
  /\ request = Paths!NoRequest
  /\ tempPath = Paths!Empty
  /\ trail = <<>>
  /\ passed = <<>>
  /\ Worker!Init
  /\ asked = [origin |-> <<>>, cookie |-> <<>>, range |-> <<>>]
  /\ fields = NoFields
  /\ cookies = <<>>
  /\ script = <<>>
  /\ crashed = FALSE
  /\ sent = NoFields
  /\ size = 0

-----------------------------------------------------------------------------
(* makeRequest has read the text.                                          *)
Receive ==
  \E r \in Requests :
    /\ stage = "handling"
    /\ Paths!Receive(r.method, r.target)
    /\ asked' = [origin |-> OriginOf(r.origin), cookie |-> r.cookie,
                 range |-> r.range]
    /\ UNCHANGED <<workerVars, fields, cookies, script, crashed, sent, size>>

(* serializeHeaders takes the fields as they are.                          *)
Serializes == sent' = IF data = <<>> /\ data' # <<>> THEN fields' ELSE sent

(* makeRequest has thrown: no router is called.                            *)
Reject ==
  /\ step = "idle"
  /\ Worker!Throw
  /\ fields' = fields
  /\ Serializes
  /\ UNCHANGED <<pathVars, asked, cookies, script, crashed, size>>

-----------------------------------------------------------------------------
(* Middleware::use                                                         *)
Guard == GuardsOf(Paths!at)[Paths!NextGuard]
Uses(kinds) == Paths!HasGuard /\ Guard.kind \in kinds

Pass ==
  /\ Paths!LetThrough
  /\ \E set \in FieldsSet(Guard, asked.origin) : fields' = Set(set, fields)
  /\ UNCHANGED <<workerVars, asked, script, crashed, sent, size>>

(* handleMiddlewares calls end() when a middleware refuses.                *)
Refuse(set) ==
  /\ Paths!Refuse
  /\ fields' = Set(set, fields)
  /\ Serializes
  /\ UNCHANGED <<asked, cookies, script, crashed>>

UseHeaders ==
  /\ Uses({"version", "date", "cacher"})
  /\ Pass
  /\ UNCHANGED cookies

(* Bug: the status is set, but true is returned.                           *)
UseCors_GoOn ==
  /\ Uses({"cors"})
  /\ IF LetsIn(Guard, asked.origin) THEN Pass
     ELSE /\ Paths!LetThrough
          /\ fields' = Set(Field("allow-origin", Null), fields)
          /\ UNCHANGED <<workerVars, asked, script, crashed, sent, size>>
  /\ UNCHANGED cookies

(* Cors: status(FORBIDDEN).send(...) where no pattern fits.                *)
UseCors ==
  /\ Uses({"cors"})
  /\ \/ LetsIn(Guard, asked.origin) /\ Pass /\ UNCHANGED cookies
     \/ /\ ~LetsIn(Guard, asked.origin)
        /\ Worker!Reply(Worker!FORBIDDEN)
        /\ Refuse(Field("allow-origin", Null))
        /\ UNCHANGED size

UseCookieParser ==
  /\ Uses({"cookies"})
  /\ Pass
  /\ cookies' = cookies \o ParsedCookies(asked.cookie)

(* Copying what is no string may also throw, or end the program; reading   *)
(* the file for its etag may throw.                                        *)
UseThrows ==
  /\ \/ Uses({"cookies"}) /\ ReadsTooFar(asked.cookie)
     \/ Uses({"static"}) /\ request.method = "GET"
  /\ Paths!GuardThrows
  /\ UNCHANGED <<workerVars, ownVars>>

Crash ==
  /\ Uses({"cookies"})
  /\ ReadsTooFar(asked.cookie)
  /\ crashed' = TRUE
  /\ UNCHANGED <<pathVars, workerVars, asked, fields, cookies, script, sent,
                 size>>

(* A file that is there when StaticServe looks may be gone in sendFile.    *)
ServeFile ==
  LET range == GetRange(asked.range)
  IN  /\ size' \in 0..MaxFile
      /\ Worker!SendFile(size', range.start, range.end)
      /\ Refuse(NoFields)

ServeListing ==
  /\ Guard.showListing
  /\ Worker!Reply(Worker!OK)
  /\ Refuse(NoFields)
  /\ UNCHANGED size

UseStaticServe ==
  /\ Uses({"static"})
  /\ \/ Pass /\ UNCHANGED cookies
     \/ request.method = "GET" /\ (ServeFile \/ ServeListing)

-----------------------------------------------------------------------------
(* The router goes on: there is no method, route or mount.                 *)
Descends ==
  /\ Paths!Descend \/ Paths!NoMap
  /\ UNCHANGED <<workerVars, ownVars>>

NotFound ==
  /\ Paths!NotFound
  /\ Worker!SendNotFound
  /\ fields' = fields
  /\ Serializes
  /\ UNCHANGED <<asked, cookies, script, crashed, size>>

(* The handler is chosen; if it is to throw, step is "failed" already.     *)
Handle ==
  /\ Paths!Handle
  /\ script' = app.calls[<<Paths!at, request.method, Paths!Stripped>>]
  /\ UNCHANGED <<workerVars, asked, fields, cookies, crashed, sent, size>>

Called(call) ==
  CASE call = "status" -> Worker!SetStatus(Worker!OK)
    [] call = "send" -> Worker!Send(MaxMessage)
    [] call = "json" -> Worker!Send(MaxMessage)
    [] call = "end" -> Worker!End
    [] call = "sendFiles" -> Worker!SendFiles

(* One call of the handler; an exception from sendFiles leaves it.         *)
HandlerCall ==
  /\ step \in {"handled", "failed"}
  /\ calls < Len(script)
  /\ ~zipFailed
  /\ Called(script[calls + 1])
  /\ zipFailed' => step = "failed"
  /\ fields' = fields
  /\ Serializes
  /\ UNCHANGED <<pathVars, asked, cookies, script, crashed, size>>

(* Bug: the handler has to call end() itself.                              *)
HasReturned_Ended == calls = Len(script) /\ hasEnded
HasReturned == calls = Len(script)

(* The end of processRequest.                                              *)
Finish ==
  /\ \/ step = "failed" /\ Worker!Throw
     \/ step = "handled" /\ HasReturned /\ Worker!Return
     \/ step \in {"refused", "notFound"} /\ Worker!Return
  /\ fields' = fields
  /\ Serializes
  /\ UNCHANGED <<pathVars, asked, cookies, script, crashed, size>>

UseMiddleware ==
  \/ UseHeaders \/ UseCors
  \/ UseCookieParser \/ UseStaticServe
  \/ UseThrows \/ Crash

Work ==
  /\ stage = "handling" /\ ~crashed
  /\ app' = app
  /\ UseMiddleware \/ Descends \/ NotFound \/ Handle \/ HandlerCall \/ Finish

Next == (app' = app /\ (Receive \/ Reject)) \/ Work

(* A worker that has taken a request runs on.                              *)
Spec == Init /\ [][Next]_vars /\ WF_vars(Work)

-----------------------------------------------------------------------------
(* example/main.cpp                                                        *)

About == 1
Pictures == 2
Example ==
  [routes |-> (App :> {<<"GET", <<"health">>>>, <<"GET", <<"download">>>>,
                       <<"POST", <<"print">>>>}) @@
              (About :> {<<"GET", Paths!Empty>>}) @@
              (Pictures :> {}),
   mounts |-> (App :> (<<"about">> :> About @@ <<"pictures">> :> Pictures)) @@
              (About :> <<>>) @@ (Pictures :> <<>>),
   guards |-> (App :> <<Cors({<<"*">>}, TRUE), CookieParser,
                        Cacher(3600, FALSE), StaticServe(FALSE)>>) @@
              (About :> <<>>) @@
              (Pictures :> <<StaticServe(TRUE)>>),
   calls |-> (<<App, "GET", <<"health">>>> :> <<"status", "send">>) @@
             (<<App, "GET", <<"download">>>> :> <<"sendFiles">>) @@
             (<<App, "POST", <<"print">>>> :> <<"status", "json">>) @@
             (<<About, "GET", Paths!Empty>> :> <<"status", "json", "end">>)]

-----------------------------------------------------------------------------
(* Properties                                                              *)

Answered == stage = "taken"
GuardsPassed == [i \in DOMAIN passed |-> GuardsOf(passed[i][1])[passed[i][2]]]
OnTheWay == UNION {ToSet(GuardsOf(trail[i].router)) : i \in DOMAIN trail}

(* The middlewares that stand in front of the one where the request is:    *)
(* all of the routers outside, and the innermost one's before it.          *)
StandsAhead(i, n) == i < Len(trail) \/ n <= trail[i].index
GuardsAhead ==
  UNION {{GuardsOf(trail[i].router)[n] :
            n \in {n \in DOMAIN GuardsOf(trail[i].router) : StandsAhead(i, n)}} :
         i \in DOMAIN trail}

(* The client is refused for its origin.                                   *)
Told == data[1].status = Worker!FORBIDDEN

(* No middleware after this one has set the same fields.                   *)
LastOfItsKind(i) ==
  \A j \in i + 1 .. Len(passed) : GuardsPassed[j].kind # GuardsPassed[i].kind

(* Every answer to a request that makeRequest could read, whatever it says *)
(* and wherever the request ended, names the version and the date, and     *)
(* each middleware that was passed has its say, of one kind the last: no   *)
(* header is put together before all of them have set theirs.  What Cors   *)
(* says to a friend gives way to a refusal (server.cpp:95-98,              *)
(* router.cpp:146-152).  The 400 for a request that could not be read      *)
(* bears no middleware's marks: none was asked.                            *)
MarksArrive ==
  Answered =>
    IF step = "idle" THEN sent = NoFields
    ELSE /\ {"expresso", "date"} \subseteq DOMAIN sent
         /\ \A i \in DOMAIN passed :
              LastOfItsKind(i) /\ (Told => GuardsPassed[i].kind # "cors") =>
                \E set \in FieldsSet(GuardsPassed[i], asked.origin) :
                  \A name \in DOMAIN set :
                    name \in DOMAIN sent /\ sent[name] = set[name]

(* The Cors among these that do not know the origin                        *)
Refusing(guards) ==
  {cors \in guards : cors.kind = "cors" /\ ~LetsIn(cors, asked.origin)}

(* No handler makes a call and no router says 404 to an origin that a Cors *)
(* on the way does not know.  What StaticServe sends, be it a file, a      *)
(* listing or that there is none, goes to no origin that a Cors standing   *)
(* before it does not know; one that stands before a Cors serves           *)
(* strangers.  Such an origin is told 403 and "null", and nobody else is   *)
(* (cors.cpp:57-92, static_serve.cpp:14-44).                               *)
CorsDecides ==
  Answered =>
    /\ step \in {"handled", "notFound"} \/ script # <<>> =>
         Refusing(OnTheWay) = {}
    /\ step = "refused" /\ ~Told => Refusing(GuardsAhead) = {}
    /\ Told <=> "allow-origin" \in DOMAIN sent /\ sent["allow-origin"] = Null
    /\ Told => Refusing(OnTheWay) # {}

EqualsIn(text) == {i \in DOMAIN text : text[i] = "="}
OneEquals(text) ==
  \A part \in ToSet(Split(text, ";")) :
    Cardinality(EqualsIn(part)) = 1

(* What is spelled at such a place: a name from the last ";" and a value   *)
(* up to the next one.                                                     *)
CookieAt(text, i) ==
  LET ends == Cuts(text, ";")
      from == CHOOSE a \in ends : a < i /\ \A c \in ends : c < i => c <= a
      to == CHOOSE b \in ends : b > i /\ \A c \in ends : c > i => c >= b
  IN  [name |-> Trim(SubSeq(text, from + 1, i - 1)),
       value |-> Decode(Trim(SubSeq(text, i + 1, to - 1)))]

(* A handler behind a CookieParser finds the cookies that the header       *)
(* spells, blanks around them aside and with their values decoded, and no  *)
(* others; and only a cookie without "=" can hurt the program.  A value    *)
(* with an "=" of its own is exempt: it is cut off there                   *)
(* (cookie_parser.cpp:18-21).                                              *)
CookiesRight ==
  /\ crashed =>
       /\ asked.cookie # <<>>
       /\ \E part \in ToSet(Split(asked.cookie, ";")) : EqualsIn(part) = {}
  /\ /\ asked.cookie = <<>> \/ OneEquals(asked.cookie)
     /\ CookieParser \in ToSet(GuardsPassed)
     => ToSet(cookies) = {CookieAt(asked.cookie, i) : i \in EqualsIn(asked.cookie)}

(* A Range header as RFC 9110 has it, with a first and perhaps a last      *)
(* position.                                                               *)
Numerals == Seq({"0", "1"}) \ {<<>>}
ValueOf(digits) == ReadNumeral(digits).value
SingleRange(text) ==
  /\ Len(text) > 2 /\ text[1] = "bytes=" /\ "-" \in ToSet(text)
  /\ LET limits == Split(Tail(text), "-")
     IN  /\ Len(limits) = 2
         /\ limits[1] \in Numerals
         /\ \/ limits[2] = <<>>
            \/ /\ limits[2] \in Numerals
               /\ ValueOf(limits[1]) <= ValueOf(limits[2])
FirstOf(text) == ValueOf(Split(Tail(text), "-")[1])
LastOf(text) ==
  LET digits == Split(Tail(text), "-")[2]
  IN  IF digits = <<>> THEN size - 1 ELSE ValueOf(digits)
Smaller(a, b) == IF a <= b THEN a ELSE b

(* A file is sent from the first position that the client asked for to the *)
(* last, or to its end, and as 206; as a whole it goes out only when no    *)
(* position was given that a long long holds; and 416 is said only of a    *)
(* position that the file does not have (static_serve.cpp:45-70 with       *)
(* response.cpp:91-130).                                                   *)
RangeKept ==
  Answered /\ SingleRange(asked.range) =>
    LET first == FirstOf(asked.range)
        last == LastOf(asked.range)
        code == data[1].status
    IN  /\ region.valid /\ code = Worker!PARTIAL_CONTENT =>
             /\ region.offset = first
             /\ region.remaining = Smaller(last, size - 1) - first + 1
        /\ region.valid /\ code = Worker!OK =>
             first > LongMax /\ region = Worker!Region(0, size)
        /\ code = Worker!RANGE_NOT_SATISFIABLE =>
             first >= size \/ last >= size

(* A request that a worker has begun with is answered, wherever it ends    *)
(* and whatever its handler leaves undone; a crash aside                   *)
(* (server.cpp:211-226).                                                   *)
EveryRequestAnswered == step # "idle" ~> Answered \/ crashed

=============================================================================

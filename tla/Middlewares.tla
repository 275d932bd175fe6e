------------------------------ MODULE Middlewares ------------------------------
(***************************************************************************)
(* The middlewares (src/middleware): what each one keeps and what it makes *)
(* of a request.  None changes its members in use(), so these are          *)
(* functions of the request's headers; module Service puts them in front   *)
(* of the handlers.                                                        *)
(***************************************************************************)
EXTENDS Strings

CONSTANTS
  Decode(_),   \* brewtils::url::decode
  LongMax      \* largest long long

(* A response's header fields are a function from names to values.  "null" *)
(* is what Cors says to an origin it does not know.                        *)
NoFields == <<>>
Null == <<"null">>
Field(name, value) == [n \in {name} |-> value]

(* Response::set: a later value takes the place of an earlier one.         *)
Set(new, old) ==
  [name \in DOMAIN new \cup DOMAIN old |->
     IF name \in DOMAIN new THEN new[name] ELSE old[name]]

(* Version: its field stands for the two it sets, "expresso" and           *)
(* "x-powered-by".                                                         *)
Version == [kind |-> "version"]
Date == [kind |-> "date"]
Cacher(maxAge, isPrivate) ==
  [kind |-> "cacher",
   serialized |-> <<maxAge, IF isPrivate THEN "private" ELSE "public">>]

-----------------------------------------------------------------------------
(* Cors                                                                    *)

(* allowOrigin: a pattern begins with a dot; if need be it is given one.   *)
Pattern(origin) == IF Head(origin) = "." THEN origin ELSE <<".">> \o origin
Everyone == <<".", "*">>

Cors(origins, credentials) ==
  [kind |-> "cors",
   origins |-> {Pattern(origin) : origin \in origins},
   credentials |-> credentials]

AllowAllOrigins(cors) == Everyone \in cors.origins

(* std::regex_match; besides the dot a pattern has no operators here.      *)
RegexMatch(text, pattern) ==
  /\ Len(text) = Len(pattern)
  /\ \A i \in DOMAIN pattern : pattern[i] \in {".", text[i]}

(* Without an origin there is none that could be allowed.                  *)
Allowed(cors, origin) ==
  {p \in cors.origins : origin # <<>> /\ RegexMatch(origin, p)}
LetsIn(cors, origin) == AllowAllOrigins(cors) \/ Allowed(cors, origin) # {}

(* makeRequest keeps of an Origin header what is between the scheme and    *)
(* the port.                                                               *)
Schemes == {"http://", "https://"}
OriginOf(value) ==
  LET rest == IF Len(value) > 1 /\ Head(value) \in Schemes THEN Tail(value)
              ELSE value
  IN  Split(rest, ":")[1]

-----------------------------------------------------------------------------
(* What a middleware that lets a request through has set, Cors for one of  *)
(* the patterns that match.                                                *)
CorsFields(cors, origin) ==
  IF AllowAllOrigins(cors) THEN {NoFields}
  ELSE {Set(Field("allow-origin", Tail(p)),
            Field("allow-credentials", <<cors.credentials>>)) :
          p \in Allowed(cors, origin)}

FieldsSet(guard, origin) ==
  CASE guard.kind = "version" -> {Field("expresso", <<"v1">>)}
    [] guard.kind = "date" -> {Field("date", <<"now">>)}
    [] guard.kind = "cacher" -> {Field("cache-control", guard.serialized)}
    [] guard.kind = "cors" -> CorsFields(guard, origin)
    [] OTHER -> {NoFields}

-----------------------------------------------------------------------------
(* CookieParser                                                            *)
CookieParser == [kind |-> "cookies"]

(* The value of a cookie is the second part at "=".  Without one it is     *)
(* read from behind the vector: undefined behaviour, which the program may *)
(* survive with anything for a value.                                      *)
Anything == <<"anything">>
CookiePair(text) ==
  LET pair == Split(text, "=")
  IN  [name |-> Trim(pair[1]),
       value |-> IF Len(pair) < 2 THEN Anything ELSE Decode(Trim(pair[2]))]

(* Bug: the header is decoded before it is taken apart.                    *)
ParsedCookies_Decoded(text) ==
  IF text = <<>> THEN <<>>
  ELSE LET parts == Split(Decode(text), ";")
       IN  [i \in DOMAIN parts |-> CookiePair(parts[i])]

ParsedCookies(text) ==
  IF text = <<>> THEN <<>>
  ELSE LET parts == Split(text, ";")
       IN  [i \in DOMAIN parts |-> CookiePair(parts[i])]

ReadsTooFar(text) ==
  text # <<>> /\ \E part \in ToSet(Split(text, ";")) : Len(Split(part, "=")) < 2

-----------------------------------------------------------------------------
(* StaticServe                                                             *)
StaticServe(showListing) == [kind |-> "static", showListing |-> showListing]

(* What use() can be given; there is no Cors for an origin called "null".  *)
Patterns == {p \in Seq(STRING) : Len(p) > 0 /\ Tail(p) # Null}
Guards ==
  {Version, Date, CookieParser} \cup [kind : {"static"}, showListing : BOOLEAN]
  \cup [kind : {"cacher"}, serialized : Nat \X {"private", "public"}]
  \cup [kind : {"cors"}, origins : SUBSET Patterns, credentials : BOOLEAN]

(* std::stoll throws for what is no number or too large.                   *)
Stoll(s) ==
  LET n == ReadNumeral(s)
  IN  IF n.found /\ n.size <= LongMax THEN n.value ELSE -1

(* Bug: the second limit is not read.                                      *)
EndIn_Never(limits) == -1
EndIn(limits) == IF Len(limits) > 1 THEN Stoll(limits[2]) ELSE -1

(* getRange: -1 where nothing, or nothing readable, is given; when the     *)
(* first limit is unreadable the second is not looked at.                  *)
GetRange(text) ==
  LET parts == Split(text, "bytes=")
      limits == Split(parts[2], "-")
      start == Stoll(limits[1])
  IN  IF Len(parts) # 2 \/ start = -1 THEN [start |-> -1, end |-> -1]
      ELSE [start |-> start, end |-> EndIn(limits)]

=============================================================================

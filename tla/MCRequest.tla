------------------------------ MODULE MCRequest ------------------------------
(***************************************************************************)
(* Instances of Request for TLC.  "A" is "a" in its encoded form and "E"   *)
(* an encoded "=".  Three families of messages, each varied in what it is  *)
(* about: the announced length, the query, the kind of body.               *)
(***************************************************************************)
EXTENDS Request

MCDecode(s) ==
  [i \in DOMAIN s |->
     CASE s[i] = "A" -> "a" [] s[i] = "E" -> "=" [] OTHER -> s[i]]

Message(method, query, lengths, type, text, more) ==
  [line |-> "fine", method |-> method, query |-> query, lengths |-> lengths,
   type |-> type, body |-> text, more |-> more]

One == <<" ", "1">>
Two == <<" ", "1", "0">>
MCValues ==
  {<<" ", "0">>, One, Two, <<" ", "1", "1">>, <<"1", "0">>, <<"1">>,
   <<" ", " ", "1">>, <<" ", "-", "1">>, <<" ", "x">>, <<>>,
   <<" ", "1", "0", "0">>, <<" ", "1", "0", "0", "0", "0", "0">>}

Framed ==
  {Message(method, <<>>, lengths, "text", text, more) :
     method \in {"GET", "POST"},
     lengths \in {<<>>, <<One, Two>>, <<Two, One>>} \cup
                   {<<v>> : v \in MCValues},
     text \in {<<>>, <<"a">>, <<"a", "A">>, <<"a", "a", "a">>},
     more \in {<<>>, <<"b", "b">>}}

Queried ==
  {Message("GET", query, <<>>, "text", <<>>, <<>>) :
     query \in SeqOf({"a", "A", "=", "E", "&"}, 4) \cup
       {<<"a", "=", "b", "&", "A", "=", "a">>,
        <<"a", "=", "b", "&", "b", "=", "E">>, <<"a", "=", "b", "&", "c">>,
        <<"a", "=", "&", "=">>, <<"A", "=", "=", "a">>}}

Posted ==
  {Message("POST", <<>>, <<<<" ", "1", "1">>>>, type, text, <<>>) :
     type \in {"json", "form", "multipart", "other"},
     text \in {<<"a", "=", "b">>, <<"a", "E", "b">>, <<"a", "&", "=">>}}

MCMessages ==
  Framed \cup Queried \cup Posted \cup
  {[Message("GET", <<>>, <<>>, "text", <<>>, <<>>)
      EXCEPT !.line = "malformed"]}
=============================================================================

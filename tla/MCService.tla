------------------------------ MODULE MCService ------------------------------
(***************************************************************************)
(* Instances of Service for TLC.  Besides the example program there is one *)
(* whose Cors lets few in, the mounted router's fewer, whose StaticServe   *)
(* stands between two of them, and whose Cachers disagree.  "E" is an      *)
(* encoded "=" and "S" an encoded ";".  Long longs end at 7, files at 3.   *)
(***************************************************************************)
EXTENDS Service

MCDecode(s) ==
  [i \in DOMAIN s |->
     CASE s[i] = "E" -> "=" [] s[i] = "S" -> ";" [] OTHER -> s[i]]

Guarded ==
  [routes |-> (App :> {<<"GET", <<"health">>>>}) @@
              (About :> {<<"GET", <<"print">>>>, <<"POST", <<"print">>>>}) @@
              (Pictures :> {}),
   mounts |-> (App :> (<<"about">> :> About)) @@
              (About :> (<<"pictures">> :> Pictures)) @@ (Pictures :> <<>>),
   guards |-> (App :> <<Cacher(1, TRUE), Cors({<<"a">>, <<".", "b">>}, FALSE)>>) @@
              (About :> <<CookieParser, Cors({<<".", "a">>}, TRUE),
                          Cacher(2, FALSE)>>) @@
              (Pictures :> <<CookieParser, StaticServe(TRUE), Cacher(3, FALSE),
                             Cors({<<"b">>}, TRUE)>>),
   calls |-> (<<App, "GET", <<"health">>>> :> <<"send", "end", "send">>) @@
             (<<About, "GET", <<"print">>>> :> <<>>) @@
             (<<About, "POST", <<"print">>>> :> <<"sendFiles", "end">>)]

MCApps == {Example, Guarded}

MCTargets ==
  {<<"", "health">>, <<"", "download">>, <<"", "print">>, <<"", "about">>,
   <<"", "about", "print">>, <<"", "about", "pictures", "x">>,
   <<"", "pictures", "x">>, <<"", "", "">>}

MCOrigins ==
  {<<>>, <<"x", "a">>, <<"http://", "x", "a">>, <<"http://", "x", "b">>,
   <<"https://", "x", "b", ":", "1">>, <<"a">>, <<"b", "a", "a">>,
   <<"null">>}

MCCookies ==
  {<<>>, <<"k", "=", "v">>, <<"k", "=", "v", ";", " ", "l", "=", "E">>,
   <<" ", "k", " ", "x", "=", "v", " ">>,
   <<"k", "=", " ", "S", ";", "l", "=">>, <<"k">>, <<"k", "=", "v", ";">>,
   <<"k", "=", "v", "=">>}

Digits == {<<>>, <<"0">>, <<"1">>, <<"1", "0">>, <<"1", "1">>,
           <<"1", "0", "0">>, <<"1", "0", "0", "0">>}
MCRanges ==
  {<<>>, <<"bytes=">>, <<"bytes=", "1">>, <<"0", "-", "1">>,
   <<"bytes=", "x", "-", "1">>, <<"bytes=", "0", "-", "1", ",", "1", "-", "1">>}
  \cup {<<"bytes=">> \o a \o <<"-">> \o b : a, b \in Digits}

Asking(methods, origins, texts, ranges) ==
  [method : methods, target : MCTargets, origin : origins, cookie : texts,
   range : ranges]

(* One header is varied at a time; the others let the request through.     *)
MCRequests ==
  LET known == {<<"http://", "x", "a">>}
  IN  Asking({"GET", "POST", "HEAD"}, MCOrigins, {<<>>}, {<<>>}) \cup
      Asking({"GET", "POST"}, known, MCCookies, {<<>>}) \cup
      Asking({"GET"}, known, {<<>>}, MCRanges)
=============================================================================

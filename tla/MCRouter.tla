------------------------------ MODULE MCRouter ------------------------------
(***************************************************************************)
(* Instances of Router for TLC: the paths that registrations and requests  *)
(* are made of.  "/a" and "/a/b" nest, "/a/" ends with a slash, "//" makes *)
(* an empty key.                                                           *)
(***************************************************************************)
EXTENDS Router

Root == <<"", "">>
A == <<"", "a">>
B == <<"", "b">>
AB == <<"", "a", "b">>

MCNames == {"", "a", "b"}
MCRoutePaths == {Root, A, AB, <<"", "b", "">>}
MCMountPaths == {A, AB, <<"", "b", "">>, <<"", "", "">>}
MCTargets ==
  {Root, A, AB, <<"", "a", "">>, <<"", "b">>, <<"", "a", "b", "a">>,
   <<"", "", "a">>, <<"", "a", "", "b">>, <<"", "", "">>, <<"", "b", "">>}
=============================================================================

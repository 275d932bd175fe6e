------------------------------ MODULE MCAnswer ------------------------------
(***************************************************************************)
(* Instances of Answer for TLC.  The constants are in the .cfg files.      *)
(***************************************************************************)
EXTENDS Answer
=============================================================================

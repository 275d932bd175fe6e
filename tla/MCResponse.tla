----------------------------- MODULE MCResponse -----------------------------
(***************************************************************************)
(* Instances of Response for TLC.  The constants are in the .cfg files.    *)
(***************************************************************************)
EXTENDS Response
=============================================================================

----------------------------- MODULE MCDelivery -----------------------------
(***************************************************************************)
(* Instances of Delivery for TLC.  The constants are in the .cfg files.    *)
(***************************************************************************)
EXTENDS DeliveryInvariant
=============================================================================

----------------------------- MODULE ByteStream -----------------------------
(***************************************************************************)
(* What a client sees of one response: a stream whose length is fixed when *)
(* it begins, which only grows, which is called complete exactly when the  *)
(* last byte has left, and which may break at any point before that.       *)
(* Module Delivery refines it.                                             *)
(***************************************************************************)
EXTENDS Naturals

VARIABLES total, sent, state

vars == <<total, sent, state>>

Init == total = 0 /\ sent = 0 /\ state = "none"

Begin ==
  /\ state = "none"
  /\ state' = "open"
  /\ total' \in Nat
  /\ sent' = 0

Grow ==
  /\ state = "open"
  /\ sent' \in sent..total
  /\ UNCHANGED <<total, state>>

Complete ==
  /\ state = "open"
  /\ sent = total
  /\ state' = "complete"
  /\ UNCHANGED <<total, sent>>

(* The last bytes and the end may come in one step.                        *)
Break ==
  /\ state = "open"
  /\ state' = "broken"
  /\ sent' \in sent..total
  /\ UNCHANGED total

Next == Begin \/ Grow \/ Complete \/ Break

Spec == Init /\ [][Next]_vars

=============================================================================

------------------------- MODULE ConnectionLifecycle -------------------------
(***************************************************************************)
(* What the server promises about one client connection, without sockets,  *)
(* pollers, queues or threads: the state machine that the comment on class *)
(* Connection (include/expresso/core/io/connection.h) announces,           *)
(*                                                                         *)
(*   READING (event loop) -> PROCESSING (worker) -> WRITING (event loop)   *)
(*                                                                         *)
(* A connection is answered at most once, is never closed while a worker   *)
(* has it, and never leaves the state "closed".  Module Reactor refines it.*)
(***************************************************************************)
CONSTANT Conn    \* the connections clients ever ask for

VARIABLE stage   \* where each connection is in its life

Stages == {"new", "READING", "PROCESSING", "WRITING", "closed"}

Init == stage = [c \in Conn |-> "new"]

TypeOK == stage \in [Conn -> Stages]

Move(c, from, to) ==
  /\ stage[c] = from
  /\ stage' = [stage EXCEPT ![c] = to]

Open(c)    == Move(c, "new", "READING")
Refuse(c)  == Move(c, "new", "closed")
HandOff(c) == Move(c, "READING", "PROCESSING")
Respond(c) == Move(c, "PROCESSING", "WRITING")

(* The event loop closes any connections it owns; the idle sweep closes    *)
(* several at once.                                                        *)
Close(S) ==
  /\ S # {}
  /\ \A c \in S : stage[c] \in {"READING", "WRITING"}
  /\ stage' = [c \in Conn |-> IF c \in S THEN "closed" ELSE stage[c]]

Next ==
  \/ \E c \in Conn : Open(c) \/ Refuse(c) \/ HandOff(c) \/ Respond(c)
  \/ \E S \in SUBSET Conn : Close(S)

Spec == Init /\ [][Next]_stage

(* A connection that was opened, or refused, is closed in the end.  It is  *)
(* promised under conditions that only Reactor can name.                   *)
Ends(c) == (stage[c] # "new") ~> (stage[c] = "closed")

=============================================================================

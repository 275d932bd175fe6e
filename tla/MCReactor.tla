------------------------------ MODULE MCReactor ------------------------------
(***************************************************************************)
(* Instances of Reactor for TLC.  The constants are in the .cfg files.     *)
(***************************************************************************)
EXTENDS ReactorInvariant, TLC

(* Connections, descriptors and workers are interchangeable: nothing in    *)
(* Reactor distinguishes one from another.  Only for runs without          *)
(* liveness properties.                                                    *)
Symmetry == Permutations(Conn) \cup Permutations(Fd) \cup Permutations(Worker)

(* Nothing reads the fields of a connection again once it is destroyed, so *)
(* states that differ only there count as one state.                       *)
OfTheLiving(field, rest) ==
  [c \in Conn |-> IF life[c] = "dead" THEN rest ELSE field[c]]

LiveView ==
  <<life, OfTheLiving(sock, NoFd), OfTheLiving(wire, 0),
    OfTheLiving(peer, "open"), OfTheLiving(window, TRUE),
    OfTheLiving(phase, "READING"), OfTheLiving(readBuffer, 0),
    OfTheLiving(unsent, 0), OfTheLiving(idle, 0), watched, connections,
    processingConnections, handVars, ctlVars, poolVars>>

=============================================================================

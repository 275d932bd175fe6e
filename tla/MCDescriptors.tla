---------------------------- MODULE MCDescriptors ----------------------------
(***************************************************************************)
(* Instances of Descriptors for TLC.  The constants are in the .cfg files. *)
(***************************************************************************)
EXTENDS DescriptorsInvariant, TLC

(* Nothing distinguishes one connection or worker from another.            *)
Symmetry == Permutations(Conn) \cup Permutations(Worker)

=============================================================================

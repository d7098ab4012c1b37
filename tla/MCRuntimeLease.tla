--------------------------- MODULE MCRuntimeLease ---------------------------
(* RuntimeLease for TLC. *)
EXTENDS RuntimeLease, TLC

ProcessSymmetry == Permutations(Process)
=============================================================================

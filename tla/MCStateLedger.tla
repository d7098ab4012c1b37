---------------------------- MODULE MCStateLedger ----------------------------
(* Constants of StateLedger for model checking. *)
EXTENDS StateLedger, TLC

ClientSymmetry == Permutations(Client)
=============================================================================

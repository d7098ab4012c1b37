------------------------ MODULE MCApprovedContainer ------------------------
(* ApprovedContainer for TLC: a token for the one task, and those for another. *)
EXTENDS ApprovedContainer, TLC

CONSTANTS right    \* the token issued for the task

OneToken == [k \in TokenId |-> IF k = right THEN CHOOSE t \in Task : TRUE ELSE None]

ContainerSymmetry == Permutations(Controller)
=============================================================================

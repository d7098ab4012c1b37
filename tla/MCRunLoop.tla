------------------------------ MODULE MCRunLoop ------------------------------
(* RunLoop for TLC: the plans and the human decisions its runs explore. *)
EXTENDS RunLoop, TLC

CONSTANTS first, other, last    \* tasks of the plans

\* last waits for first
ChainDeps == [t \in Task |-> IF t = last THEN {first} ELSE {}]
NoDeps == [t \in Task |-> {}]

\* first and other may touch the same path
SharedPath == {<<first, other>>, <<other, first>>}
NoConflicts == {}

\* preflight, retry after a failure, preflight restart after reconciliation
DecideRetry == {<<"PROPOSED", "READY">>, <<"FAILED", "READY">>, <<"BLOCKED", "PROPOSED">>}

\* and the way from a validated candidate to the merge
DecideAll == DecideRetry \cup
    {<<"VALIDATING", "REVIEW">>, <<"REVIEW", "READY_FOR_MERGE">>, <<"READY_FOR_MERGE", "DONE">>}

\* where tasks have no dependencies and the conflict is mutual
TaskSymmetry == Permutations(Task) \cup Permutations(Controller)
ControllerSymmetry == Permutations(Controller)
=============================================================================

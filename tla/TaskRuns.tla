------------------------------ MODULE TaskRuns ------------------------------
(***************************************************************************)
(* What an ExecutionAdapter promises the loop that polls it: a run begins  *)
(* once, comes to one end, and gives the same answer ever after, whoever   *)
(* starts, recovers or cancels meanwhile.  RunLoop takes it for granted of  *)
(* its table of jobs; ApprovedContainer implements it.                      *)
(***************************************************************************)
CONSTANTS Run    \* what the adapter gives run ids to

VARIABLES job    \* job[r]: what poll_task answers of the run, "none" before it is begun

answers == <<job>>

Ends == {"success", "failed", "blocked"}

\* a start that fails half way leaves a run that is over
Begin(r) ==
    /\ job[r] = "none"
    /\ \E answer \in {"active", "blocked"} : job' = [job EXCEPT ![r] = answer]

End(r) ==
    /\ job[r] = "active"
    /\ \E answer \in Ends : job' = [job EXCEPT ![r] = answer]

Init == job = [r \in Run |-> "none"]

Next == \E r \in Run : Begin(r) \/ End(r)

Spec == Init /\ [][Next]_answers
=============================================================================

------------------------- MODULE MCMeasuredContainer -------------------------
(***************************************************************************)
(* Both halves of start_task in one instance: the approved execution, and  *)
(* the measurement of the candidate it runs on. A behaviour takes steps of *)
(* one or of the other; the states are their union, not their product.     *)
(***************************************************************************)
EXTENDS MCApprovedContainer, CandidateEvidence

CONSTANTS app, doc, c1    \* two files, and what the base holds of them

BaseCommits == {[p \in Paths |-> IF p = app THEN c1 ELSE Gone]}

MCInit == Init /\ CandidateInit

MCNext ==
    \/ CandidateInit /\ Next /\ UNCHANGED candidateVars
    \/ Init /\ CandidateNext /\ UNCHANGED vars

MCSpec == MCInit /\ [][MCNext]_<<vars, candidateVars>>
=============================================================================

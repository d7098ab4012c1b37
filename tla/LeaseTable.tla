----------------------------- MODULE LeaseTable -----------------------------
(***************************************************************************)
(* What a table of exclusive leases promises, with no clock, epochs of     *)
(* callers or rows: nobody is granted what a running process still has,    *)
(* and the grants of a task are numbered one after the other, however      *)
(* often it is released.  RuntimeLease implements it, and so does the      *)
(* shorter lease table RunLoop has in its place.                           *)
(***************************************************************************)
EXTENDS Naturals

CONSTANTS Process,    \* those who are granted leases
          Task        \* what the leases are for

VARIABLES running,    \* processes that run
          holder,     \* holder[t]: {p} once p was granted t, {} when it is free
          granted     \* granted[t]: the number of the last grant

table == <<running, holder, granted>>

Grant(p, t) ==
    /\ p \in running /\ holder[t] \cap running = {}
    /\ holder' = [holder EXCEPT ![t] = {p}]
    /\ granted' = [granted EXCEPT ![t] = @ + 1]
    /\ UNCHANGED running

Release(t) ==
    /\ holder' = [holder EXCEPT ![t] = {}]
    /\ UNCHANGED <<running, granted>>

\* processes start and end; the grants of those that end stay
Live ==
    /\ running' \in SUBSET Process
    /\ UNCHANGED <<holder, granted>>

Init ==
    /\ running \in SUBSET Process
    /\ holder = [t \in Task |-> {}]
    /\ granted = [t \in Task |-> 0]

Next == Live \/ \E t \in Task : Release(t) \/ \E p \in Process : Grant(p, t)

Spec == Init /\ [][Next]_table
=============================================================================

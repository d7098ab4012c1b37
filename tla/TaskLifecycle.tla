---------------------------- MODULE TaskLifecycle ----------------------------
(***************************************************************************)
(* What the ledger promises about each task, with no database, revision or  *)
(* client: a task is created once, moves along the edges of the lifecycle,  *)
(* is retried after a failure at most MAX_RETRY_ATTEMPTS - 1 times, and     *)
(* stays where it is once it is DONE or CANCELLED.  StateLedger implements  *)
(* it: a decision taken on a stale reading never becomes a step of it.      *)
(***************************************************************************)
EXTENDS TaskStatus

CONSTANTS Task,                 \* task ids
          MAX_RETRY_ATTEMPTS    \* state.py: 3

VARIABLES phase,    \* phase[t]: the task's status, "NONE" before it is created
          retries   \* retries[t]: how often the task was put back to READY after a failure

lifecycle == <<phase, retries>>

Create(t) ==
    /\ phase[t] = "NONE"
    /\ phase' = [phase EXCEPT ![t] = "PROPOSED"]
    /\ UNCHANGED retries

Retry(t) ==
    /\ phase[t] = "FAILED"
    /\ retries[t] < MAX_RETRY_ATTEMPTS - 1
    /\ phase' = [phase EXCEPT ![t] = "READY"]
    /\ retries' = [retries EXCEPT ![t] = @ + 1]

Advance(t, to) ==
    /\ <<phase[t], to>> \in ALLOWED_TRANSITIONS
    /\ ~IsRetry(phase[t], to)
    /\ phase' = [phase EXCEPT ![t] = to]
    /\ UNCHANGED retries

Init == phase = [t \in Task |-> "NONE"] /\ retries = [t \in Task |-> 0]

Next == \E t \in Task : Create(t) \/ Retry(t) \/ \E to \in Status : Advance(t, to)

Spec == Init /\ [][Next]_lifecycle
=============================================================================

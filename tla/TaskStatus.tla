----------------------------- MODULE TaskStatus -----------------------------
(***************************************************************************)
(* The task lifecycle of orchestrator/core/state.py: the statuses and the   *)
(* edges a transition may take.  Every other module reads them from here.   *)
(***************************************************************************)
EXTENDS Naturals

\* class TaskStatus
Status == {"PROPOSED", "READY", "RUNNING", "VALIDATING", "REVIEW", "READY_FOR_MERGE",
           "DONE", "FAILED", "BLOCKED", "NEEDS_HUMAN", "CANCELLED"}

\* ALLOWED_TRANSITIONS, as the set of its edges
ALLOWED_TRANSITIONS ==
         {"PROPOSED"}        \X {"READY", "BLOCKED", "CANCELLED"}
    \cup {"READY"}           \X {"RUNNING", "BLOCKED", "CANCELLED"}
    \cup {"RUNNING"}         \X {"VALIDATING", "FAILED", "BLOCKED", "CANCELLED"}
    \cup {"VALIDATING"}      \X {"REVIEW", "FAILED", "BLOCKED", "CANCELLED"}
    \cup {"REVIEW"}          \X {"READY_FOR_MERGE", "READY", "FAILED", "NEEDS_HUMAN", "CANCELLED"}
    \cup {"READY_FOR_MERGE"} \X {"DONE", "FAILED", "NEEDS_HUMAN", "CANCELLED"}
    \cup {"FAILED"}          \X {"READY", "CANCELLED"}
    \cup {"BLOCKED"}         \X {"PROPOSED", "CANCELLED"}
    \cup {"NEEDS_HUMAN"}     \X {"PROPOSED", "READY", "CANCELLED"}

TERMINAL_STATES == {"DONE", "CANCELLED"}

\* the edge that consumes the retry budget
IsRetry(from, to) == from = "FAILED" /\ to = "READY"
=============================================================================

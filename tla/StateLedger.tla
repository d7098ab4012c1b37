----------------------------- MODULE StateLedger -----------------------------
(***************************************************************************)
(* StateLedger (orchestrator/core/state.py): the SQLite table of task       *)
(* states, written by several processes under a compare-and-swap on the     *)
(* revision.                                                                *)
(*                                                                          *)
(* A client reads a task with get_state, thinks, and later calls transition *)
(* with the revision it read; between the two any other client may commit.  *)
(* The body of initialize_task and of transition runs inside one BEGIN      *)
(* IMMEDIATE ... COMMIT and is one atomic action here; a call that raises   *)
(* rolls back and changes nothing, so it is no step.  The JSON copy written *)
(* after COMMIT is the subject of LedgerMirror: get_state never looks at it *)
(* while the row exists.                                                    *)
(*                                                                          *)
(* Abstracted: digests and SHAs are members of small sets, timestamps and   *)
(* reasons are left out, and the other bindings of an approval token        *)
(* (repository, ref, policy and plan hash) are taken as matching.           *)
(***************************************************************************)
EXTENDS TaskStatus, Integers, Sequences, FiniteSets

CONSTANTS Task,                  \* task ids
          Client,                \* processes and threads that use the ledger
          BaseSha, PrHead, Digest,    \* base SHAs, pull-request head SHAs, candidate digests
          None,                  \* Python's None
          MAX_RETRY_ATTEMPTS,    \* state.py: 3
          MaxRevision            \* bound on the revisions explored

ASSUME RetryAssumption == MAX_RETRY_ATTEMPTS \in Nat \ {0}
ASSUME BoundAssumption == MaxRevision \in Nat
ASSUME NoneAssumption == None \notin BaseSha \cup PrHead \cup Digest

VARIABLES
    created,    \* primary keys of table task_states
    row,        \* row[t]: the row of t (meaningful for t \in created)
    known,      \* known[c][t]: revision and status of t as c last read or wrote it
    consumed,   \* approval tokens consumed; a token is what it is bound to
    evidence,   \* history variable: base and head the recorded candidate was recorded with
    gated       \* history variable: tasks that became DONE under requires_human_approval

vars == <<created, row, known, consumed, evidence, gated>>

Token == [task : Task, head : PrHead]

Row == [revision : Nat, status : Status, attempt : 0 .. MAX_RETRY_ATTEMPTS,
        base : BaseSha \cup {None}, candidate : Digest \cup {None}, head : PrHead \cup {None},
        history : Seq(Status)]

\* The row initialize_task inserts.  history keeps the to_status of each entry: its from_status is
\* the entry before, and its revision is its position.
FirstRow(base) == [revision |-> 0, status |-> "PROPOSED", attempt |-> 0, base |-> base,
                   candidate |-> None, head |-> None, history |-> <<"PROPOSED">>]

NotRead == [revision |-> -1, status |-> "PROPOSED"]
Reading(r) == [revision |-> r.revision, status |-> r.status]

TypeOK ==
    /\ created \subseteq Task
    /\ row \in [Task -> Row]
    /\ known \in [Client -> [Task -> [revision : Nat \cup {-1}, status : Status]]]
    /\ consumed \subseteq Token
    /\ evidence \in [Task -> (BaseSha \cup {None}) \X (PrHead \cup {None})]
    /\ gated \subseteq Task

-----------------------------------------------------------------------------
\* The optional arguments of transition
Given(arg, recorded) == IF arg # None THEN arg ELSE recorded

\* fault: only a rebase invalidates evidence, a push does not
CandidateAfter_KeptOnPush(r, base, head, candidate) ==
    IF Given(base, r.base) # r.base THEN None ELSE Given(candidate, r.candidate)

\* candidate_digest after the call: evidence for another base or another head is dropped, even
\* when the same call supplies a new digest
CandidateAfter(r, base, head, candidate) ==
    IF Given(base, r.base) # r.base \/ Given(head, r.head) # r.head
    THEN None ELSE Given(candidate, r.candidate)

\* pr_head_sha after the call: a head published for another base is dropped
HeadAfter(r, base, head) ==
    IF Given(base, r.base) # r.base THEN None ELSE Given(head, r.head)

\* fault: changes requested in review cost an attempt too
AttemptAfter_CountsReview(r, to) ==
    IF to = "READY" /\ r.attempt > 0 /\ r.attempt < MAX_RETRY_ATTEMPTS THEN r.attempt + 1
    ELSE IF r.status = "READY" /\ to = "RUNNING" /\ r.attempt = 0 THEN 1
    ELSE r.attempt

\* attempt after the call
AttemptAfter(r, to) ==
    IF IsRetry(r.status, to) THEN r.attempt + 1
    ELSE IF r.status = "READY" /\ to = "RUNNING" /\ r.attempt = 0 THEN 1
    ELSE r.attempt

\* fault: off by one at the limit
WithinRetryBudget_OffByOne(r, to) == IsRetry(r.status, to) => r.attempt <= MAX_RETRY_ATTEMPTS

WithinRetryBudget(r, to) == IsRetry(r.status, to) => r.attempt < MAX_RETRY_ATTEMPTS

\* fault: the history is not copied forward
RowAfter_DropsHistory(r, to, base, head, candidate) ==
    [revision  |-> r.revision + 1,
     status    |-> to,
     attempt   |-> AttemptAfter(r, to),
     base      |-> Given(base, r.base),
     candidate |-> CandidateAfter(r, base, head, candidate),
     head      |-> HeadAfter(r, base, head),
     history   |-> <<to>>]

\* the row the UPDATE writes
RowAfter(r, to, base, head, candidate) ==
    [revision  |-> r.revision + 1,
     status    |-> to,
     attempt   |-> AttemptAfter(r, to),
     base      |-> Given(base, r.base),
     candidate |-> CandidateAfter(r, base, head, candidate),
     head      |-> HeadAfter(r, base, head),
     history   |-> Append(r.history, to)]

\* fault: any consumed token of the task will do
ApprovedMerge_AnyHead(t, r, head) == \E k \in consumed : k.task = t

\* verify_consumed_token_binding for action merge_pull_request: the token was consumed for this
\* task and for the head the call names, or else the recorded one
ApprovedMerge(t, r, head) ==
    \E k \in consumed : k.task = t /\ k.head = Given(head, r.head)

\* fault: any revision ever read is accepted
CasMatches_Stale(c, t) == known[c][t].revision \in 0 .. row[t].revision

CasMatches(c, t) == known[c][t].revision = row[t].revision

-----------------------------------------------------------------------------
\* fault: the row is replaced if it exists
InitializeTask_Replaces(c, t, base) ==
    /\ created' = created \cup {t}
    /\ row' = [row EXCEPT ![t] = FirstRow(base)]
    /\ known' = [known EXCEPT ![c][t] = Reading(FirstRow(base))]
    /\ UNCHANGED <<consumed, evidence, gated>>

\* initialize_task: the first caller inserts the row, a later one is refused
InitializeTask(c, t, base) ==
    /\ t \notin created
    /\ created' = created \cup {t}
    /\ row' = [row EXCEPT ![t] = FirstRow(base)]
    /\ known' = [known EXCEPT ![c][t] = Reading(FirstRow(base))]
    /\ UNCHANGED <<consumed, evidence, gated>>

\* get_state: what the client learns may be out of date when it acts on it
GetState(c, t) ==
    /\ t \in created
    /\ known' = [known EXCEPT ![c][t] = Reading(row[t])]
    /\ UNCHANGED <<created, row, consumed, evidence, gated>>

\* transition(t, expected_revision = the revision c knows, to, ...): the committing case.  A new
\* candidate digest counts as evidence for the base and head recorded by the same call.
Transition(c, t, to, base, head, candidate, requiresApproval) ==
    LET r == row[t]
        new == RowAfter(r, to, base, head, candidate)
    IN  /\ t \in created /\ r.revision < MaxRevision
        /\ requiresApproval => to = "DONE"      \* read nowhere else
        /\ CasMatches(c, t)
        /\ r.status \notin TERMINAL_STATES
        /\ <<r.status, to>> \in ALLOWED_TRANSITIONS
        /\ to = "DONE" /\ requiresApproval => ApprovedMerge(t, r, head)
        /\ WithinRetryBudget(r, to)
        /\ row' = [row EXCEPT ![t] = new]
        /\ known' = [known EXCEPT ![c][t] = Reading(new)]
        /\ evidence' = [evidence EXCEPT ![t] = IF candidate # None THEN <<new.base, new.head>> ELSE @]
        /\ gated' = IF to = "DONE" /\ requiresApproval THEN gated \cup {t} ELSE gated
        /\ UNCHANGED <<created, consumed>>

\* ApprovalManager.verify_and_consume_token, called by other components.  revoke_token refuses a
\* consumed token, so a token revoked before use is one that is never consumed.
ConsumeToken(k) ==
    /\ k \notin consumed
    /\ consumed' = consumed \cup {k}
    /\ UNCHANGED <<created, row, known, evidence, gated>>

Init ==
    /\ created = {}
    /\ row = [t \in Task |-> FirstRow(None)]
    /\ known = [c \in Client |-> [t \in Task |-> NotRead]]
    /\ consumed = {}
    /\ evidence = [t \in Task |-> <<None, None>>]
    /\ gated = {}

Next ==
    \/ \E c \in Client, t \in Task :
          \/ \E base \in BaseSha \cup {None} : InitializeTask(c, t, base)
          \/ GetState(c, t)
          \/ \E to \in {s \in Status : <<row[t].status, s>> \in ALLOWED_TRANSITIONS},  \* others are refused
                base \in BaseSha \cup {None}, head \in PrHead \cup {None},
                candidate \in Digest \cup {None}, requiresApproval \in BOOLEAN :
                Transition(c, t, to, base, head, candidate, requiresApproval)
    \/ \E k \in Token : ConsumeToken(k)

Spec == Init /\ [][Next]_vars

-----------------------------------------------------------------------------
\* The history of a row is the path its task took: one entry per revision, the last one the
\* current status, each step an edge of the lifecycle (new_state["history"] is copied forward by
\* every transition, whoever makes it).
HistoryIsLegalPath ==
    \A t \in created :
        LET r == row[t] IN
        /\ Len(r.history) = r.revision + 1
        /\ r.history[1] = "PROPOSED" /\ r.history[Len(r.history)] = r.status
        /\ \A i \in 1 .. r.revision : <<r.history[i], r.history[i + 1]>> \in ALLOWED_TRANSITIONS

\* The persisted attempt number is the number of retries after a failure, plus one once the task
\* ever ran: preflight restarts, changes requested in review and human detours neither reset nor
\* consume the budget.
RetrySteps(h) == {i \in 1 .. Len(h) - 1 : IsRetry(h[i], h[i + 1])}
EverRan(h) == \E i \in 1 .. Len(h) : h[i] = "RUNNING"
AttemptCountsRetries ==
    \A t \in created :
        LET h == row[t].history IN
        row[t].attempt = Cardinality(RetrySteps(h)) + (IF EverRan(h) THEN 1 ELSE 0)

\* A recorded candidate digest was recorded for the base and the pull-request head the row names
\* now: no sequence of rebases and pushes leaves evidence behind that describes another tree.
EvidenceIsCurrent ==
    \A t \in created :
        row[t].candidate # None => evidence[t] = <<row[t].base, row[t].head>>

\* A task that became DONE under requires_human_approval names a head for which a merge token of
\* that task was consumed: approval of an earlier push does not carry over.  (The head is None
\* when the same call also moved the base, which drops it after the check.)
GatedDoneIsApproved ==
    \A t \in gated :
        /\ row[t].status = "DONE"
        /\ row[t].head # None => [task |-> t, head |-> row[t].head] \in consumed

\* No lost update: a row is replaced only by a client whose latest reading of the task is exactly
\* the revision and status being replaced.
NoLostUpdate ==
    [][\A t \in created : row'[t] # row[t] =>
          \E c \in Client : known[c][t] = Reading(row[t]) /\ known'[c][t] = Reading(row'[t])]_vars

\* ARCHITECTURE.md on the ledger: a task becomes DONE only once a human approval token has been
\* verified and consumed.
DoneNeedsConsumedToken ==
    \A t \in created : row[t].status = "DONE" => \E k \in consumed : k.task = t

\* The lifecycle each task follows, whatever the clients interleave.
Lifecycle == INSTANCE TaskLifecycle WITH
    phase   <- [t \in Task |-> IF t \in created THEN row[t].status ELSE "NONE"],
    retries <- [t \in Task |-> IF row[t].attempt = 0 THEN 0 ELSE row[t].attempt - 1]
ImplementsLifecycle == Lifecycle!Spec
=============================================================================

--------------------------- MODULE GitHubPublisher ---------------------------
(***************************************************************************)
(* RealGitHubStatePublisher (orchestrator/adapters/github.py): branches    *)
(* and pull requests are published with an intent recorded first, the      *)
(* remote looked at afterwards, and the operations table as the record.    *)
(* The remote is shared with people and with other publishers, a command   *)
(* may take effect and still be reported as failed (_run gives a timeout   *)
(* the return code 124), and a process may die between any two calls.      *)
(*                                                                         *)
(* One call of publish_branch or create_or_update_pr is an operation o;    *)
(* call[o].pc is the place it has reached:                                 *)
(*   intent -> pushed -> confirm            for a branch                   *)
(*   intent -> create -> (verify | recheck) -> confirm   for a pull request*)
(***************************************************************************)
EXTENDS Integers, Sequences, FiniteSets

CONSTANTS
    Ops,      \* operation identifiers (a fresh uuid for each call)
    Heads,    \* task branches
    Bases,    \* protected branches; the base of a pull request
    Shas,     \* commits
    NoSha,    \* the remote branch does not exist
    MaxPRs    \* bound: pull requests ever opened

ASSUME HeadsAssumption == Heads \cap Bases = {} /\ NoSha \notin Shas
ASSUME OpsAssumption == "other" \notin Ops
ASSUME MaxPRsAssumption == MaxPRs \in Nat

VARIABLES
    journal,     \* the operations table: a row or NoRow for each operation
    call,        \* the running calls
    toReconcile, \* rows reconcile_pending_operations has read and not yet decided
    refs,        \* remote: the tip of each task branch
    prs,         \* remote: the pull requests in the order they were opened
    held,        \* history: every commit each branch has pointed at
    lookedAt     \* history: how many pull requests there were at o's first lookup

remote == <<refs, prs>>
history == <<held, lookedAt>>
vars == <<journal, call, toReconcile, refs, prs, held, lookedAt>>

-----------------------------------------------------------------------------
(* Rows, calls and pull requests *)

Settled == {"PUBLISHED", "FAILED", "CREATED", "REUSED", "REUSED_AFTER_ERROR", "UNCERTAIN",
            "RECONCILED"}
NoRow == [status |-> "NONE"]
PublishRow == [status : Settled \cup {"PENDING"}, head : Heads, sha : Shas]
PullRow == [status : Settled \cup {"PENDING"}, head : Heads, base : Bases, pr : 0..MaxPRs]

\* The arguments of a running call, what it will confirm, and the place it has reached.
Publish == [head : Heads, sha : Shas]
Pull == [head : Heads, base : Bases]
NoArgs == [none |-> TRUE]
Place == {"idle", "intent", "pushed", "create", "verify", "recheck", "confirm", "over"}
Call == [pc : Place, args : {NoArgs} \cup Publish \cup Pull,
         status : Settled \cup {"NONE"}, pr : 0..MaxPRs]
IdleCall == [pc |-> "idle", args |-> NoArgs, status |-> "NONE", pr |-> 0]

args(o) == call[o].args
IsPublish(record) == "sha" \in DOMAIN record
IsPull(record) == "base" \in DOMAIN record

\* A merged pull request is CLOSED here: the publisher only asks whether it is open.
PullRequest == [head : Heads, base : Bases, state : {"OPEN", "CLOSED"},
                opener : Ops \cup {"other"}]

\* gh pr list --state all: the numbers of the pull requests it shows, newest first.
Listed(Shown(_)) ==
    LET numbers == {n \in DOMAIN prs : Shown(prs[n])}
    IN  [i \in 1..Cardinality(numbers) |->
            CHOOSE n \in numbers : Cardinality({m \in numbers : m > n}) = i - 1]

PairList(h, b) == LET Shown(p) == p.head = h /\ p.base = b IN Listed(Shown)
HeadList(h) == LET Shown(p) == p.head = h IN Listed(Shown)

IsOpen(n) == prs[n].state = "OPEN"
HasOpen(h, b) == \E n \in DOMAIN prs : prs[n].head = h /\ prs[n].base = b /\ IsOpen(n)

MoveRef(h, s) ==
    /\ refs' = [refs EXCEPT ![h] = s]
    /\ held' = [held EXCEPT ![h] = @ \cup {s}]

OpenPull(h, b, who) ==
    /\ refs[h] # NoSha /\ ~HasOpen(h, b) /\ Len(prs) < MaxPRs
    /\ prs' = Append(prs, [head |-> h, base |-> b, state |-> "OPEN", opener |-> who])

-----------------------------------------------------------------------------
Init ==
    /\ journal = [o \in Ops |-> NoRow]
    /\ call = [o \in Ops |-> IdleCall]
    /\ toReconcile = {}
    /\ refs = [h \in Heads |-> NoSha]
    /\ prs = <<>>
    /\ held = [h \in Heads |-> {}]
    /\ lookedAt = [o \in Ops |-> 0]

Goto(o, place) == call' = [call EXCEPT ![o].pc = place]
\* The call will confirm the operation with this status and pull request.
Outcome(o, status, pr) ==
    call' = [call EXCEPT ![o].pc = "confirm", ![o].status = status, ![o].pr = pr]
\* The call returns, raises or dies with its process. GitHubPRError from _verified_pr is
\* none of the exceptions the callers catch: the call raises and its row stays PENDING.
End(o) == call' = [call EXCEPT ![o] = [IdleCall EXCEPT !.pc = "over"]]

Begin(o, arguments) ==
    /\ call[o].pc = "idle"
    /\ call' = [call EXCEPT ![o].pc = "intent", ![o].args = arguments]
RecordIntent(o, row) == journal' = [journal EXCEPT ![o] = row]

\* _confirm_operation: COALESCE keeps the recorded number when none is given.
ConfirmOperation(o) ==
    /\ call[o].pc = "confirm"
    /\ journal' = [journal EXCEPT ![o] =
            IF call[o].pr = 0 THEN [@ EXCEPT !.status = call[o].status]
            ELSE [@ EXCEPT !.status = call[o].status, !.pr = call[o].pr]]
    /\ End(o)
    /\ UNCHANGED <<toReconcile, remote, history>>

-----------------------------------------------------------------------------
(* publish_branch *)

\* The policy refuses protected branches and force pushes, and the push destination must be
\* the approved repository; s is the local HEAD, read once.
StartPublish(o, h, s) ==
    /\ Begin(o, [head |-> h, sha |-> s])
    /\ RecordIntent(o, [status |-> "PENDING", head |-> h, sha |-> s])
    /\ UNCHANGED <<toReconcile, remote, history>>

\* git push of the recorded commit. It may land or not, and an answer may be lost.
Push(o) ==
    /\ call[o].pc = "intent" /\ IsPublish(args(o))
    /\ \/ /\ MoveRef(args(o).head, args(o).sha)
          /\ Goto(o, "pushed") \/ Outcome(o, "FAILED", 0)
       \/ /\ Outcome(o, "FAILED", 0)
          /\ UNCHANGED <<refs, held>>
    /\ UNCHANGED <<journal, toReconcile, prs, lookedAt>>

\* git ls-remote: fails, or shows the recorded commit, or another one.
VerifyRef(o) ==
    /\ call[o].pc = "pushed"
    /\ \/ Outcome(o, "FAILED", 0)
       \/ refs[args(o).head] = args(o).sha /\ Outcome(o, "PUBLISHED", 0)
    /\ UNCHANGED <<journal, toReconcile, remote, history>>

-----------------------------------------------------------------------------
(* create_or_update_pr *)

\* fault: nothing is written before the commands
StartPull_Unrecorded(o, h, b) ==
    /\ Begin(o, [head |-> h, base |-> b])
    /\ UNCHANGED <<journal, toReconcile, remote, history>>

StartPull(o, h, b) ==
    /\ Begin(o, [head |-> h, base |-> b])
    /\ RecordIntent(o, [status |-> "PENDING", head |-> h, base |-> b, pr |-> 0])
    /\ UNCHANGED <<toReconcile, remote, history>>

\* The newest pull request of the list is used if it is open; _verified_pr raises if not.
UseNewest(o, list, status) ==
    IF IsOpen(list[1]) THEN Outcome(o, status, list[1]) ELSE End(o)

ListFor(o) == PairList(args(o).head, args(o).base)

\* fault: a lookup that failed counts as one that found nothing
LookUp_Optimistic(o) ==
    /\ call[o].pc = "intent" /\ IsPull(args(o))
    /\ \/ ListFor(o) # <<>> /\ UseNewest(o, ListFor(o), "REUSED")
       \/ Goto(o, "create")
    /\ lookedAt' = [lookedAt EXCEPT ![o] = Len(prs)]
    /\ UNCHANGED <<journal, toReconcile, remote, held>>

LookUp(o) ==
    /\ call[o].pc = "intent" /\ IsPull(args(o))
    /\ \/ Outcome(o, "FAILED", 0) /\ UNCHANGED lookedAt
       \/ /\ IF ListFor(o) # <<>> THEN UseNewest(o, ListFor(o), "REUSED") ELSE Goto(o, "create")
          /\ lookedAt' = [lookedAt EXCEPT ![o] = Len(prs)]
    /\ UNCHANGED <<journal, toReconcile, remote, held>>

\* gh pr create: opens the pull request or not; return code 0 only if it did.
Create(o) ==
    /\ call[o].pc = "create"
    /\ \/ OpenPull(args(o).head, args(o).base, o) /\ (Goto(o, "verify") \/ Goto(o, "recheck"))
       \/ Goto(o, "recheck") /\ UNCHANGED prs
    /\ UNCHANGED <<journal, toReconcile, refs, history>>

\* After a failed create: another caller, or the timed out command, may have opened it.
Recheck(o) ==
    /\ call[o].pc = "recheck"
    /\ \/ Outcome(o, "FAILED", 0)
       \/ ListFor(o) # <<>> /\ UseNewest(o, ListFor(o), "REUSED_AFTER_ERROR")
    /\ UNCHANGED <<journal, toReconcile, remote, history>>

\* fault: the newest pull request is taken although the list shows several
VerifyCreated_Newest(o) ==
    /\ call[o].pc = "verify"
    /\ \/ Outcome(o, "UNCERTAIN", 0)
       \/ Len(ListFor(o)) >= 1 /\ UseNewest(o, ListFor(o), "CREATED")
    /\ UNCHANGED <<journal, toReconcile, remote, history>>

\* After a create that answered: the list must show exactly one pull request.
VerifyCreated(o) ==
    /\ call[o].pc = "verify"
    /\ \/ Outcome(o, "UNCERTAIN", 0)
       \/ Len(ListFor(o)) = 1 /\ UseNewest(o, ListFor(o), "CREATED")
    /\ UNCHANGED <<journal, toReconcile, remote, history>>

\* The process of the call ends.
Crash(o) ==
    /\ call[o].pc \notin {"idle", "over"}
    /\ End(o)
    /\ UNCHANGED <<journal, toReconcile, remote, history>>

-----------------------------------------------------------------------------
(* reconcile_pending_operations *)

ReconcileStart ==
    /\ toReconcile = {}
    /\ toReconcile' = {o \in Ops : journal[o].status = "PENDING"}
    /\ toReconcile' # {}
    /\ UNCHANGED <<journal, call, remote, history>>

\* One row: the query answers, and what it shows is taken as this operation's effect. The
\* list is asked for the head only, in any state. The UPDATE does not look at the status.
Reconcile(o) ==
    /\ o \in toReconcile
    /\ \/ /\ IsPublish(journal[o]) /\ refs[journal[o].head] = journal[o].sha
          /\ journal' = [journal EXCEPT ![o].status = "RECONCILED"]
       \/ /\ IsPull(journal[o]) /\ HeadList(journal[o].head) # <<>>
          /\ journal' = [journal EXCEPT ![o].status = "RECONCILED",
                                        ![o].pr = HeadList(journal[o].head)[1]]
    /\ toReconcile' = toReconcile \ {o}
    /\ UNCHANGED <<call, remote, history>>

\* The query fails or shows nothing that fits: the row is left for a later call.
LeavePending(o) ==
    /\ o \in toReconcile
    /\ toReconcile' = toReconcile \ {o}
    /\ UNCHANGED <<journal, call, remote, history>>

-----------------------------------------------------------------------------
(* Everybody else who uses the repository *)

OtherPush(h, s) ==
    /\ MoveRef(h, s)
    /\ UNCHANGED <<journal, call, toReconcile, prs, lookedAt>>

OtherOpen(h, b) ==
    /\ OpenPull(h, b, "other")
    /\ UNCHANGED <<journal, call, toReconcile, refs, history>>

Close(n) ==
    /\ n \in DOMAIN prs /\ IsOpen(n)
    /\ prs' = [prs EXCEPT ![n].state = "CLOSED"]
    /\ UNCHANGED <<journal, call, toReconcile, refs, history>>

Others ==
    \/ \E h \in Heads, s \in Shas : OtherPush(h, s)
    \/ \E h \in Heads, b \in Bases : OtherOpen(h, b)
    \/ \E n \in 1..MaxPRs : Close(n)

Step(o) ==
    \/ Push(o) \/ VerifyRef(o)
    \/ LookUp(o) \/ Create(o) \/ Recheck(o) \/ VerifyCreated(o)
    \/ ConfirmOperation(o)

Next ==
    \/ \E o \in Ops :
        \/ \E h \in Heads, s \in Shas : StartPublish(o, h, s)
        \/ \E h \in Heads, b \in Bases : StartPull(o, h, b)
        \/ Step(o) \/ Crash(o)
        \/ Reconcile(o) \/ LeavePending(o)
    \/ ReconcileStart
    \/ Others

Spec == Init /\ [][Next]_vars
-----------------------------------------------------------------------------
(* Properties *)

\* The variables hold what their comments say.
TypeOK ==
    /\ journal \in [Ops -> {NoRow} \cup PublishRow \cup PullRow]
    /\ call \in [Ops -> Call]
    /\ toReconcile \subseteq Ops
    /\ refs \in [Heads -> Shas \cup {NoSha}]
    /\ prs \in Seq(PullRequest) /\ Len(prs) <= MaxPRs
    /\ held \in [Heads -> SUBSET Shas]
    /\ lookedAt \in [Ops -> 0..MaxPRs]

\* Whatever the publisher has opened on the remote is written down before, for the same
\* branches, so a crash at any point leaves a row that names it (_record_intent comes first).
EffectsAreJournaled ==
    \A n \in DOMAIN prs : LET o == prs[n].opener IN
        o \in Ops => IsPull(journal[o]) /\ journal[o].head = prs[n].head /\ journal[o].base = prs[n].base

\* A settled row says what the remote has really shown: the commit was on the branch, the
\* pull request is of the operation's two branches, and one reported as CREATED is the one
\* this operation opened, although a rival or a person may open another while the answer
\* is being verified.
SettledRowIsTrue ==
    \A o \in Ops :
        /\ IsPublish(journal[o]) /\ journal[o].status \in {"PUBLISHED", "RECONCILED"}
              => journal[o].sha \in held[journal[o].head]
        /\ IsPull(journal[o]) /\ journal[o].status \in {"CREATED", "REUSED", "REUSED_AFTER_ERROR"}
              => LET n == journal[o].pr IN
                 /\ n \in DOMAIN prs
                 /\ prs[n].head = journal[o].head /\ prs[n].base = journal[o].base
                 /\ journal[o].status = "CREATED" => prs[n].opener = o

\* No retry opens a second pull request: what an operation opens did not exist, in any
\* state, when it looked, whatever happened to the operations before it.
NoSecondPullRequest ==
    \A n \in DOMAIN prs : \A m \in 1..(n - 1) :
        /\ prs[n].opener \in Ops
        /\ prs[m].head = prs[n].head /\ prs[m].base = prs[n].base
        => m > lookedAt[prs[n].opener]
=============================================================================

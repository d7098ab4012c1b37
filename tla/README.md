# AI engineering factory: formal models

TLA+ models of the control plane under `src/orchestrator/`: the ledger of task states, the lease
manager, the run loop with its scheduler and adapters, the approved container execution with the
evidence it measures, the cancel command, the GitHub publisher, the merge gate, and the programs that
handle one-time credentials. TLC checks them on small instances; TLAPS proves
every safety property of the passing runs for every value of the constants, some of those of the
run loop under hypotheses that section 4 names. `PROJECT.json` maps each
definition to the lines it models.

## 1. The system

A *plan* is a set of task manifests with dependencies, allowed paths and resources. A *controller*
process runs `RunLoopController`: it loads the tasks from the ledger, polls the runs it has
started, and dispatches what its scheduler calls ready. People and preflight move tasks between
READY, review and merge with `StateLedger.transition`; an operator may cancel a task from another
process. What the processes share is on disk: the ledger, the leases, the approvals, the record of
executions (each a SQLite database) and the JSON copies beside them. When a task is ready, the
publisher pushes its branch and opens a pull request; a person merges it, and `verify_human_merge`
compares the merge with a consumed approval before the ledger may say DONE. Beside this stand the
credential programs: two brokers that live in one process, and three entries by which the owner of a
provider key lets a program use it once.

| component | state | operations | what is hard | what makes it correct | status |
|---|---|---|---|---|---|
| `StateLedger` (core/state.py) | one row per task: revision, status, attempt, base, head, candidate, history | `initialize_task`, `get_state`, `transition` | several processes; decisions on stale readings; evidence across rebases and pushes | compare-and-swap; legal history; retry budget; evidence and approval of the current tree | modelled, except the JSON copy |
| `RuntimeLeaseManager` (core/lease.py) | one lease row and one epoch row per task | `acquire_lease`, `heartbeat`, `release_lease`, `get_active_lease` | crash, pid reuse, expiry, late calls | a running owner keeps its lease; epochs never repeat | modelled |
| `RunLoopController` (core/loop.py) | sessions in memory | `initialize_tasks`, `step` | a crash at any point; exceptions half-way; rival controllers; uncertain starts | one worker per task; nothing RUNNING forgotten; results match runs; runs get collected | modelled |
| `DAGScheduler` (core/scheduler.py) | statuses and active tasks in memory | `update_task_status`, `dispatch`, `get_dispatchable_tasks` | in-memory copy of the ledger | dependencies, conflicts, limit | modelled with the loop |
| `ApprovedContainerAdapter` (adapters/container.py) | executions table | `start_task`, `poll_task`, `recover_task` | three stores, crash between them | a token is used once; no silent redispatch; a saved result stays | modelled |
| `OfflineContainerRunner` (core/container.py) | journal file, containers | `run`, `reconcile` | daemon calls that time out after taking effect | no container outlives a confirmed cleanup; results are measured | modelled |
| `ApprovalManager`, registry (core/approval.py, core/auth.py) | approvals table, JSON copies | issue, revoke, consume, verify | consumption against revocation and expiry | consumed once, never after revocation; a copy claims no more than the table | modelled, signatures as unforgeable |
| `RealGitHubStatePublisher` (adapters/github.py) | operations table, the remote | publish, create pull request, reconcile, verify merge | lost answers, crash between effect and record, other users of the remote | a settled row tells the truth; nothing is opened twice; a verified merge is an approved one | modelled |
| measured evidence (core/worktree.py, artifacts.py, verifier.py, junit.py) | a copy of the worktree, evidence | snapshot, collect, diff, verify, invalidate | the worktree and its index change meanwhile | evidence is of what ran | snapshot, collection, diff, verification; not the phase-contract rules, path rules and handoffs |
| command line (cli.py) | none | `cancel`, `approve`, `status` | reads that are stale when used | a cancelled task has no worker | `cancel` |
| credential brokers (bounded_credential_mock.py, local_credential_broker.py) | handles in memory | grant, execute, cancel, delete | cancel or delete during an operation | a handle is used once; what is withdrawn does not succeed | modelled |
| one-time entries (runpod_\*.py) | claim files | check, claim, read | crash after the claim; approval changes while in use | an approval is used at most once; a success is still approved | modelled |
| `ManualAdapter`, native adapter | runs in memory | the adapter interface | | | the interface, as "contract" |
| policy, hooks, sandbox, schema, handoff | none or files | pure functions, subprocess and git calls | | | not modelled (section 7), except the branch rule of the policy |
| scripts, schemas, Windows credential store | | | | | not modelled |

The hazards of this code, each at its line and with the property that would catch it, are listed in
`PROJECT.json`.

## 2. Modules

`TaskStatus` has the statuses and the edges of the lifecycle and is used by all the others.

### TaskLifecycle and StateLedger

`TaskLifecycle` is what the ledger promises about a task without revisions or clients: created
once, moved along the edges, retried at most `MAX_RETRY_ATTEMPTS - 1` times, final once DONE or
CANCELLED. `StateLedger` implements it (`ImplementsLifecycle`, with `phase` the status or "NONE"
and `retries` the attempt less one).

In `StateLedger` a client reads (`GetState`) and later calls `Transition` with the revision it
read. `Transition` is the whole of the method: compare-and-swap, terminal states, edges, merge
gate, retry budget, attempt, evidence, history. The body runs between BEGIN IMMEDIATE and COMMIT
and is one step; a call that raises rolls back and is no step. `evidence` and `gated` are history
variables.

Abstracted: digests and SHAs are members of small sets; the bindings of a token other than task and
head are taken as matching; a token revoked before use is one never consumed (`revoke_token`
refuses a consumed one, core/approval.py:273). The JSON copy is left out: while the row exists
nothing reads it.

### LeaseTable and RuntimeLease

`LeaseTable` is a table of exclusive leases with nothing else: `Grant` of what no running process
has, numbered next after the last grant, and `Release`. `RuntimeLease` implements it
(`ImplementsTable`: the holder is the pid of the row, the number is the one in `lease_epochs`).
`RunLoop`, which needs no clock and no readers, has a shorter lease table of its own and uses it as
the same table (`UsesTable`); this is what justifies the shortening.

In `RuntimeLease` a process is its pid; it may end at any time, and another may start under the same pid.
`acquire_lease` and `heartbeat` are two steps, reading the clock and the transaction, so they act
on old time. `CallRaises` is every refusal, a locked database included. `ReleaseSeen` is the
release by somebody who only read the lease (`cmd_cancel`, or a controller that recovered a
session); `withdrawn` remembers which grants were released that way. `worker_id` is a function of
the task and is left out. The clock only moves forward.

### RunLoop

The loop of each controller, split at each call of the ledger, the lease table and the adapter, so
that anybody may act in between and the process may die there. The program counter `ctl[c].at`:

| place | code |
|---|---|
| `initialize` | `initialize_tasks`: `Load`, `Recover`, `InitializeRaises`, `EndInitialize` |
| `poll`, `closing` | first half of `step`: `PollActive`, `Collect`, `BlockDownstream`, `ReleaseFinished`, `EndPoll`, and what raises |
| `dispatch`, `claim`, `start`, `report` | second half: `Acquire`, `Claim`, `StartTask`, `StartTaskRaises`, `ReportUncertain`, `EndDispatch` |
| `idle` | between two calls |

A call that raises ends the step; what was done stays done, sessions included. `op` is the cancel
command, one step per line of `cmd_cancel` that touches shared state.

Abstracted, and why it is sound for the properties checked:

- The ledger is its status column. `get_state` and the `transition` after it are one step: a commit
  between them makes the transition raise CASConflictError; after that commit the same transition
  is illegal, so in the model it raises too, with the same effect on the loop. (Blocking a dependent is
  the exception: a commit in between raises, where the model may still find BLOCKED legal. The
  model then goes on where the code raises; the raise itself is the wedge of section 5.)
- The reads of a recovery (`get_state`, `get_active_lease`, `recover_task`) are one step: a cancel
  between them leaves the same state as a cancel right after them.
- The rows exist from the start; the retry budget belongs to `StateLedger`; lease time is left out
  (`RuntimeLease` shows expiry takes nothing away).
- A run is named by the lease epoch it started under. `Recover` does not ask for the run of the last
  dispatch: `recover_task` looks up the one record the task has (adapters/container.py:272), and when a
  controller died between the second claim of a task and the start, that is the run of the first. Its
  result is adopted under the new lease. `CurrentRun` is what a session should be for.
- Sessions and tasks are visited in any order.
- I/O errors are left out. A raise of `initialize_tasks` ends the process; one of `step` returns
  to the caller, who may call again.
- "container" is `ApprovedContainerAdapter` as the loop sees it: `max_workers` 1, one run per task
  for ever, `recover_task`. Its `start_task` is synchronous; the model lets it return before the
  run ends, which allows more. "contract" is any other `ExecutionAdapter`.
- Each controller starts at most once, with its own pid. A grant beyond `MaxEpoch` is treated as
  refused.
- People take a BLOCKED task up again only when none of its runs is active: the reconciliation the
  ledger entry asks for ("reconcile worker and lease before retry", core/loop.py:188).

### TaskRuns

What an `ExecutionAdapter` promises the loop that polls it: `Begin` once, `End` once, and the same
answer ever after. `ApprovedContainer` implements it where the operator is careful (`ImplementsRuns`,
with `Answer` what `poll_task` says of a status), and `RunLoop` uses its table of jobs as nothing more
(`UsesRuns`, a run being a task and the epoch it was started under). So the two models agree on what
lies between them.

### ApprovedContainer

One task's approved execution: `start_task` and `recover_task` of `ApprovedContainerAdapter`, the
approvals table, `OfflineContainerRunner` with its journal, and the daemon. Executions, approvals
and the journal are three stores with no common transaction, so each write and each request to the
daemon is a step of its own:

| places of `ctl[c].at` | code |
|---|---|
| `reserve`, `snapshot`, `consume`, `admit` | `start_task` up to the call of the runner |
| `prepare`, `create`, `identify`, `start`, `wait` | `run` |
| `find`, `remember`, `remove`, `verify`, `confirm`, `discard` | `reconcile`, entered from `run` and from a recovery |
| `publish`, `block` | how `start_task` and `recover_task` end |
| `check` | `recover_task`, the row read and the owner not yet looked at |

A request that fails (`Fails`) has had no effect, its effect, or will have it later (`inflight`,
`LateEffect`); the same goes for one in the hands of a controller that is killed. `Effect` says what
the daemon makes of a request, whoever sent it: it starts an exited container once more, and a name
that is free again can be used again, so that neither single start nor final cleanup comes from the
daemon. `spent` and `starts` are history variables.

Abstracted: a run is named by its control database and task, since a claim is for ever and its
run_id random; of a token's bindings only the task is kept, the others being further equations of
the same kind; expiry is told of unused tokens only, where it matters; disk errors are left out;
the checks of image, inputs, snapshot and candidate may refuse at any time. `RunLoop` has the same
adapter as seen from the loop: claimed once, and then a result, a failure or a block.

### CandidateEvidence

The part of `start_task` that `ApprovedContainer` leaves open: what the result is a result *of*.
`ListTracked` and `CopyFile` are the snapshot, file by file, with a builder at work in between (`Edit`,
`Track`, `Untrack`); `Collect` hashes the copy; `ReadBase` fetches the base, or fails to; `Recheck` is
`invalidate_on_mutation`, which may keep earlier evidence, and `VerifyCandidate` is `verify_candidate`.
A base that is fetched may be any part of it: each path that `git show` does not give is skipped, and
the base still counts as known (core/worktree.py:181). A commit is its tree and a digest is what is
hashed, so equal digests mean equal data. Files whose name the collector refuses, or outside
`allowed_paths`, end the measurement, and the row stays RESERVED as in the code.

### GitHubPublisher

An operation is one call of `publish_branch` or `create_or_update_pr`; it has a row of the
operations table, written before anything is sent (`RecordIntent`), and a place in the code:
`intent`, `pushed`, `create`, `verify` or `recheck`, `confirm`. A push or a create may fail, take
effect, or take effect and be reported as failed, since `_run` turns a timeout into a return code.
Others push, open and close between any two steps; GitHub's own rule, one open pull request for a
pair of branches, is `HasOpen`. `Crash` ends all running calls and leaves their rows PENDING.
`reconcile_pending_operations` reads its rows first (`ReconcileStart`) and decides one after the
other on what the remote shows then. `held` and `lookedAt` are history variables. Titles, bodies and
URLs are data; an update of an existing pull request changes nothing else.

### HumanMerge

The gate: an approver with one registered key, which may be replaced or revoked; tokens bound to a
commit, issued, consumed, revoked; the JSON copy each change leaves, written after the commit by a
process that may die first (`WriteMirror`, `LoseMirror`); pull requests that people push to, merge
or close, and a bot may merge. `verify_human_merge` is two steps, the token (`CheckApproval`) and the
pull request (`ViewPull`), with anything in between.

### OwnerEntries

The entries `enroll`, `account` and `startup` as one machine, since they share their flow: load the
approval, check it (again, before the claim), claim it by creating a file exclusively, touch the
store, and check once more before success is reported. What differs by entry is in the guards
(`ScopeAllowed`, `StartupAllowed`, `AllowedToClaim`, `ReadInTime`). The pins have two parts: `scope`,
which is the flow, the credential store and the interpreter, and `rest`, which is the entry itself, the
package file, the bootstrap and the adapter. All are compared before the claim; past it, `enroll` and
`account` go on with a scope that holds the first part only (`EnterScope`), while `startup` loads its
whole approval again at each check. A call that ends with success is `reported`, so that the report is a step
like any other. The clock, the approval file and
the pinned sources change between any two steps and the process may die (`Stop`, also what raises).

### CredentialBrokers

`BoundedMockBroker.execute` takes its lock twice and reads the store and runs the adapter outside
it: `Enter`, `ReadStore`, `RunAdapter`, `Finish`, with `CancelTrusted`, `DeleteTrusted` and the clock
in between. `LocalCredentialBroker` does each operation under its lock, one step each.
`withdrawn`, `grantedFor` and `used` are history variables; `used` is a sequence, so that a second use
of a grant shows even if it is of the same credential.

### MC modules

Each MC module EXTENDS the modules it checks, so that their assumptions are evaluated with the values
the cfg gives, and adds plans, human decisions and symmetries.
`MCMeasuredContainer` and `MCServices` put several small instances into one run. Their parts share
no state in the code, so a behaviour takes steps of one part only and the states are the union of the
instances, not their product; nothing is lost, since no property speaks of two parts.

## 3. Runs

| run | instance | shows |
|---|---|---|
| `ledger` | 1 task, 2 clients, 1 base, 2 heads, 1 digest, 2 attempts, 7 revisions | the invariants of the ledger, and that it implements the lifecycle |
| `ledger_done` | the same, 6 revisions | DONE without a token (violation) |
| `lease` | 3 processes, 1 task, clock to 2, timeout 1, 3 epochs | a running owner keeps its lease; epochs are fresh; the manager is a `LeaseTable` |
| `loop_solo` | 2 conflicting tasks, a controller and its successor, both adapters, 2 epochs | one worker per task, resource rules and nothing forgotten across a crash |
| `loop_chain` | a task and its dependent, cancel, one epoch each | dependencies |
| `loop_pair` | 1 task, 2 controllers at once, "contract", 2 epochs | sessions and results of one task stay apart; finished runs are collected |
| `loop_cancel` | 1 task, 1 controller at a time, cancel | a live worker loses its lease (violation) |
| `loop_retry` | a task and its dependent, 2 epochs | the loop wedges after a second failure (violation) |
| `container` | 2 control databases sharing the approvals, 2 controllers, a token for the task and one for another; beside it 2 files of 2 contents, a base of which any part is read, one evidence and later measurements | single use, one start, final cleanup, measured and lasting results, `TaskRuns` implemented; evidence is of the files that ran, and kept evidence of the same files |
| `container_cancel` | 1 database, 1 controller | a cancelled task whose container runs (violation) |
| `container_result` | 1 database, 2 controllers | a saved result replaced by a recovery (violation) |
| `services` | publisher: 2 operations, 1 branch, 2 bases, 2 commits, 2 pull requests; gate: 2 tokens, 2 commits, 2 keys, 1 pull request; entries: 2 processes, 2 approvals, 2 versions of each part of the sources, clock to 1; brokers: 2 handles, 2 operations, clock to 2, 2 enrollments | rows tell the truth and nothing is opened twice; verified merges are approved and copies claim no more; an approval, a handle, a grant is used once and success means it still holds |

**Bounds.** Seven revisions reach FAILED, a retry and a refused second one, or a merge with a push in
between. With the base unset or set, and two heads, each kind of change of the tree occurs. Tasks do not
interact in the ledger or in the lease table, so one is enough there. Three epochs allow two takeovers,
and time 2 with timeout 1 lets a lease expire while its owner runs. In the loop, two epochs allow a
retry after a failure, a crash or a reconciliation; one controller after another is enough for recovery,
two at once for rivalry. Two databases are what it takes to use a token twice, since one database claims
a task once; two controllers let the second recover what the first left, and go on recovering after
refusals. `Careful` names the databases whose operator starts a recovery only while no other controller
works there, the strict reading of "serialized by the trusted control process"
(docs/operations/APPROVED_CONTAINER_LOOP.md:79). In `container` one database is careful and one is not:
`SavedResultIsKept` and `ImplementsRuns` speak of the first, the other properties of both. One evidence
and a later measurement are what it takes to keep the evidence, one file changed and one not, each of
them with or without the base's digest. In `services` two operations let a second call meet what the
first left, confirmed or not; two bases let a listing by branch alone show a pull request of the wrong
pair; two keys and two commits are a rotation and a push after the approval; two processes compete for
one approval and two approvals follow each other; time 1 or 2 with a life of 1 lets an approval or a
handle expire while in use. In the instance of `startup`, which compares all pins at every check, only
the first part of the sources changes (`MCServices`). The proofs of section 4 say that nothing appears
in larger instances. Clients, pids, controllers, interchangeable tasks, operations, commits, approvals
and processes are symmetric; no symmetry is used where liveness is checked.

**Deadlock** is not checked in the runs of the loop and of the container: once all controllers are
dead and nobody decides anything, nothing need happen.

**Fairness** (`FairSpec`, used by `loop_pair` and `loop_retry`): each controller goes on with what
it has begun (weak fairness of `ControllerStep`) and its caller calls `step` again and again
(strong fairness of `BeginStep`, strong because `Reinitialize` competes with it) as
`run_until_idle` does while sessions are active. Nothing is assumed of crashes, restarts, people,
the operator or the runs.

Every property is checked to be breakable: `PROJECT.json` lists for each a mutation of a mapped
definition (the operators marked `fault:`) under which TLC finds it violated.

## 4. Proofs

`StateLedger_proofs` proves, for any sets of tasks, clients, bases, heads and digests and any retry
limit: type correctness; that histories are paths; that the attempt number counts the retries; that
evidence belongs to the recorded base and head; that the gate binds the head; that a row is
replaced only on a current reading; and that the ledger implements `TaskLifecycle`.
It assumes the three named assumptions of `StateLedger`. Two strengthenings are used: what a client
knows is never newer than the row, and agrees with the history at that revision (`KnownIsPast`, for
`NoLostUpdate`), and a task whose history has RUNNING has a positive attempt number
(`RanHasAttempt`, for the counting and the refinement).

`RuntimeLease_proofs` proves, for any processes, tasks and timeout: type correctness; that a running
owner keeps its lease; that two running processes never both own a grant of one task; and that
grants carry fresh epochs. The inductive invariant adds to `OwnerKeepsLease` that every epoch
anybody remembers was issued, that is, is at most the one in `lease_epochs` (`EpochsIssued`), and
that ended processes remember nothing (`DeadForget`): without the first a new grant could equal an
old one that somebody still holds and later releases. `LeaseImplementsTable` is the
refinement of `LeaseTable`: `EpochsIssued` says that the next epoch is the number of the next grant
whether the row is there or was deleted; heartbeats, readings and refusals are stutters.

`ApprovedContainer_proofs` proves, for any controllers, databases, tasks and tokens, all six
invariants of the `container` run about it and `SavedResultIsKept`. The inductive invariant has three
parts. `TokenInv`: a token not consumed was spent by nobody. `RunInv`: what is true of a run whoever
looks at it, and in particular of requests still in flight: a late create finds no container, a late
start finds the command never started. It holds because whoever may still send one is alone, which is
the third part, `CtlInv`: what a controller knows at each place. A run has one owner, whose INSERT
succeeded; a recovery goes on only after the owner is gone; so before the container is started only
the owner acts on the run, and what it knows (no journal, no container, no start, not even one on its
way) is undone by nobody else (`Quiet`), while what a recovery knows (a journal, a container made, a
container removed) is undone by nobody at all (`Keeps`). For `SavedResultIsKept` one more fact is
needed, `RecoversAlone`: in a careful database no result is saved while a recovery is under way, and
no other controller is in the run beyond its INSERT. `ContainerImplementsRuns` is the refinement of
`TaskRuns`; it needs besides that whoever is in `start_task` beyond its INSERT works on a run
without an end (`Underway`). Nothing is assumed but the types of the constants
and that `None` is none of the values it stands beside.

`GitHubPublisher_proofs` proves the three properties of the publisher with any other user of the remote
at work between two steps: the row of a running call names what the call was given (`RowInv`); what it
opened has that row (`OpenedInv`); what its lookup did not find is still absent among the pull requests
there were then (`LookInv`); and what it is about to confirm it has seen (`TruthInv`).
`HumanMerge_proofs` proves that a verified merge is approved and that a copy claims no more than the
table, from one fact: a mark on a token is never taken back. `Credentials_proofs` proves the properties
of the entries and of the brokers: that an approval is used once, from the claim file alone
(`ClaimInv`), and that a reported success is still approved, by what the entry still compares; and of
the brokers all three, for any clock and any life of a handle: the arguments never look at the time
(`HandleInv`).

`CandidateEvidence_proofs` proves, for any paths, contents, base commits, files the collector takes
and any edits in between, that evidence is of the copy that ran and that kept evidence is of the same
files. The first is `RunInv`: what is collected is the finished copy, and what was read of the base is
the base's. The second is a lemma about
digests (`DigestBinds`): if two sets of files give the same digest against one base, they agree
wherever both hold a file, whatever part of the base either could read, since a file that either calls
changed is in both digests with its contents, and one that neither calls changed is the base's.

`RunLoop_proofs` proves, for any number of controllers alive at a time, any plan and any use of the
cancel command: type correctness; that nothing RUNNING is forgotten; and that dependencies are DONE.
One invariant, `Inv`, carries all three. `TaskInv` says of a RUNNING task that its run is attended by
`runner`, who last dispatched or recovered it, and that its dependencies are DONE; `CtlInv` what a
controller knows at its place: its scheduler calls DONE only what is DONE (no edge leaves it), the
epoch it dispatches under is that of the run it began, and a session it is about to drop is not of a
task it runs. A step of a controller disturbs these for that controller alone (`ControllerMoves`).
`NothingIsForgotten` needs besides that a session is of a run on record and records stay
(`SessionsRecorded`) and that the container adapter begins one run of a task (`ClaimedOnce`): a
recovery after a second dispatch adopts the first one's run, so the session's epoch is no help.

The other theorems about the loop stand on `Inv`, most of them under hypotheses. They are needed:
section 5 tells what happens otherwise.

- `ResourceRulesHold` (`NoConflictingRuns`), with at most one controller alive at a time: what the
  ledger calls RUNNING, what the scheduler counts as active and what was picked and not yet dispatched
  fit together into the slots and have no conflict, except for tasks the controller has still to load
  (`ResourceInv`). The rules are kept in memory, so two controllers could break them.
- `ResultsHaveOneReader` (`OneSessionPerRun`), with the contract adapter: each known epoch is at most
  the one issued, so a grant is new to all (`ContractInv`). With `recover_task` a second controller
  alive may adopt a run that was saved.
- `ResultsAreOfTheirRun` (`ResultsMatchRun`), with the contract adapter, no cancel command and no
  dependent tasks: a session that the step has not finished is of the run recorded last, by the
  controller that recorded it (`MatchInv`). A dependent that cannot be blocked (finding 3), or a
  RUNNING task cancelled under its controller, makes `step` raise half-way through its sessions and
  leaves behind those it has finished.
- `OneWorkerForEver` and `OneWorkerAtATime` (`OneWorkerPerTask`): under the container adapter at most
  one run of a task was ever begun (`ClaimedOnce`). Under any adapter what is at work is the run
  recorded last, of a task that is RUNNING, BLOCKED or CANCELLED (`WorkInv`), if results close the
  runs they belong to (`KnowsRun`). With one controller alive at a time that holds for any plan and
  any use of the cancel command, although old sessions may be left behind: each is polled before
  anything is dispatched, and is then dropped or makes the step raise again, and one whose run was
  active is not READY in the scheduler; so no task is begun again of which the controller has a
  session (`LoneInv`). With several it holds where `ResultsAreOfTheirRun` does.
- `LeaseStaysWithSession` (`LeaseCoversSession`), without the cancel command, with one controller at
  a time or the contract adapter. A lone controller never asks for the lease of a RUNNING task nor
  releases it before the end is recorded (`SoloInv`); one of several is alive while it works, so that
  its lease is not taken (`CoverInv`). So the command alone is the cause of finding 2.
- `LoopUsesRuns` and `LoopUsesTable`, with no hypothesis: the refinements of `TaskRuns` and
  `LeaseTable`. An epoch granted and not used names no run (`UnusedInv`, with `ContractInv`); the row
  carries the last epoch granted (`RowsAreLast`).

`LeaseCoversSession`, `UsesRuns` and `UsesTable` are in no passing run; the theorems are all there is.

Only model-checked: liveness (`FinishedSessionCloses`), which is out of the prover's reach together
with ENABLED and induction over data, and the violations of section 5. The proofs are about the models:
what a definition abstracts is listed in section 2.

## 5. What the code does otherwise than said

1. `ledger_done`: ARCHITECTURE.md:268 says no task becomes DONE without a consumed approval token;
   the check depends on an argument that is off by default (core/state.py:194, 242).
2. `loop_cancel`: `cmd_cancel` promises to release a lease only after verifying termination; for a
   status other than RUNNING it verifies nothing, and the status may be out of date (cli.py:382).
3. `loop_retry`: a failure while a dependent is BLOCKED raises out of `step`; the session is never
   closed and each later step raises again (core/loop.py:124-136).

4. `container_cancel`: `cmd_cancel` records a confirmed worker termination; it has ended the
   controller, and the container runs on with nobody left to remove it (cli.py:369).
5. `container_result`: a recovery that read the row before the result was saved, and looks at the
   owner after it has ended, writes BLOCKED over the result (adapters/container.py:272-286).

Read off the code while modelling, without a run of their own:

6. Rows confirmed as UNCERTAIN are never reconciled: `reconcile_pending_operations` selects PENDING
   only (adapters/github.py:346), while the messages ask to "reconcile before retry" (:327).
7. The reconciliation lists pull requests by head branch, in any state, and takes the first
   (adapters/github.py:361), so a row may be RECONCILED with the number of a pull request of another
   base. `SettledRowIsTrue` claims the pair only for the other statuses.
8. Once a pull request of a pair was closed, `create_or_update_pr` raises for ever
   (adapters/github.py:274) although it promises to create or retrieve one.
9. A task with a phase contract ends BLOCKED by a TypeError (adapters/container.py:189).
10. `terminate_tree` leaves descendants of a leader that has exited (core/sandbox.py:393).
11. `enroll_owner` may overwrite an item created while it prompts (runpod_local_credential.py:159).

Smaller observations that contradict no document: an exception in `step` leaves sessions in
`active_sessions` whose end was already recorded and whose lease was released (core/loop.py:137-142), so
that the result may be recorded again later. One controller and three tasks are enough for a result
`blocked` to be written over PROPOSED, after the task was reconciled and reopened: two tasks end, the
second one failed, and the one that depends on both is BLOCKED already (finding 3). With a second
controller that has begun the task anew, the old result is recorded for the new run, and later a second
worker started beside the first. A RUNNING task cancelled under its controller has the same effect as
the failure of finding 3; that takes a lease released by an earlier cancel (finding 2) and taken by
another controller. TLC finds each of the three when asked with other bounds than those of section 3,
which is why `ResultsAreOfTheirRun` and `OneWorkerAtATime` have their hypotheses; `recover_task` returns
a saved result before it looks at the owner, so a second controller could adopt a run that is still
attended (the operations guide asks for one controller at a time); a recovery keeps the lease of the
dead process, so a second controller that acts on an old READY may take it over while the recovered
session waits to be polled (core/loop.py:56-75); a failed commit to RUNNING leaks the lease and the slot
(core/loop.py:171); `heartbeat` has no caller; the manual adapter never reports an end; a push that
timed out and landed is recorded FAILED; `verify_human_merge` binds the head but not the base of the
pull request; the collector refuses tracked names such as `.gitignore`, and paths outside
`allowed_paths`, and the row then stays RESERVED; the second `load_approved` of an entry accepts an
approval file other than the first, of the same pins, and past the claim of `enroll` and `account` the
pins of the entry and its imports are compared no more; a controller that dies after the claim of a
second dispatch (core/loop.py:172) and before its start leaves a task whose restart records the result
of the first dispatch for the second (core/loop.py:90); files of the base that `git show` does not give,
or that the fetch of the base leaves out (`allowed_paths` patterns with `?` or `[` mean more to the
collector), count as changed although they may not differ, with `diff_verified` true all the same: the
comment at core/worktree.py:182 expects that of submodules, which the collector never sees.
`EvidenceIsOfWhatRan` allows just these.

## 6. Plan

Done, with proofs: `TaskStatus`, `TaskLifecycle`, `StateLedger`, `LeaseTable`, `RuntimeLease`,
`TaskRuns`, `RunLoop`, `ApprovedContainer`, `CandidateEvidence`, `GitHubPublisher`, `HumanMerge`,
`OwnerEntries` and `CredentialBrokers`.

Next, in this order:

1. `ResultsMatchRun` with the cancel command for one controller at a time and no dependents: a RUNNING
   task is cancelled only after its controller was terminated.
2. The type invariant of the two brokers as a theorem of its own.
3. `LedgerMirror`: the JSON copy of the ledger under several processes; first to be settled is what a
   reader of the file may rely on, which no document says.
4. `HandoffReceipt`: the receipt of a handoff and when it may be accepted (core/handoff.py).

## 7. Not modelled

- *Plan validation* (core/schema.py), the path rules of core/worktree.py and the rules of a phase
  contract (core/verifier.py): pure functions of strings and schemas. Their models would be the
  functions again, character by character, with nothing that interleaves.
- *Hooks and sandbox* (core/hooks.py, core/sandbox.py): deny lists, and subprocess handling whose
  hard part, process groups and job objects, belongs to the operating system. What the cancel command
  needs of it is in `RunLoop`.
- *Policy* (core/policy.py): stateless, except that task branches are never protected ones, which is
  `HeadsAssumption` of `GitHubPublisher`.
- *Handoffs* (core/handoff.py, handoff.py): sequential checks of files and git objects.
- *Manual and native adapters*: driven by hand, or refusing to start; `RunLoop` has their interface.
- *Connection helpers*, the *Windows credential store*, *scripts, schemas and examples*: a library
  call each, or not part of the program.

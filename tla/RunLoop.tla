------------------------------- MODULE RunLoop -------------------------------
(***************************************************************************)
(* RunLoopController (orchestrator/core/loop.py) with its DAGScheduler      *)
(* (core/scheduler.py), the shared StateLedger and RuntimeLeaseManager, the *)
(* execution adapter, and the operator's cancel command (cli.py).           *)
(*                                                                          *)
(* A controller is one process.  It keeps scheduler and sessions in memory  *)
(* and may die at any time; the ledger, the leases and the jobs survive.    *)
(* initialize_tasks and step are split where another process can act in     *)
(* between: at each call of the ledger, the lease table and the adapter.  A *)
(* call that raises ends the step at once and whatever was done stays done. *)
(*                                                                          *)
(* Abstracted.  The ledger is its status column (StateLedger has the rest): *)
(* get_state and the transition that follows it are one action, since any   *)
(* commit in between leaves a status from which the transition is illegal,  *)
(* which raises as the lost compare-and-swap does.  The reads of a recovery *)
(* are one action too.  The rows exist from the start.  A lease is an epoch *)
(* and a pid, and time is left out: whether it expired does not matter      *)
(* (RuntimeLease).  A run of the adapter is named by the epoch it was       *)
(* started under.  The order in which a step visits sessions and tasks is   *)
(* arbitrary.  I/O errors are left out; a raise of initialize_tasks ends    *)
(* the process, one of step returns to the caller, who may call again.      *)
(*                                                                          *)
(* Two kinds of adapter.  "container" is ApprovedContainerAdapter as the    *)
(* loop sees it: one task at a time, one run per task for ever under a      *)
(* durable claim, and recover_task after a restart.  "contract" is any      *)
(* other implementation of ExecutionAdapter (adapters/base.py): a new run   *)
(* per start_task, and no recover_task.                                     *)
(***************************************************************************)
EXTENDS TaskStatus, FiniteSets

CONSTANTS Controller,     \* controller processes, each with its own pid; they start at most once
          MaxLive,        \* how many of them may run at a time
          Task,           \* ids of the plan
          Deps,           \* Deps[t]: the dependencies of t
          Conflicts,      \* pairs of tasks _check_task_conflict refuses to run together
          MaxWorkers,     \* max_workers of an asynchronous adapter, 1..3
          Adapters,       \* kinds of execution adapter explored, see below
          HumanMoves,     \* ledger edges taken by preflight, reviewers and operators
          Cancels,        \* may the operator run the cancel command?
          None,
          MaxEpoch        \* bound on the leases granted per task

\* a plan lists its tasks
ASSUME PlanAssumption == IsFiniteSet(Task)

\* Status edges around RUNNING belong to the controllers and to cmd_cancel
ASSUME HumanAssumption ==
    HumanMoves \subseteq {e \in ALLOWED_TRANSITIONS : "RUNNING" \notin {e[1], e[2]} /\ e[2] # "CANCELLED"}
ASSUME ConflictAssumption ==
    /\ Conflicts \subseteq Task \X Task
    /\ \A e \in Conflicts : <<e[2], e[1]>> \in Conflicts
ASSUME LimitAssumption == MaxWorkers \in 1 .. 3 /\ MaxLive \in Nat /\ MaxEpoch \in Nat
ASSUME SwitchAssumption == Adapters \subseteq {"container", "contract"} /\ Cancels \in BOOLEAN

VARIABLES
    status,     \* ledger: status[t]
    lease,      \* leases table: [epoch, pid] or None
    epochs,     \* lease_epochs table
    adapter,    \* the kind of adapter the controllers use; it does not change
    job,        \* adapter: job[t][e], the run of t started under epoch e
    owner,      \* adapter: the controller that started the last run of each task
    up,         \* "new", "up" or "dead", per controller
    ctl,        \* where each controller is in its code
    sched,      \* scheduler.task_statuses, per controller
    active,     \* scheduler.active_tasks, per controller
    session,    \* active_sessions: [run, epoch] or None, per controller and task
    op,         \* the cancel command in progress
    run,        \* epoch of the last dispatch to RUNNING of each task
    runner      \* history variable: the controller that dispatched that run or recovered it last

durable == <<status, lease, epochs, adapter, job, owner, run, runner>>
memory == <<sched, active, session>>
vars == <<durable, memory, up, ctl, op>>

Epoch == 1 .. MaxEpoch
JobStatus == {"none", "active", "success", "failed", "blocked"}
Place == {"idle", "initialize", "poll", "closing", "dispatch", "claim", "start", "report"}
NotRunningCode == [at |-> "idle", task |-> None, epoch |-> 0, todo |-> {}, finished |-> {}, down |-> {}]
NoCancel == [at |-> "none", task |-> None, was |-> None, current |-> TRUE, epoch |-> 0, pid |-> None]

ASSUME NoneAssumption ==
    None \notin Task \cup Controller \cup [epoch : Epoch, pid : Controller] \cup [run : Epoch, epoch : Epoch]

TypeOK ==
    /\ status \in [Task -> Status]
    /\ lease \in [Task -> [epoch : Epoch, pid : Controller] \cup {None}]
    /\ epochs \in [Task -> 0 .. MaxEpoch]
    /\ adapter \in Adapters
    /\ job \in [Task -> [Epoch -> JobStatus]]
    /\ owner \in [Task -> Controller \cup {None}]
    /\ up \in [Controller -> {"new", "up", "dead"}]
    /\ ctl \in [Controller -> [at : Place, task : Task \cup {None}, epoch : 0 .. MaxEpoch,
                               todo : SUBSET Task, finished : SUBSET Task, down : SUBSET Task]]
    /\ sched \in [Controller -> [Task -> Status]]
    /\ active \in [Controller -> SUBSET Task]
    /\ session \in [Controller -> [Task -> [run : Epoch, epoch : Epoch] \cup {None}]]
    /\ op \in [at : {"none", "lookup", "kill", "release", "commit"}, task : Task \cup {None},
               was : Status \cup {None}, current : BOOLEAN, epoch : 0 .. MaxEpoch,
               pid : Controller \cup {None}]
    /\ run \in [Task -> 0 .. MaxEpoch]
    /\ runner \in [Task -> Controller \cup {None}]

Alive(c) == up[c] = "up"
At(c, place) == Alive(c) /\ ctl[c].at = place
Sessions(c) == {t \in Task : session[c][t] # None}

-----------------------------------------------------------------------------
\* get_dependents: every task that depends on t, directly or not
Dependents ==
    [t \in Task |-> {d \in Task : \A S \in SUBSET Task :
        (\A x \in Task : Deps[x] \cap (S \cup {t}) # {} => x \in S) => d \in S}]

ASSUME DepsAssumption ==
    /\ Deps \in [Task -> SUBSET Task]
    /\ \A t \in Task : t \notin Dependents[t]       \* check_circular_dependencies

\* transition to a status is legal, whatever revision it is asked at
Legal(t, to) == <<status[t], to>> \in ALLOWED_TRANSITIONS

\* StateLedger.transition: every commit makes an older reading of the task out of date
Commit(t, to) ==
    /\ status' = [status EXCEPT ![t] = to]
    /\ op' = IF op.task = t THEN [op EXCEPT !.current = FALSE] ELSE op

\* fault: a task that is found RUNNING is not counted as active
UpdateScheduler_NotCounted(c, t, to) ==
    /\ sched' = [sched EXCEPT ![c] = [x \in Task |->
                    IF x = t THEN to
                    ELSE IF to = "FAILED" /\ x \in Dependents[t] THEN "BLOCKED"
                    ELSE sched[c][x]]]
    /\ active' = [active EXCEPT ![c] = IF sched[c][t] = "RUNNING" THEN @ \ {t} ELSE @]

\* DAGScheduler.update_task_status; the failure of a task blocks what depends on it
UpdateScheduler(c, t, to) ==
    /\ sched' = [sched EXCEPT ![c] = [x \in Task |->
                    IF x = t THEN to
                    ELSE IF to = "FAILED" /\ x \in Dependents[t] THEN "BLOCKED"
                    ELSE sched[c][x]]]
    /\ active' = [active EXCEPT ![c] = IF to = "RUNNING" THEN @ \cup {t}
                                       ELSE IF sched[c][t] = "RUNNING" THEN @ \ {t} ELSE @]

\* fault: a dependency is satisfied as soon as its worker is done
DepsDone_AfterWork(c, t) == \A d \in Deps[t] : sched[c][d] \in {"VALIDATING", "REVIEW", "READY_FOR_MERGE", "DONE"}

DepsDone(c, t) == \A d \in Deps[t] : sched[c][d] = "DONE"

\* a synchronous adapter is refused with any other limit (loop.py:29)
Workers == IF adapter = "container" THEN 1 ELSE MaxWorkers

\* get_dispatchable_tasks: the lists it can return, as sets.  Which of two conflicting candidates
\* it takes depends on the order of the plan.
DispatchableSets(c) ==
    LET slots == Workers - Cardinality(active[c])
        ready == {t \in Task \ active[c] :
                    /\ sched[c][t] = "READY"
                    /\ DepsDone(c, t)
                    /\ \A a \in active[c] : <<t, a>> \notin Conflicts}
    IN  IF Cardinality(active[c]) >= Workers THEN {{}}
        ELSE {S \in SUBSET ready :
                /\ Cardinality(S) <= slots
                /\ \A t, u \in S : t # u => <<t, u>> \notin Conflicts
                /\ \A t \in ready \ S :
                      Cardinality(S) = slots \/ \E u \in S : <<t, u>> \in Conflicts}

\* fault: the row is emptied instead of deleted
Released_Emptied(t, epoch) ==
    IF lease[t] # None /\ lease[t].epoch = epoch THEN [lease EXCEPT ![t].epoch = 0] ELSE lease

\* release_lease deletes the row only if it still carries that epoch
Released(t, epoch) ==
    IF lease[t] # None /\ lease[t].epoch = epoch THEN [lease EXCEPT ![t] = None] ELSE lease

-----------------------------------------------------------------------------
(* Start of a process: the constructor, then initialize_tasks task by task  *)

Start(c) ==
    /\ up[c] = "new" /\ Cardinality({k \in Controller : Alive(k)}) < MaxLive
    /\ up' = [up EXCEPT ![c] = "up"]
    /\ ctl' = [ctl EXCEPT ![c] = [@ EXCEPT !.at = "initialize", !.todo = Task]]
    /\ UNCHANGED <<durable, memory, op>>

\* the caller runs initialize_tasks again, to pick up what humans decided
Reinitialize(c) ==
    /\ At(c, "idle")
    /\ ctl' = [ctl EXCEPT ![c] = [@ EXCEPT !.at = "initialize", !.todo = Task]]
    /\ UNCHANGED <<durable, memory, up, op>>

Load(c, t) ==
    /\ At(c, "initialize") /\ t \in ctl[c].todo
    /\ status[t] = "RUNNING" => session[c][t] # None
    /\ UpdateScheduler(c, t, status[t])
    /\ ctl' = [ctl EXCEPT ![c].todo = @ \ {t}]
    /\ UNCHANGED <<durable, session, up, op>>

\* fault: recovery does not look at the record of the run
MayRecover_WithoutRecord(t, e) == lease[t] # None /\ e = run[t]

\* A RUNNING task of an earlier process needs a lease row and an adapter that recovers it, and
\* recover_task (adapters/container.py) a record with a result or a dead owner. It asks for the
\* record of the task, which may be that of an earlier dispatch.
MayRecover(t, e) ==
    /\ adapter = "container" /\ lease[t] # None
    /\ job[t][e] # "none"
    /\ job[t][e] \in {"success", "failed"} \/ ~Alive(owner[t])

\* recover_task stops a run that is still active; nothing is executed again
Recover(c, t) ==
    /\ At(c, "initialize") /\ t \in ctl[c].todo
    /\ status[t] = "RUNNING" /\ session[c][t] = None
    /\ \E e \in Epoch :
          /\ MayRecover(t, e)
          /\ job' = [job EXCEPT ![t][e] = IF @ = "active" THEN "blocked" ELSE @]
          /\ session' = [session EXCEPT ![c][t] = [run |-> e, epoch |-> lease[t].epoch]]
    /\ runner' = [runner EXCEPT ![t] = c]
    /\ UpdateScheduler(c, t, "RUNNING")
    /\ ctl' = [ctl EXCEPT ![c].todo = @ \ {t}]
    /\ UNCHANGED <<status, lease, epochs, adapter, owner, run, up, op>>

Die(c) ==
    /\ up' = [up EXCEPT ![c] = "dead"]
    /\ ctl' = [ctl EXCEPT ![c] = NotRunningCode]
    /\ sched' = [sched EXCEPT ![c] = [t \in Task |-> "PROPOSED"]]
    /\ active' = [active EXCEPT ![c] = {}]
    /\ session' = [session EXCEPT ![c] = [t \in Task |-> None]]

InitializeRaises(c, t) ==
    /\ At(c, "initialize") /\ t \in ctl[c].todo
    /\ status[t] = "RUNNING" /\ session[c][t] = None /\ ~\E e \in Epoch : MayRecover(t, e)
    /\ Die(c)
    /\ UNCHANGED <<durable, op>>

EndInitialize(c) ==
    /\ At(c, "initialize") /\ ctl[c].todo = {}
    /\ ctl' = [ctl EXCEPT ![c].at = "idle"]
    /\ UNCHANGED <<durable, memory, up, op>>

-----------------------------------------------------------------------------
(* step, first half: poll the active sessions *)

BeginStep(c) ==
    /\ At(c, "idle")
    /\ ctl' = [ctl EXCEPT ![c] = [@ EXCEPT !.at = "poll", !.todo = Sessions(c)]]
    /\ UNCHANGED <<durable, memory, up, op>>

Polled(c, t) == job[t][session[c][t].run]

PollActive(c, t) ==
    /\ At(c, "poll") /\ t \in ctl[c].todo
    /\ Polled(c, t) = "active"
    /\ ctl' = [ctl EXCEPT ![c].todo = @ \ {t}]
    /\ UNCHANGED <<durable, memory, up, op>>

\* the status a finished run moves its task to
Outcome(result) ==
    IF result = "success" THEN "VALIDATING" ELSE IF result = "failed" THEN "FAILED" ELSE "BLOCKED"

\* A finished run: the ledger first, then the scheduler.  A BLOCKED task is done with and keeps its
\* lease; otherwise "closing" follows.
Collect(c, t) ==
    LET to == Outcome(Polled(c, t)) IN
    /\ At(c, "poll") /\ t \in ctl[c].todo
    /\ Polled(c, t) \in {"success", "failed", "blocked"} /\ Legal(t, to)
    /\ Commit(t, to)
    /\ UpdateScheduler(c, t, to)
    /\ ctl' = [ctl EXCEPT ![c] =
                  IF to = "BLOCKED"
                  THEN [@ EXCEPT !.todo = ctl[c].todo \ {t}, !.finished = ctl[c].finished \cup {t}]
                  ELSE [@ EXCEPT !.at = "closing", !.task = t,
                                 !.down = IF to = "FAILED" THEN Dependents[t] ELSE {}]]
    /\ UNCHANGED <<lease, epochs, adapter, job, owner, run, runner, session, up>>

\* a raise leaves active_sessions as it is, the sessions already finished in this step included
RaiseTo(c) == ctl' = [ctl EXCEPT ![c] = NotRunningCode]

CollectRaises(c, t) ==
    /\ At(c, "poll") /\ t \in ctl[c].todo
    /\ Polled(c, t) \in {"success", "failed", "blocked"} /\ ~Legal(t, Outcome(Polled(c, t)))
    /\ RaiseTo(c)
    /\ UNCHANGED <<durable, memory, up, op>>

\* The dependents of a failed task: BLOCKED in the ledger, unless FAILED or DONE
BlockDownstream(c, d) ==
    /\ At(c, "closing") /\ d \in ctl[c].down
    /\ \/ status[d] \in {"FAILED", "DONE"} /\ UNCHANGED <<status, op>>
       \/ status[d] \notin {"FAILED", "DONE"} /\ Legal(d, "BLOCKED") /\ Commit(d, "BLOCKED")
    /\ ctl' = [ctl EXCEPT ![c].down = @ \ {d}]
    /\ UNCHANGED <<lease, epochs, adapter, job, owner, run, runner, memory, up>>

\* StateTransitionError is none of the exceptions the code catches here
BlockDownstreamRaises(c, d) ==
    /\ At(c, "closing") /\ d \in ctl[c].down
    /\ status[d] \notin {"FAILED", "DONE"} /\ ~Legal(d, "BLOCKED")
    /\ RaiseTo(c)
    /\ UNCHANGED <<durable, memory, up, op>>

ReleaseFinished(c) ==
    LET t == ctl[c].task IN
    /\ At(c, "closing") /\ ctl[c].down = {}
    /\ lease' = Released(t, session[c][t].epoch)
    /\ ctl' = [ctl EXCEPT ![c] = [NotRunningCode EXCEPT !.at = "poll", !.todo = ctl[c].todo \ {t},
                                                        !.finished = ctl[c].finished \cup {t}]]
    /\ UNCHANGED <<status, epochs, adapter, job, owner, run, runner, memory, up, op>>

\* fault: every session is dropped at the end of the poll
Remaining_None(c) == [t \in Task |-> None]

\* fault: finished sessions stay in active_sessions
Remaining_All(c) == session[c]

\* active_sessions after the finished ones are deleted
Remaining(c) == [t \in Task |-> IF t \in ctl[c].finished THEN None ELSE session[c][t]]

\* finished sessions are deleted; then the second half works through the dispatchable tasks
EndPoll(c) ==
    /\ At(c, "poll") /\ ctl[c].todo = {}
    /\ session' = [session EXCEPT ![c] = Remaining(c)]
    /\ \E S \in DispatchableSets(c) :
          ctl' = [ctl EXCEPT ![c] = [NotRunningCode EXCEPT !.at = "dispatch", !.todo = S]]
    /\ UNCHANGED <<durable, sched, active, up, op>>

-----------------------------------------------------------------------------
(* step, second half: dispatch *)

\* validate_task_context or a missing worktree stops the step
ContextRefused(c, t) ==
    /\ At(c, "dispatch") /\ t \in ctl[c].todo
    /\ RaiseTo(c)
    /\ UNCHANGED <<durable, memory, up, op>>

\* acquire_lease, then DAGScheduler.dispatch
Acquire(c, t) ==
    LET epoch == IF lease[t] # None THEN lease[t].epoch + 1 ELSE epochs[t] + 1 IN
    /\ At(c, "dispatch") /\ t \in ctl[c].todo
    /\ lease[t] # None => ~Alive(lease[t].pid)
    /\ epoch <= MaxEpoch
    /\ lease' = [lease EXCEPT ![t] = [epoch |-> epoch, pid |-> c]]
    /\ epochs' = [epochs EXCEPT ![t] = epoch]
    /\ sched' = [sched EXCEPT ![c][t] = "RUNNING"]
    /\ active' = [active EXCEPT ![c] = @ \cup {t}]
    /\ ctl' = [ctl EXCEPT ![c] = [@ EXCEPT !.at = "claim", !.task = t, !.epoch = epoch]]
    /\ UNCHANGED <<status, adapter, job, owner, run, runner, session, up, op>>

\* LeaseAcquisitionError: go on with the next task.  (Also where MaxEpoch stops the exploration.)
AcquireRefused(c, t) ==
    /\ At(c, "dispatch") /\ t \in ctl[c].todo
    /\ (lease[t] # None /\ Alive(lease[t].pid)) \/ epochs[t] = MaxEpoch
    /\ ctl' = [ctl EXCEPT ![c].todo = @ \ {t}]
    /\ UNCHANGED <<durable, memory, up, op>>

\* fault: the task is set RUNNING whatever its status is by now
MayClaim_Blindly(t) == status[t] \notin TERMINAL_STATES

MayClaim(t) == Legal(t, "RUNNING")

\* get_state and transition to RUNNING
Claim(c) ==
    LET t == ctl[c].task IN
    /\ At(c, "claim") /\ MayClaim(t)
    /\ Commit(t, "RUNNING")
    /\ run' = [run EXCEPT ![t] = ctl[c].epoch]
    /\ runner' = [runner EXCEPT ![t] = c]
    /\ ctl' = [ctl EXCEPT ![c].at = "start"]
    /\ UNCHANGED <<lease, epochs, adapter, job, owner, memory, up>>

\* the lease is kept and the scheduler goes on counting the task as running
ClaimRaises(c) ==
    /\ At(c, "claim") /\ ~MayClaim(ctl[c].task)
    /\ RaiseTo(c)
    /\ UNCHANGED <<durable, memory, up, op>>

\* the container adapter claims a task once and for all
MayRun(t) == adapter = "container" => \A e \in Epoch : job[t][e] = "none"

\* adapter.start_task returns a session
StartTask(c) ==
    LET t == ctl[c].task IN
    /\ At(c, "start") /\ MayRun(t)
    /\ job' = [job EXCEPT ![t][ctl[c].epoch] = "active"]
    /\ owner' = [owner EXCEPT ![t] = c]
    /\ session' = [session EXCEPT ![c][t] = [run |-> ctl[c].epoch, epoch |-> ctl[c].epoch]]
    /\ ctl' = [ctl EXCEPT ![c] = [NotRunningCode EXCEPT !.at = "dispatch", !.todo = ctl[c].todo \ {t}]]
    /\ UNCHANGED <<status, lease, epochs, adapter, run, runner, sched, active, up, op>>

\* adapter.start_task raises: refused, or failed before or after the worker was started
StartTaskRaises(c) ==
    LET t == ctl[c].task IN
    /\ At(c, "start")
    /\ \/ UNCHANGED <<job, owner>>
       \/ /\ MayRun(t)
          /\ \E left \in {"active", "blocked"} : job' = [job EXCEPT ![t][ctl[c].epoch] = left]
          /\ owner' = [owner EXCEPT ![t] = c]
    /\ ctl' = [ctl EXCEPT ![c].at = "report"]
    /\ UNCHANGED <<status, lease, epochs, adapter, run, runner, memory, up, op>>

\* fault: a failed start counts as a failed run
Uncertain_Failed == "FAILED"

\* what a start whose outcome is unknown is reported as
Uncertain == "BLOCKED"

ReportUncertain(c) ==
    LET t == ctl[c].task IN
    /\ At(c, "report")
    /\ RaiseTo(c)
    /\ IF Legal(t, Uncertain) THEN Commit(t, Uncertain) /\ UpdateScheduler(c, t, Uncertain)
                              ELSE UNCHANGED <<status, op, sched, active>>
    /\ UNCHANGED <<lease, epochs, adapter, job, owner, run, runner, session, up>>

EndDispatch(c) ==
    /\ At(c, "dispatch") /\ ctl[c].todo = {}
    /\ RaiseTo(c)
    /\ UNCHANGED <<durable, memory, up, op>>

Crash(c) == Alive(c) /\ Die(c) /\ UNCHANGED <<durable, op>>

-----------------------------------------------------------------------------
(* Everyone else *)

\* a run ends
JobEnds(t, e) ==
    /\ job[t][e] = "active"
    /\ \E result \in {"success", "failed", "blocked"} : job' = [job EXCEPT ![t][e] = result]
    /\ UNCHANGED <<status, lease, epochs, adapter, owner, run, runner, memory, up, ctl, op>>

\* Preflight, review, merge and retry decisions.  A BLOCKED task is taken up again only after the
\* reconciliation its ledger entry asks for.
HumanDecides(t, to) ==
    /\ <<status[t], to>> \in HumanMoves
    /\ status[t] = "BLOCKED" => \A e \in Epoch : job[t][e] # "active"
    /\ Commit(t, to)
    /\ UNCHANGED <<lease, epochs, adapter, job, owner, run, runner, memory, up, ctl>>

\* cmd_cancel reads the state, then the lease
CancelRead(t) ==
    /\ Cancels /\ op = NoCancel
    /\ status[t] \notin TERMINAL_STATES
    /\ op' = [NoCancel EXCEPT !.at = "lookup", !.task = t, !.was = status[t]]
    /\ UNCHANGED <<durable, memory, up, ctl>>

CancelLookup ==
    LET l == lease[op.task] IN
    /\ op.at = "lookup"
    /\ op' = IF l = None
             THEN IF op.was = "RUNNING" THEN NoCancel ELSE [op EXCEPT !.at = "commit"]
             ELSE [op EXCEPT !.at = IF op.was = "RUNNING" THEN "kill" ELSE "release",
                             !.epoch = l.epoch, !.pid = l.pid]
    /\ UNCHANGED <<durable, memory, up, ctl>>

\* a RUNNING task: the process of the lease is terminated first
CancelKill ==
    /\ op.at = "kill"
    /\ IF Alive(op.pid) THEN Die(op.pid) ELSE UNCHANGED <<up, ctl, memory>>
    /\ op' = [op EXCEPT !.at = "release"]
    /\ UNCHANGED durable

CancelRelease ==
    /\ op.at = "release"
    /\ lease' = Released(op.task, op.epoch)
    /\ op' = [op EXCEPT !.at = "commit"]
    /\ UNCHANGED <<status, epochs, adapter, job, owner, run, runner, memory, up, ctl>>

\* the transition is made at the revision read first
CancelCommit ==
    /\ op.at = "commit" /\ op.current /\ Legal(op.task, "CANCELLED")
    /\ status' = [status EXCEPT ![op.task] = "CANCELLED"]
    /\ op' = NoCancel
    /\ UNCHANGED <<lease, epochs, adapter, job, owner, run, runner, memory, up, ctl>>

\* the process could not be terminated, the revision is out of date, or the command is interrupted
CancelFails ==
    /\ op # NoCancel
    /\ op' = NoCancel
    /\ UNCHANGED <<durable, memory, up, ctl>>

Init ==
    /\ status = [t \in Task |-> "PROPOSED"]
    /\ lease = [t \in Task |-> None]
    /\ epochs = [t \in Task |-> 0]
    /\ adapter \in Adapters
    /\ job = [t \in Task |-> [e \in Epoch |-> "none"]]
    /\ owner = [t \in Task |-> None]
    /\ up = [c \in Controller |-> "new"]
    /\ ctl = [c \in Controller |-> NotRunningCode]
    /\ sched = [c \in Controller |-> [t \in Task |-> "PROPOSED"]]
    /\ active = [c \in Controller |-> {}]
    /\ session = [c \in Controller |-> [t \in Task |-> None]]
    /\ op = NoCancel
    /\ run = [t \in Task |-> 0]
    /\ runner = [t \in Task |-> None]

\* what a controller does by itself once it runs
ControllerStep(c) ==
    \/ \E t \in Task :
          \/ Load(c, t) \/ Recover(c, t) \/ InitializeRaises(c, t)
          \/ PollActive(c, t) \/ Collect(c, t) \/ CollectRaises(c, t)
          \/ BlockDownstream(c, t) \/ BlockDownstreamRaises(c, t)
          \/ ContextRefused(c, t) \/ Acquire(c, t) \/ AcquireRefused(c, t)
    \/ EndInitialize(c) \/ BeginStep(c) \/ ReleaseFinished(c) \/ EndPoll(c)
    \/ Claim(c) \/ ClaimRaises(c) \/ StartTask(c) \/ StartTaskRaises(c) \/ ReportUncertain(c)
    \/ EndDispatch(c)

Next ==
    \/ \E c \in Controller : Start(c) \/ Reinitialize(c) \/ ControllerStep(c) \/ Crash(c)
    \/ \E t \in Task : \/ \E e \in Epoch : JobEnds(t, e)
                       \/ \E to \in Status : HumanDecides(t, to)
                       \/ CancelRead(t)
    \/ CancelLookup \/ CancelKill \/ CancelRelease \/ CancelCommit \/ CancelFails

Spec == Init /\ [][Next]_vars

\* The caller keeps calling step, as run_until_idle does while sessions are active, and what a
\* process has begun it goes on with.  Nothing is assumed of crashes, restarts, humans, the operator
\* or the runs themselves.
FairSpec == Spec /\ \A c \in Controller : WF_vars(ControllerStep(c)) /\ SF_vars(BeginStep(c))

-----------------------------------------------------------------------------
\* At most one worker per task: no sequence of crashes, recoveries, uncertain starts, retries,
\* reviews and rival controllers starts a second run while an earlier one may still be at work.
OneWorkerPerTask ==
    \A t \in Task : Cardinality({e \in Epoch : job[t][e] = "active"}) <= 1

\* The run a session of t should be for: that of the last dispatch or, as the container adapter
\* never starts another, the only one the task has
CurrentRun(t, e) ==
    IF adapter = "container" THEN \A d \in Epoch : job[t][d] # "none" <=> d = e ELSE e = run[t]

\* Nothing RUNNING in the ledger is forgotten: the controller that dispatched or recovered the task
\* is still starting it, has the session of its run, or is dead, so that a restart will find it.
RunningIsAttended ==
    \A t \in Task : status[t] = "RUNNING" =>
        LET c == runner[t] IN
        \/ ~Alive(c)
        \/ session[c][t] # None /\ CurrentRun(t, session[c][t].run)
        \/ ctl[c].task = t /\ ctl[c].at \in {"start", "report"}

\* The resource rules hold for what the ledger calls RUNNING, across restarts: never two conflicting
\* tasks, never more than max_workers.  (One controller at a time: the rules are kept in memory.)
NoConflictingRuns ==
    LET running == {t \in Task : status[t] = "RUNNING"} IN
    /\ Cardinality(running) <= Workers
    /\ \A t, u \in running : t # u => <<t, u>> \notin Conflicts

\* No task runs before everything it depends on is DONE in the ledger, although the scheduler
\* decides on statuses it read long before.
DependenciesAreDone ==
    \A t \in Task : status[t] = "RUNNING" => \A d \in Deps[t] : status[d] = "DONE"

\* Two live controllers never both wait for the same run: its result is collected once.
OneSessionPerRun ==
    \A c, k \in Controller, t \in Task :
        c # k /\ session[c][t] # None /\ session[k][t] # None => session[c][t].run # session[k][t].run

\* What cmd_cancel promises by releasing a lease only "after strictly verifying worker termination"
\* (cli.py:348): while a controller works under the lease of the last dispatch of a RUNNING task,
\* that lease is in the table.
LeaseCoversSession ==
    \A c \in Controller, t \in Task :
        Alive(c) /\ session[c][t] # None /\ session[c][t].epoch = run[t] /\ status[t] = "RUNNING" =>
            lease[t] # None /\ lease[t].epoch = session[c][t].epoch

\* A result closes the run that produced it: what a session reports is recorded only while the task
\* is RUNNING in that very run.
ResultsMatchRun ==
    [][\A c \in Controller, t \in Task :
          At(c, "poll") /\ t \in ctl[c].todo /\ status'[t] # status[t] /\ ctl'[c] # ctl[c] =>
              status[t] = "RUNNING" /\ session[c][t].run = run[t]]_vars

\* The runs of the adapter, as a table: no run is begun twice under one epoch, none that ended goes
\* on or ends otherwise.  The loop asks no more of its adapter than that.
Jobs == [r \in Task \X Epoch |-> job[r[1]][r[2]]]
Runs == INSTANCE TaskRuns WITH Run <- Task \X Epoch, job <- Jobs
UsesRuns == Runs!Spec

\* Its leases, without clock, heartbeats and readers, are still the table RuntimeLease implements.
Holder == [t \in Task |-> IF lease[t] = None THEN {} ELSE {lease[t].pid}]
Table == INSTANCE LeaseTable WITH Process <- Controller, running <- {c \in Controller : Alive(c)},
                                  holder <- Holder, granted <- epochs
UsesTable == Table!Spec

\* run_until_idle runs "until all tasks reach terminal/blocked state or iteration limit is reached":
\* a controller that keeps calling step closes each session whose run has ended, unless it dies.
FinishedSessionCloses ==
    \A c \in Controller, t \in Task :
        (Alive(c) /\ session[c][t] # None /\ Polled(c, t) \in {"success", "failed", "blocked"})
            ~> (~Alive(c) \/ session[c][t] = None)
=============================================================================

-------------------------- MODULE ApprovedContainer --------------------------
(***************************************************************************)
(* One approved execution of a task: ApprovedContainerAdapter               *)
(* (orchestrator/adapters/container.py), the table of approvals             *)
(* (core/approval.py), OfflineContainerRunner with its journal              *)
(* (core/container.py) and the container daemon.                            *)
(*                                                                          *)
(* Three stores with no common transaction: executions, approvals and the   *)
(* journal file.  start_task and recover_task are split at each write of a  *)
(* store and each request to the daemon; a controller may die between any   *)
(* two.  A request may fail with no effect, take effect although its answer *)
(* is lost, or fail and take effect later.                                  *)
(*                                                                          *)
(* A control database admits a task once and for all, so a run is named by  *)
(* its database and task.  Controllers are told apart by pid and start      *)
(* time, so that nobody is mistaken for an ended one.                       *)
(*                                                                          *)
(* Abstracted: a token is bound to a task (the other bindings are further   *)
(* equations of the same kind); expiry is a step, and told of unused tokens *)
(* only; disk errors are left out; the checks of image, inputs, snapshot    *)
(* and candidate may refuse at any time.                                    *)
(***************************************************************************)
EXTENDS Naturals, FiniteSets

CONSTANTS Controller,    \* controller processes
          Database,      \* control databases (state_dir of an adapter)
          Task,          \* task ids
          TokenId,       \* approval tokens
          Bound,         \* Bound[k]: the task token k was issued for, or None for some other task
          Careful,       \* databases where a recovery begins only while no controller is at work
          None

ASSUME BoundAssumption == Bound \in [TokenId -> Task \cup {None}]
ASSUME CarefulAssumption == Careful \subseteq Database

Run == Database \X Task
DatabaseOf(r) == r[1]
TaskOf(r) == r[2]

RunStatus == {"RESERVED", "ADMITTED", "SUCCESS", "FAILED", "BLOCKED"}
Execution == [token : TokenId, status : RunStatus, owner : Controller]
Journal == [id : BOOLEAN, cleanup : {"PENDING", "CONFIRMED"}]    \* id: is container_id recorded?

ASSUME NoneAssumption == None \notin Run \cup Execution \cup Journal \cup Task \cup {0, 1}

VARIABLES
    issued, consumed, revoked, expired,    \* rows of table approvals, and their columns
    execution,    \* execution[r]: row of table executions, or None
    journal,      \* journal[r]: record.json, or None
    inputs,       \* runs whose input snapshot is on disk
    container,    \* container[r]: state of the run's container
    exit,         \* exit[r]: its exit code, 0 or 1, or None
    inflight,     \* requests given up by their sender that the daemon may still carry out
    alive,        \* running controllers
    ctl,          \* where each controller is in its code
    cancelled,    \* runs whose task cmd_cancel moved to CANCELLED
    spent,        \* history variable: spent[k], runs that consumed token k
    starts        \* history variable: starts[r], how often the container was started

approvals == <<issued, consumed, revoked, expired, spent>>
daemon == <<container, exit, inflight, starts>>
vars == <<approvals, execution, journal, inputs, daemon, alive, ctl, cancelled>>

StartPlace == {"reserve", "snapshot", "consume", "admit", "prepare", "create", "identify", "start", "wait"}
ReconcilePlace == {"find", "remember", "remove", "verify", "confirm", "discard"}
Control == [at : {"idle", "check", "publish", "block"} \cup StartPlace \cup ReconcilePlace,
            run : Run \cup {None}, token : TokenId \cup {None}, outcome : {0, 1, None},
            recovers : BOOLEAN, record : Journal \cup {None}]
Idle == [at |-> "idle", run |-> None, token |-> None, outcome |-> None, recovers |-> FALSE,
         record |-> None]

TypeOK ==
    /\ issued \subseteq TokenId /\ consumed \subseteq issued \ revoked /\ revoked \subseteq issued /\ expired \subseteq issued
    /\ execution \in [Run -> Execution \cup {None}]
    /\ journal \in [Run -> Journal \cup {None}]
    /\ inputs \subseteq Run
    /\ container \in [Run -> {"absent", "created", "running", "exited", "removed"}]
    /\ exit \in [Run -> {0, 1, None}]
    /\ inflight \subseteq {"create", "start", "remove"} \X Run
    /\ alive \subseteq Controller
    /\ ctl \in [Controller -> Control]
    /\ cancelled \subseteq Run
    /\ spent \in [TokenId -> SUBSET Run]
    /\ starts \in [Run -> Nat]

At(c, place) == c \in alive /\ ctl[c].at = place
Goto(c, place) == ctl' = [ctl EXCEPT ![c].at = place]
SetStatus(r, status) == execution' = [execution EXCEPT ![r].status = status]
Save(r, record) == journal' = [journal EXCEPT ![r] = record]

\* the except clause of start_task records BLOCKED; a raise out of recover_task ends the call
Raise(c) == IF ctl[c].recovers THEN ctl' = [ctl EXCEPT ![c] = Idle] ELSE Goto(c, "block")

-----------------------------------------------------------------------------
(* ApprovalManager *)

Issue(k) ==
    /\ k \notin issued
    /\ issued' = issued \cup {k}
    /\ UNCHANGED <<consumed, revoked, expired, spent, execution, journal, inputs, daemon, alive, ctl, cancelled>>

Expire(k) ==
    /\ k \in issued \ (consumed \cup revoked \cup expired)
    /\ expired' = expired \cup {k}
    /\ UNCHANGED <<issued, consumed, revoked, spent, execution, journal, inputs, daemon, alive, ctl, cancelled>>

\* fault: a consumed token can be revoked
MayRevoke_Consumed(k) == k \in issued

MayRevoke(k) == k \in issued \ consumed

RevokeToken(k) ==
    /\ k \notin revoked /\ MayRevoke(k)
    /\ revoked' = revoked \cup {k}
    /\ UNCHANGED <<issued, consumed, expired, spent, execution, journal, inputs, daemon, alive, ctl, cancelled>>

\* fault: a consumed token is accepted once more
MayConsume_Again(k, t) == k \in issued \ (revoked \cup expired) /\ Bound[k] = t

\* what verify_and_consume_token asks of a token
MayConsume(k, t) == k \in issued \ (revoked \cup consumed \cup expired) /\ Bound[k] = t

-----------------------------------------------------------------------------
(* start_task *)

BeginStart(c, r, k) ==
    /\ At(c, "idle")
    /\ ctl' = [ctl EXCEPT ![c] = [Idle EXCEPT !.at = "reserve", !.run = r, !.token = k]]
    /\ UNCHANGED <<approvals, execution, journal, inputs, daemon, alive, cancelled>>

\* fault: INSERT OR REPLACE INTO executions
Reserve_Replaces(c) ==
    /\ At(c, "reserve")
    /\ execution' = [execution EXCEPT ![ctl[c].run] =
                        [token |-> ctl[c].token, status |-> "RESERVED", owner |-> c]]
    /\ Goto(c, "snapshot")
    /\ UNCHANGED <<approvals, journal, inputs, daemon, alive, cancelled>>

\* INSERT INTO executions; a claimed task is refused with no trace
Reserve(c) ==
    LET r == ctl[c].run IN
    /\ At(c, "reserve")
    /\ IF execution[r] = None
       THEN /\ execution' = [execution EXCEPT ![r] =
                                [token |-> ctl[c].token, status |-> "RESERVED", owner |-> c]]
            /\ Goto(c, "snapshot")
       ELSE ctl' = [ctl EXCEPT ![c] = Idle] /\ UNCHANGED execution
    /\ UNCHANGED <<approvals, journal, inputs, daemon, alive, cancelled>>

\* the worktree is copied and collected; a failure here is raised with the status still RESERVED
Snapshot(c) ==
    /\ At(c, "snapshot")
    /\ Goto(c, "consume") \/ ctl' = [ctl EXCEPT ![c] = Idle]
    /\ UNCHANGED <<approvals, execution, journal, inputs, daemon, alive, cancelled>>

Consume(c) ==
    LET k == ctl[c].token IN
    /\ At(c, "consume")
    /\ IF MayConsume(k, TaskOf(ctl[c].run))
       THEN /\ consumed' = consumed \cup {k}
            /\ spent' = [spent EXCEPT ![k] = @ \cup {ctl[c].run}]
            /\ Goto(c, "admit")
       ELSE Raise(c) /\ UNCHANGED <<consumed, spent>>
    /\ UNCHANGED <<issued, revoked, expired, execution, journal, inputs, daemon, alive, cancelled>>

Admit(c) ==
    /\ At(c, "admit")
    /\ SetStatus(ctl[c].run, "ADMITTED")
    /\ Goto(c, "prepare")
    /\ UNCHANGED <<approvals, journal, inputs, daemon, alive, cancelled>>

-----------------------------------------------------------------------------
(* OfflineContainerRunner.run *)

\* fault: the intent is not written before the first request
Intent_Skipped(r) == journal[r]

\* the journal entry written before the first external mutation
Intent(r) == [id |-> FALSE, cleanup |-> "PENDING"]

\* registry, inputs and daemon are checked, then the snapshot and the intent are written
Prepare(c) ==
    LET r == ctl[c].run IN
    /\ At(c, "prepare")
    /\ \/ Raise(c) /\ UNCHANGED <<journal, inputs>>
       \/ Goto(c, "create") /\ Save(r, Intent(r)) /\ inputs' = inputs \cup {r}
    /\ UNCHANGED <<approvals, execution, daemon, alive, cancelled>>

Exists(r) == container[r] \in {"created", "running", "exited"}

\* what the daemon does to a container, by the state it finds; otherwise it refuses
Accepts(kind, r) ==
    \/ kind = "create" /\ ~Exists(r)
    \/ kind = "start" /\ container[r] \in {"created", "exited"}
    \/ kind = "remove" /\ Exists(r)

Becomes(r, state) == container' = [container EXCEPT ![r] = state]

Effect(kind, r) ==
    /\ \/ Accepts(kind, r) /\ kind = "create" /\ Becomes(r, "created") /\ UNCHANGED starts
       \/ /\ Accepts(kind, r) /\ kind = "start" /\ Becomes(r, "running")
          /\ starts' = [starts EXCEPT ![r] = @ + 1]
       \/ Accepts(kind, r) /\ kind = "remove" /\ Becomes(r, "removed") /\ UNCHANGED starts
       \/ ~Accepts(kind, r) /\ UNCHANGED <<container, starts>>
    /\ UNCHANGED exit

\* a request given up by its sender: its effect is missing, done, or still to come
Fails(kind, r) ==
    \/ UNCHANGED daemon
    \/ Effect(kind, r) /\ UNCHANGED inflight
    \/ inflight' = inflight \cup {<<kind, r>>} /\ UNCHANGED <<container, exit, starts>>

\* any exception in the try block is followed by reconcile
Create(c) ==
    LET r == ctl[c].run IN
    /\ At(c, "create")
    /\ \/ ~Exists(r) /\ Effect("create", r) /\ Goto(c, "identify") /\ UNCHANGED inflight
       \/ Fails("create", r) /\ Goto(c, "find")
    /\ UNCHANGED <<approvals, execution, journal, inputs, alive, cancelled>>

\* the container id is saved, then looked up once more
Identify(c) ==
    LET r == ctl[c].run IN
    /\ At(c, "identify")
    /\ Save(r, [journal[r] EXCEPT !.id = TRUE])
    /\ Goto(c, "start") \/ Goto(c, "find")
    /\ UNCHANGED <<approvals, execution, inputs, daemon, alive, cancelled>>

\* fault: a start without an answer is tried again
AfterLostStart_Retry == "start"

AfterLostStart == "find"

StartContainer(c) ==
    LET r == ctl[c].run IN
    /\ At(c, "start")
    /\ \/ Exists(r) /\ Effect("start", r) /\ Goto(c, "wait") /\ UNCHANGED inflight
       \/ Fails("start", r) /\ Goto(c, AfterLostStart)
    /\ UNCHANGED <<approvals, execution, journal, inputs, alive, cancelled>>

\* fault: a command that timed out counts as ended with code 0
ExitEvidence_Assumed(r) == IF exit[r] = None THEN 0 ELSE exit[r]

\* the exit code docker wait reports, if there is one
ExitEvidence(r) == exit[r]

\* wait and logs: the exit code and the output, or a timeout.  The journal keeps a copy of the
\* exit code that nobody reads; it is left out.
Wait(c) ==
    /\ At(c, "wait")
    /\ \/ ctl' = [ctl EXCEPT ![c].at = "find", ![c].outcome = ExitEvidence(ctl[c].run)]
       \/ Goto(c, "find")
    /\ UNCHANGED <<approvals, execution, journal, inputs, daemon, alive, cancelled>>

-----------------------------------------------------------------------------
(* reconcile, at the end of run and in recover_task *)

\* fault: no container found counts as no container made
MayConclude_Absent(record, found) == TRUE

\* nothing found proves nothing unless the creation was recorded
MayConclude(record, found) == found \/ record.id

\* the journal is read and the container looked up; the lookup may fail
Find(c) ==
    LET r == ctl[c].run
        record == journal[r]
    IN  /\ At(c, "find")
        /\ \/ Raise(c)
           \/ /\ record # None /\ MayConclude(record, Exists(r))
              /\ ctl' = [ctl EXCEPT ![c].at = IF Exists(r) THEN "remember" ELSE "verify",
                                    ![c].record = record]
        /\ UNCHANGED <<approvals, execution, journal, inputs, daemon, alive, cancelled>>

Remember(c) ==
    LET record == [ctl[c].record EXCEPT !.id = TRUE] IN
    /\ At(c, "remember")
    /\ Save(ctl[c].run, record)
    /\ ctl' = [ctl EXCEPT ![c].at = "remove", ![c].record = record]
    /\ UNCHANGED <<approvals, execution, inputs, daemon, alive, cancelled>>

Remove(c) ==
    LET r == ctl[c].run IN
    /\ At(c, "remove")
    /\ \/ Effect("remove", r) /\ Goto(c, "verify") /\ UNCHANGED inflight
       \/ Fails("remove", r) /\ Raise(c)
    /\ UNCHANGED <<approvals, execution, journal, inputs, alive, cancelled>>

Verify(c) ==
    /\ At(c, "verify")
    /\ \/ Raise(c)
       \/ ~Exists(ctl[c].run) /\ Goto(c, "confirm")
    /\ UNCHANGED <<approvals, execution, journal, inputs, daemon, alive, cancelled>>

Confirm(c) ==
    /\ At(c, "confirm")
    /\ Save(ctl[c].run, [ctl[c].record EXCEPT !.cleanup = "CONFIRMED"])
    /\ Goto(c, "discard")
    /\ UNCHANGED <<approvals, execution, inputs, daemon, alive, cancelled>>

\* the snapshot is deleted; run returns its result, or goes on raising
Discard(c) ==
    /\ At(c, "discard")
    /\ inputs' = inputs \ {ctl[c].run}
    /\ Goto(c, IF ctl[c].recovers \/ ctl[c].outcome = None THEN "block" ELSE "publish")
    /\ UNCHANGED <<approvals, execution, journal, daemon, alive, cancelled>>

-----------------------------------------------------------------------------
(* The end of start_task, and recover_task *)

\* the result is saved; a candidate that cannot be collected or verified is refused
Publish(c) ==
    /\ At(c, "publish")
    /\ \/ /\ SetStatus(ctl[c].run, IF ctl[c].outcome = 0 THEN "SUCCESS" ELSE "FAILED")
          /\ ctl' = [ctl EXCEPT ![c] = Idle]
       \/ ctl[c].outcome = 0 /\ Raise(c) /\ UNCHANGED execution
    /\ UNCHANGED <<approvals, journal, inputs, daemon, alive, cancelled>>

\* status BLOCKED, result NULL
Block(c) ==
    /\ At(c, "block")
    /\ SetStatus(ctl[c].run, "BLOCKED")
    /\ ctl' = [ctl EXCEPT ![c] = Idle]
    /\ UNCHANGED <<approvals, journal, inputs, daemon, alive, cancelled>>

\* fault: recovery does not ask for a saved result first
HasResult_Ignored(r) == FALSE

HasResult(r) == execution[r].status \in {"SUCCESS", "FAILED"}

\* recover_task reads the row; a saved result is returned as it is.  initialize_tasks recovers
\* RUNNING tasks only, hence no cancelled one, and the operator of a database lets one recovery
\* run at a time, as docs/operations/APPROVED_CONTAINER_LOOP.md:79 asks.
BeginRecover(c, r) ==
    /\ At(c, "idle") /\ execution[r] # None /\ r \notin cancelled
    /\ \A k \in alive \ {c} : ctl[k].at # "idle" /\ DatabaseOf(ctl[k].run) = DatabaseOf(r) =>
          ~ctl[k].recovers /\ DatabaseOf(r) \notin Careful
    /\ ~HasResult(r)
    /\ ctl' = [ctl EXCEPT ![c] = [Idle EXCEPT !.at = "check", !.run = r, !.recovers = TRUE]]
    /\ UNCHANGED <<approvals, execution, journal, inputs, daemon, alive, cancelled>>

OwnerGone(r) == execution[r].owner \notin alive

\* then it asks whether the owner runs, and whether there is a journal
CheckOwner(c) ==
    LET r == ctl[c].run IN
    /\ At(c, "check")
    /\ IF ~OwnerGone(r) THEN Raise(c)
       ELSE Goto(c, IF journal[r] # None THEN "find" ELSE "block")
    /\ UNCHANGED <<approvals, execution, journal, inputs, daemon, alive, cancelled>>

-----------------------------------------------------------------------------
(* Crashes, the cancel command and the daemon *)

\* the request a controller may have sent when it is killed
Sending(c) == {kind \in {"create", "start", "remove"} : At(c, kind)} \X {ctl[c].run}

Die(c) ==
    /\ alive' = alive \ {c}
    /\ ctl' = [ctl EXCEPT ![c] = Idle]
    /\ \E lost \in SUBSET Sending(c) : inflight' = inflight \cup lost

Crash(c) ==
    /\ c \in alive
    /\ Die(c)
    /\ UNCHANGED <<approvals, execution, journal, inputs, container, exit, starts, cancelled>>

\* cmd_cancel of a task that runs: its controller is terminated, then the task is CANCELLED
Cancel(r) ==
    /\ execution[r] # None /\ r \notin cancelled
    /\ IF execution[r].owner \in alive THEN Die(execution[r].owner) ELSE UNCHANGED <<alive, ctl, inflight>>
    /\ cancelled' = cancelled \cup {r}
    /\ UNCHANGED <<approvals, execution, journal, inputs, container, exit, starts>>

ContainerExits(r) ==
    /\ container[r] = "running"
    /\ container' = [container EXCEPT ![r] = "exited"]
    /\ \E code \in {0, 1} : exit' = [exit EXCEPT ![r] = code]
    /\ UNCHANGED <<approvals, execution, journal, inputs, inflight, starts, alive, ctl, cancelled>>

\* a request given up by its sender is carried out, if it still can be
LateEffect(kind, r) ==
    /\ <<kind, r>> \in inflight
    /\ Effect(kind, r)
    /\ inflight' = inflight \ {<<kind, r>>}
    /\ UNCHANGED <<approvals, execution, journal, inputs, alive, ctl, cancelled>>

Init ==
    /\ issued = {} /\ consumed = {} /\ revoked = {} /\ expired = {}
    /\ execution = [r \in Run |-> None]
    /\ journal = [r \in Run |-> None]
    /\ inputs = {}
    /\ container = [r \in Run |-> "absent"]
    /\ exit = [r \in Run |-> None]
    /\ inflight = {}
    /\ alive = Controller
    /\ ctl = [c \in Controller |-> Idle]
    /\ cancelled = {}
    /\ spent = [k \in TokenId |-> {}]
    /\ starts = [r \in Run |-> 0]

Next ==
    \/ \E k \in TokenId : Issue(k) \/ Expire(k) \/ RevokeToken(k)
    \/ \E c \in Controller :
          \/ \E r \in Run, k \in TokenId : BeginStart(c, r, k)
          \/ Reserve(c) \/ Snapshot(c) \/ Consume(c) \/ Admit(c)
          \/ Prepare(c) \/ Create(c) \/ Identify(c) \/ StartContainer(c) \/ Wait(c)
          \/ Find(c) \/ Remember(c) \/ Remove(c) \/ Verify(c) \/ Confirm(c) \/ Discard(c)
          \/ Publish(c) \/ Block(c)
          \/ \E r \in Run : BeginRecover(c, r)
          \/ CheckOwner(c)
          \/ Crash(c)
    \/ \E r \in Run : Cancel(r) \/ ContainerExits(r) \/ \E kind \in {"create", "start", "remove"} : LateEffect(kind, r)

Spec == Init /\ [][Next]_vars

-----------------------------------------------------------------------------
Saved(r) == execution[r] # None /\ execution[r].status \in {"SUCCESS", "FAILED"}

\* Whatever is made by the daemon was approved: a token issued for this very task, consumed by this
\* run and by no other one in any control database.
RunsAreApproved ==
    \A r \in Run : container[r] # "absent" =>
        LET k == execution[r].token IN
        /\ Bound[k] = TaskOf(r) /\ k \in consumed
        /\ spent[k] = {r}

\* One dispatch per task and control database: crashes, recoveries and repeated calls never start
\* the command a second time.
StartedOnce == \A r \in Run : starts[r] <= 1

\* "No journal means the controller died before any Docker mutation": recover_task relies on it.
JournalPrecedesContainer ==
    \A r \in Run : container[r] # "absent" \/ <<"create", r>> \in inflight => journal[r] # None

\* A confirmed cleanup is final: the container is gone, no late answer brings it back, and only then
\* is its input snapshot deleted or a result reported.
CleanupIsFinal ==
    \A r \in Run :
        \/ journal[r] # None /\ journal[r].cleanup = "CONFIRMED"
        \/ journal[r] # None /\ r \notin inputs
        \/ Saved(r)
        => container[r] = "removed"

\* A recorded result is the container's: the exit code it ended with, and never an assumed one.
ResultIsMeasured ==
    \A r \in Run : execution[r] # None =>
        /\ execution[r].status = "SUCCESS" => exit[r] = 0
        /\ execution[r].status = "FAILED" => exit[r] = 1

\* A saved result stays where the operator is careful: no recovery and no late exception replaces it.
SavedResultIsKept ==
    [][\A r \in Run : Saved(r) /\ DatabaseOf(r) \in Careful => execution'[r] = execution[r]]_vars

\* poll_task, as the loop takes it: a run that is RESERVED or ADMITTED goes on.
Answer == [RESERVED |-> "active", ADMITTED |-> "active", SUCCESS |-> "success", FAILED |-> "failed",
           BLOCKED |-> "blocked"]

\* To the loop a run begins once and comes to one end, whatever controllers, recoveries and the
\* cancel command do: no repeated call and no recovery lets it begin or end again.
CarefulRun == {r \in Run : DatabaseOf(r) \in Careful}
Polled == [r \in CarefulRun |-> IF execution[r] = None THEN "none" ELSE Answer[execution[r].status]]
Runs == INSTANCE TaskRuns WITH Run <- CarefulRun, job <- Polled
ImplementsRuns == Runs!Spec

\* "If the prior controller died before saving a result [...] returns BLOCKED" and "A live [...]
\* controller [...] stops recovery" (docs/operations/APPROVED_CONTAINER_LOOP.md:75-79): a recovery
\* never blocks a run whose result is saved, whenever it begins.
ResultSurvivesRecovery == [][\A r \in Run : Saved(r) => execution'[r] = execution[r]]_vars

\* The reason cmd_cancel records, "Cancelled by operator via CLI with confirmed worker termination"
\* (cli.py:392): once a task is CANCELLED, its command does not run.
CancelledWorkIsOver == \A r \in cancelled : container[r] # "running"
=============================================================================

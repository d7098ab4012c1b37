---------------------------- MODULE RunLoop_proofs ----------------------------
(***************************************************************************)
(* Proofs about RunLoop, for any number of controllers and tasks, any plan, *)
(* either kind of adapter, and any use of the cancel command, unless a      *)
(* theorem says otherwise.                                                  *)
(*                                                                          *)
(* Inv: only the controller that dispatched or recovered a task last can    *)
(* leave its run unattended, so each step of a controller is looked at for  *)
(* that one alone (ControllerMoves); everyone else only takes a task out of *)
(* RUNNING (OthersMove).  The other invariants stand on it:                 *)
(*   ContractInv  an epoch is known to the controller it was granted to;    *)
(*   ClaimedOnce  the container adapter begins one run of a task for ever;  *)
(*   SessionsRecorded  the adapter knows each run that has a session;       *)
(*   ResourceInv  a lone controller counts in memory what may be RUNNING;   *)
(*   MatchInv     a session not yet finished is of the run recorded last;   *)
(*   WorkInv      what is at work is the run recorded last;                 *)
(*   LoneInv      a lone controller begins no task it has an old session of;*)
(*   UnusedInv    an epoch granted and not used yet names no run;           *)
(*   SoloInv      a lone controller releases no lease of a RUNNING task;    *)
(*   CoverInv     nor does one of several, over its own leases;             *)
(*   RowsAreLast  the lease row carries the last epoch granted.             *)
(***************************************************************************)
EXTENDS RunLoop, FiniteSetTheorems, TLAPS

-----------------------------------------------------------------------------
(* The invariant *)

\* The run of t is looked after by c; what the container adapter recovers may be an older run.
Attended(t, c) ==
    \/ ~Alive(c)
    \/ session[c][t] # None /\ (adapter = "container" \/ session[c][t].run = run[t])
    \/ ctl[c].task = t /\ ctl[c].at \in {"start", "report"}

DepsAreDone(t) == \A d \in Deps[t] : status[d] = "DONE"

TaskInv(t) ==
    status[t] = "RUNNING" =>
        /\ run[t] \in Epoch
        /\ runner[t] \in Controller /\ up[runner[t]] # "new"
        /\ Attended(t, runner[t])
        /\ DepsAreDone(t)

\* What a controller knows at its place.  What its scheduler takes for DONE is DONE; a task whose
\* session it is about to drop is not one it runs.
CtlInv(c) ==
    LET at == ctl[c].at
        task == ctl[c].task
    IN  /\ up[c] = "new" => at = "idle"
        /\ at \in {"closing", "claim", "start", "report"} => task \in Task
        /\ at \in {"claim", "start", "report"} => ctl[c].epoch \in Epoch
        /\ at \in {"start", "report"} /\ runner[task] = c => run[task] = ctl[c].epoch
        /\ at \notin {"poll", "closing"} => ctl[c].finished = {}
        /\ \A t \in ctl[c].finished : ~(status[t] = "RUNNING" /\ runner[t] = c)
        /\ at = "closing" => ~(status[task] = "RUNNING" /\ runner[task] = c)
        /\ at = "claim" => task \in ctl[c].todo
        /\ at \in {"dispatch", "claim", "start"} => \A t \in ctl[c].todo : DepsAreDone(t)
        /\ \A d \in Task : sched[c][d] = "DONE" => status[d] = "DONE"

OpInv ==
    /\ op.at # "none" => op.task \in Task
    /\ op.at \in {"kill", "release"} => op.pid \in Controller

Inv ==
    /\ TypeOK /\ OpInv
    /\ \A t \in Task : TaskInv(t)
    /\ \A c \in Controller : CtlInv(c)

-----------------------------------------------------------------------------
\* Under an adapter without recover_task, an epoch is known to the controller that was granted it
\* and to no other.
Holds(c, t, e) ==
    \/ session[c][t] # None /\ session[c][t].run = e
    \/ ctl[c].at \in {"claim", "start"} /\ ctl[c].task = t /\ ctl[c].epoch = e

ContractInv ==
    adapter = "contract" =>
        /\ \A t \in Task : lease[t] # None => lease[t].epoch = epochs[t]
        /\ \A c \in Controller, t \in Task, e \in Epoch : Holds(c, t, e) => e <= epochs[t]
        /\ \A c, k \in Controller, t \in Task, e \in Epoch : Holds(c, t, e) /\ Holds(k, t, e) => c = k

-----------------------------------------------------------------------------
(* Control *)

Control == [at : Place, task : Task \cup {None}, epoch : 0 .. MaxEpoch,
            todo : SUBSET Task, finished : SUBSET Task, down : SUBSET Task]

Sched == [Task -> Status]

\* The cancel command.
Command == [at : {"none", "lookup", "kill", "release", "commit"}, task : Task \cup {None},
            was : Status \cup {None}, current : BOOLEAN, epoch : 0 .. MaxEpoch,
            pid : Controller \cup {None}]

USE DEF Command

SessionTable == [Task -> [run : Epoch, epoch : Epoch] \cup {None}]

LEMMA IdleType ==
    /\ NotRunningCode \in Control /\ NotRunningCode.at = "idle"
    /\ NotRunningCode.todo = {} /\ NotRunningCode.finished = {}
  BY LimitAssumption DEF NotRunningCode, Control, Place

\* One controller moves, its scheduler is written, the status of one task is set.
LEMMA CtlTypes ==
    ASSUME TypeOK, NEW c \in Controller
    PROVE  /\ ctl[c] \in Control
           /\ \A r \in Control : /\ [ctl EXCEPT ![c] = r] \in [Controller -> Control]
                                 /\ [ctl EXCEPT ![c] = r][c] = r
                                 /\ \A k \in Controller \ {c} : [ctl EXCEPT ![c] = r][k] = ctl[k]
  BY DEF TypeOK, Control

LEMMA RaiseTypes ==
    ASSUME TypeOK, NEW c \in Controller, RaiseTo(c)
    PROVE  /\ ctl' \in [Controller -> Control] /\ ctl'[c] = NotRunningCode
           /\ \A k \in Controller \ {c} : ctl'[k] = ctl[k]
  BY CtlTypes, IdleType DEF RaiseTo

LEMMA DieTypes ==
    ASSUME TypeOK, NEW c \in Controller, Die(c)
    PROVE  /\ ctl' \in [Controller -> Control] /\ ctl'[c] = NotRunningCode
           /\ up' \in [Controller -> {"new", "up", "dead"}] /\ up'[c] = "dead"
           /\ sched' \in [Controller -> Sched] /\ \A t \in Task : sched'[c][t] = "PROPOSED"
           /\ active' \in [Controller -> SUBSET Task]
           /\ session' \in [Controller -> SessionTable]
           /\ \A k \in Controller \ {c} : /\ ctl'[k] = ctl[k] /\ up'[k] = up[k]
                                          /\ sched'[k] = sched[k] /\ session'[k] = session[k]
<1>1. /\ ctl' \in [Controller -> Control] /\ ctl'[c] = NotRunningCode
      /\ \A k \in Controller \ {c} : ctl'[k] = ctl[k]
  BY CtlTypes, IdleType DEF Die
<1>2. /\ up' \in [Controller -> {"new", "up", "dead"}] /\ up'[c] = "dead"
      /\ \A k \in Controller \ {c} : up'[k] = up[k]
  BY DEF TypeOK, Die
<1>3. [t \in Task |-> "PROPOSED"] \in Sched
  BY DEF Sched, Status
<1>4. /\ sched' \in [Controller -> Sched] /\ sched'[c] = [t \in Task |-> "PROPOSED"]
      /\ \A k \in Controller \ {c} : sched'[k] = sched[k]
  BY <1>3 DEF TypeOK, Die, Sched
<1>5. active' \in [Controller -> SUBSET Task]
  BY DEF TypeOK, Die
<1>6. [t \in Task |-> None] \in SessionTable
  BY DEF SessionTable
<1>7. session' \in [Controller -> SessionTable] /\ \A k \in Controller \ {c} : session'[k] = session[k]
  BY <1>6 DEF TypeOK, Die, SessionTable
<1> QED
  BY <1>1, <1>2, <1>4, <1>5, <1>7

LEMMA SchedulerTypes ==
    ASSUME TypeOK, NEW c \in Controller, NEW t \in Task, NEW to \in Status, UpdateScheduler(c, t, to)
    PROVE  /\ sched' \in [Controller -> Sched] /\ active' \in [Controller -> SUBSET Task]
           /\ \A k \in Controller \ {c} : sched'[k] = sched[k]
           /\ \A d \in Task : sched'[c][d] = "DONE" =>
                 IF d = t THEN to = "DONE" ELSE sched[c][d] = "DONE"
<1> DEFINE new == [x \in Task |-> IF x = t THEN to
                                  ELSE IF to = "FAILED" /\ x \in Dependents[t] THEN "BLOCKED"
                                  ELSE sched[c][x]]
<1>1. sched[c] \in Sched /\ active[c] \in SUBSET Task
  BY DEF TypeOK, Sched
<1>2. new \in Sched
  BY <1>1 DEF Sched, Status
<1>3. \A d \in Task : new[d] = "DONE" => IF d = t THEN to = "DONE" ELSE sched[c][d] = "DONE"
  OBVIOUS
<1>4. sched' = [sched EXCEPT ![c] = new]
  BY DEF UpdateScheduler
<1> HIDE DEF new
<1>5. active' \in [Controller -> SUBSET Task]
  <2>1. \E S \in SUBSET Task : active' = [active EXCEPT ![c] = S]
    BY <1>1 DEF UpdateScheduler
  <2> QED
    BY <2>1 DEF TypeOK
<1>6. sched \in [Controller -> Sched]
  BY DEF TypeOK, Sched
<1> QED
  BY <1>2, <1>3, <1>4, <1>5, <1>6

LEMMA CommitTypes ==
    ASSUME TypeOK, OpInv, NEW t \in Task, NEW to \in Status, Commit(t, to)
    PROVE  /\ status' \in [Task -> Status] /\ op'.task = op.task /\ op'.pid = op.pid /\ op'.at = op.at
           /\ op' \in Command
           /\ status'[t] = to /\ \A u \in Task \ {t} : status'[u] = status[u]
           /\ OpInv'
<1>1. status' \in [Task -> Status] /\ status'[t] = to /\ \A u \in Task \ {t} : status'[u] = status[u]
  BY DEF TypeOK, Commit
<1>2. /\ op'.task = op.task /\ op'.pid = op.pid /\ op'.at = op.at
      /\ op' \in Command
  BY DEF TypeOK, Commit
<1> QED
  BY <1>1, <1>2 DEF OpInv

-----------------------------------------------------------------------------
(* Frames *)

\* The memory of everyone but c stays; and so does the adapter.
Apart(c) ==
    \A k \in Controller \ {c} : /\ ctl'[k] = ctl[k] /\ up'[k] = up[k]
                                /\ sched'[k] = sched[k] /\ session'[k] = session[k]
Alone(c) == Apart(c) /\ adapter' = adapter

\* What is DONE stays DONE, and a run that is not of c is an old one.
Past(c) ==
    \A t \in Task : /\ status[t] = "DONE" => status'[t] = "DONE"
                    /\ \/ runner'[t] = c
                       \/ /\ runner'[t] = runner[t] /\ run'[t] = run[t]
                          /\ status'[t] = "RUNNING" => status[t] = "RUNNING"

LEMMA ControllerMoves ==
    ASSUME Inv, TypeOK', OpInv', NEW c \in Controller, Alone(c), Past(c), CtlInv(c)',
           \A t \in Task : runner'[t] = c => TaskInv(t)'
    PROVE  Inv'
<1>0. Deps \in [Task -> SUBSET Task]
  BY DepsAssumption
<1>1. ASSUME NEW t \in Task, DepsAreDone(t) PROVE DepsAreDone(t)'
  BY <1>0, <1>1 DEF DepsAreDone, Past
<1>2. ASSUME NEW t \in Task, runner'[t] # c, status'[t] = "RUNNING" PROVE TaskInv(t)'
  <2>1. runner'[t] = runner[t] /\ run'[t] = run[t] /\ status[t] = "RUNNING"
    BY <1>2 DEF Past
  <2>2. TaskInv(t)
    BY DEF Inv
  <2>3. runner[t] \in Controller \ {c}
    BY <1>2, <2>1, <2>2 DEF TaskInv
  <2>4. DepsAreDone(t)'
    BY <1>1, <2>1, <2>2 DEF TaskInv
  <2>5. Attended(t, runner[t])'
    BY <2>1, <2>2, <2>3 DEF TaskInv, Attended, Alone, Apart, Alive
  <2> QED
    BY <2>1, <2>2, <2>3, <2>4, <2>5 DEF TaskInv, Alone, Apart
<1>3. ASSUME NEW t \in Task PROVE TaskInv(t)'
  BY <1>2 DEF TaskInv
<1>4. ASSUME NEW k \in Controller \ {c} PROVE CtlInv(k)'
  <2>1. CtlInv(k) /\ ctl'[k] = ctl[k] /\ up'[k] = up[k] /\ sched'[k] = sched[k]
    BY DEF Inv, Alone, Apart
  <2>2. \A t \in Task : status'[t] = "RUNNING" /\ runner'[t] = k => status[t] = "RUNNING" /\ runner[t] = k
    BY DEF Past
  <2>3. \A t \in Task : runner'[t] = k => runner[t] = k /\ run'[t] = run[t]
    BY DEF Past
  <2>4. \A t \in Task : status[t] = "DONE" => status'[t] = "DONE"
    BY DEF Past
  <2>5. ctl[k].todo \subseteq Task /\ ctl[k].finished \subseteq Task
    BY CtlTypes DEF Inv, Control
  <2> QED
    BY <1>1, <2>1, <2>2, <2>3, <2>4, <2>5 DEF CtlInv
<1> QED
  BY <1>3, <1>4 DEF Inv

\* c moves and commits nothing.
LEMMA LocalMoves ==
    ASSUME Inv, TypeOK', NEW c \in Controller, Alone(c), UNCHANGED <<status, run, runner, op>>,
           CtlInv(c)', up'[c] # "new",
           \A t \in Task : status[t] = "RUNNING" /\ runner[t] = c => Attended(t, c)'
    PROVE  Inv'
<1>1. OpInv' /\ Past(c)
  BY DEF Inv, OpInv, Past
<1>2. ASSUME NEW t \in Task, runner'[t] = c PROVE TaskInv(t)'
  <2>1. TaskInv(t) /\ runner[t] = c
    BY <1>2 DEF Inv
  <2> QED
    BY <2>1 DEF TaskInv, DepsAreDone
<1> QED
  BY <1>1, <1>2, ControllerMoves

\* c moves on in its code, and no more than that.
LEMMA PlaceMoves ==
    ASSUME Inv, NEW c \in Controller, ctl' \in [Controller -> Control],
           \A k \in Controller \ {c} : ctl'[k] = ctl[k],
           UNCHANGED <<status, run, runner, op, epochs, adapter, job, owner, memory, up>>,
           lease' \in [Task -> [epoch : Epoch, pid : Controller] \cup {None}],
           up[c] # "new", ctl[c].at \notin {"start", "report"} \/ ~Alive(c), CtlInv(c)'
    PROVE  Inv'
<1>1. TypeOK'
  BY DEF Inv, TypeOK, Control, memory
<1>2. Alone(c)
  BY DEF Alone, Apart, memory
<1>3. ASSUME NEW t \in Task, status[t] = "RUNNING", runner[t] = c PROVE Attended(t, c)'
  <2>1. Attended(t, c)
    BY <1>3 DEF Inv, TaskInv
  <2> QED
    BY <2>1 DEF Attended, Alive, memory
<1> QED
  BY <1>1, <1>2, <1>3, LocalMoves

-----------------------------------------------------------------------------
(* Moves from place to place *)

LEMMA RaiseMoves ==
    ASSUME Inv, NEW c \in Controller, RaiseTo(c), ctl[c].at \notin {"start", "report"}, up[c] = "up",
           UNCHANGED <<durable, memory, up, op>>
    PROVE  Inv'
<1>1. TypeOK /\ CtlInv(c)
  BY DEF Inv
<1>2. /\ ctl' \in [Controller -> Control] /\ ctl'[c] = NotRunningCode
      /\ \A k \in Controller \ {c} : ctl'[k] = ctl[k]
  BY <1>1, RaiseTypes
<1>3. CtlInv(c)'
  BY <1>1, <1>2, IdleType DEF CtlInv, durable, memory
<1> QED
  BY <1>1, <1>2, <1>3, PlaceMoves DEF TypeOK, durable

LEMMA ReinitializeStep ==
    ASSUME Inv, NEW c \in Controller, Reinitialize(c)
    PROVE  Inv'
<1> DEFINE new == [ctl[c] EXCEPT !.at = "initialize", !.todo = Task]
<1>1. /\ TypeOK /\ CtlInv(c) /\ ctl[c] \in Control /\ up[c] = "up"
      /\ ctl[c].at = "idle"
  BY CtlTypes DEF Inv, Reinitialize, At, Alive
<1>2. new \in Control
  BY <1>1 DEF Control, Place
<1>3. ctl' = [ctl EXCEPT ![c] = new]
  BY DEF Reinitialize
<1>4. ctl' \in [Controller -> Control] /\ ctl'[c] = new /\ \A k \in Controller \ {c} : ctl'[k] = ctl[k]
  BY <1>1, <1>2, <1>3, CtlTypes
<1>5. UNCHANGED <<status, lease, run, runner, op, epochs, adapter, job, owner, memory, up>>
  BY DEF Reinitialize, durable
<1>6. CtlInv(c)'
  BY <1>1, <1>4, <1>5 DEF CtlInv, DepsAreDone, Control, memory
<1> QED
  BY <1>1, <1>4, <1>5, <1>6, PlaceMoves DEF TypeOK

LEMMA EndInitializeStep ==
    ASSUME Inv, NEW c \in Controller, EndInitialize(c)
    PROVE  Inv'
<1> DEFINE new == [ctl[c] EXCEPT !.at = "idle"]
<1>1. /\ TypeOK /\ CtlInv(c) /\ ctl[c] \in Control /\ up[c] = "up"
      /\ ctl[c].at = "initialize"
  BY CtlTypes DEF Inv, EndInitialize, At, Alive
<1>2. new \in Control
  BY <1>1 DEF Control, Place
<1>3. ctl' = [ctl EXCEPT ![c] = new]
  BY DEF EndInitialize
<1>4. ctl' \in [Controller -> Control] /\ ctl'[c] = new /\ \A k \in Controller \ {c} : ctl'[k] = ctl[k]
  BY <1>1, <1>2, <1>3, CtlTypes
<1>5. UNCHANGED <<status, lease, run, runner, op, epochs, adapter, job, owner, memory, up>>
  BY DEF EndInitialize, durable
<1>6. CtlInv(c)'
  BY <1>1, <1>4, <1>5 DEF CtlInv, DepsAreDone, Control, memory
<1> QED
  BY <1>1, <1>4, <1>5, <1>6, PlaceMoves DEF TypeOK

LEMMA BeginStepStep ==
    ASSUME Inv, NEW c \in Controller, BeginStep(c)
    PROVE  Inv'
<1> DEFINE new == [ctl[c] EXCEPT !.at = "poll", !.todo = Sessions(c)]
<1>1. /\ TypeOK /\ CtlInv(c) /\ ctl[c] \in Control /\ up[c] = "up"
      /\ ctl[c].at = "idle"
  BY CtlTypes DEF Inv, BeginStep, At, Alive
<1>2. new \in Control
  BY <1>1 DEF Control, Place, Sessions
<1>3. ctl' = [ctl EXCEPT ![c] = new]
  BY DEF BeginStep
<1>4. ctl' \in [Controller -> Control] /\ ctl'[c] = new /\ \A k \in Controller \ {c} : ctl'[k] = ctl[k]
  BY <1>1, <1>2, <1>3, CtlTypes
<1>5. UNCHANGED <<status, lease, run, runner, op, epochs, adapter, job, owner, memory, up>>
  BY DEF BeginStep, durable
<1>6. CtlInv(c)'
  BY <1>1, <1>4, <1>5 DEF CtlInv, DepsAreDone, Control, memory
<1> QED
  BY <1>1, <1>4, <1>5, <1>6, PlaceMoves DEF TypeOK

LEMMA PollActiveStep ==
    ASSUME Inv, NEW c \in Controller, NEW t \in Task, PollActive(c, t)
    PROVE  Inv'
<1> DEFINE new == [ctl[c] EXCEPT !.todo = ctl[c].todo \ {t}]
<1>1. /\ TypeOK /\ CtlInv(c) /\ ctl[c] \in Control /\ up[c] = "up"
      /\ ctl[c].at = "poll"
  BY CtlTypes DEF Inv, PollActive, At, Alive
<1>2. new \in Control
  BY <1>1 DEF Control, Place
<1>3. ctl' = [ctl EXCEPT ![c] = new]
  BY DEF PollActive
<1>4. ctl' \in [Controller -> Control] /\ ctl'[c] = new /\ \A k \in Controller \ {c} : ctl'[k] = ctl[k]
  BY <1>1, <1>2, <1>3, CtlTypes
<1>5. UNCHANGED <<status, lease, run, runner, op, epochs, adapter, job, owner, memory, up>>
  BY DEF PollActive, durable
<1>6. CtlInv(c)'
  BY <1>1, <1>4, <1>5 DEF CtlInv, DepsAreDone, Control, memory
<1> QED
  BY <1>1, <1>4, <1>5, <1>6, PlaceMoves DEF TypeOK

LEMMA AcquireRefusedStep ==
    ASSUME Inv, NEW c \in Controller, NEW t \in Task, AcquireRefused(c, t)
    PROVE  Inv'
<1> DEFINE new == [ctl[c] EXCEPT !.todo = ctl[c].todo \ {t}]
<1>1. /\ TypeOK /\ CtlInv(c) /\ ctl[c] \in Control /\ up[c] = "up"
      /\ ctl[c].at = "dispatch"
  BY CtlTypes DEF Inv, AcquireRefused, At, Alive
<1>2. new \in Control
  BY <1>1 DEF Control, Place
<1>3. ctl' = [ctl EXCEPT ![c] = new]
  BY DEF AcquireRefused
<1>4. ctl' \in [Controller -> Control] /\ ctl'[c] = new /\ \A k \in Controller \ {c} : ctl'[k] = ctl[k]
  BY <1>1, <1>2, <1>3, CtlTypes
<1>5. UNCHANGED <<status, lease, run, runner, op, epochs, adapter, job, owner, memory, up>>
  BY DEF AcquireRefused, durable
<1>6. CtlInv(c)'
  BY <1>1, <1>4, <1>5 DEF CtlInv, DepsAreDone, Control, memory
<1> QED
  BY <1>1, <1>4, <1>5, <1>6, PlaceMoves DEF TypeOK

LEMMA CollectRaisesStep ==
    ASSUME Inv, NEW c \in Controller, NEW t \in Task, CollectRaises(c, t)
    PROVE  Inv'
<1>1. RaiseTo(c) /\ ctl[c].at = "poll" /\ up[c] = "up"
  BY DEF CollectRaises, At, Alive
<1>2. UNCHANGED <<durable, memory, up, op>>
  BY DEF CollectRaises
<1> QED
  BY <1>1, <1>2, RaiseMoves

LEMMA BlockDownstreamRaisesStep ==
    ASSUME Inv, NEW c \in Controller, NEW d \in Task, BlockDownstreamRaises(c, d)
    PROVE  Inv'
<1>1. RaiseTo(c) /\ ctl[c].at = "closing" /\ up[c] = "up"
  BY DEF BlockDownstreamRaises, At, Alive
<1>2. UNCHANGED <<durable, memory, up, op>>
  BY DEF BlockDownstreamRaises
<1> QED
  BY <1>1, <1>2, RaiseMoves

LEMMA ContextRefusedStep ==
    ASSUME Inv, NEW c \in Controller, NEW t \in Task, ContextRefused(c, t)
    PROVE  Inv'
<1>1. RaiseTo(c) /\ ctl[c].at = "dispatch" /\ up[c] = "up"
  BY DEF ContextRefused, At, Alive
<1>2. UNCHANGED <<durable, memory, up, op>>
  BY DEF ContextRefused
<1> QED
  BY <1>1, <1>2, RaiseMoves

LEMMA ClaimRaisesStep ==
    ASSUME Inv, NEW c \in Controller, ClaimRaises(c)
    PROVE  Inv'
<1>1. RaiseTo(c) /\ ctl[c].at = "claim" /\ up[c] = "up"
  BY DEF ClaimRaises, At, Alive
<1>2. UNCHANGED <<durable, memory, up, op>>
  BY DEF ClaimRaises
<1> QED
  BY <1>1, <1>2, RaiseMoves

LEMMA EndDispatchStep ==
    ASSUME Inv, NEW c \in Controller, EndDispatch(c)
    PROVE  Inv'
<1>1. RaiseTo(c) /\ ctl[c].at = "dispatch" /\ up[c] = "up"
  BY DEF EndDispatch, At, Alive
<1>2. UNCHANGED <<durable, memory, up, op>>
  BY DEF EndDispatch
<1> QED
  BY <1>1, <1>2, RaiseMoves

LEMMA ReleaseFinishedStep ==
    ASSUME Inv, NEW c \in Controller, ReleaseFinished(c)
    PROVE  Inv'
<1> DEFINE t == ctl[c].task
           new == [NotRunningCode EXCEPT !.at = "poll", !.todo = ctl[c].todo \ {t},
                                         !.finished = ctl[c].finished \cup {t}]
<1>1. /\ TypeOK /\ CtlInv(c) /\ ctl[c] \in Control /\ up[c] = "up"
      /\ ctl[c].at = "closing" /\ t \in Task
  BY CtlTypes DEF Inv, CtlInv, ReleaseFinished, At, Alive
<1>2. new \in Control
  BY <1>1, IdleType DEF Control, Place
<1>3. ctl' = [ctl EXCEPT ![c] = new]
  BY DEF ReleaseFinished
<1>4. ctl' \in [Controller -> Control] /\ ctl'[c] = new /\ \A k \in Controller \ {c} : ctl'[k] = ctl[k]
  BY <1>1, <1>2, <1>3, CtlTypes
<1>5. UNCHANGED <<status, run, runner, op, epochs, adapter, job, owner, memory, up>>
  BY DEF ReleaseFinished
<1>6. CtlInv(c)'
  BY <1>1, <1>4, <1>5, IdleType DEF CtlInv, DepsAreDone, Control, memory
<1>7. lease' \in [Task -> [epoch : Epoch, pid : Controller] \cup {None}]
  BY <1>1 DEF ReleaseFinished, Released, TypeOK
<1> QED
  BY <1>1, <1>4, <1>5, <1>6, <1>7, PlaceMoves

LEMMA StartStep ==
    ASSUME Inv, NEW c \in Controller, Start(c)
    PROVE  Inv'
<1> DEFINE new == [ctl[c] EXCEPT !.at = "initialize", !.todo = Task]
<1>1. TypeOK /\ CtlInv(c) /\ ctl[c] \in Control /\ up[c] = "new" /\ ctl[c].at = "idle"
  BY CtlTypes DEF Inv, Start, CtlInv
<1>2. new \in Control
  BY <1>1 DEF Control, Place
<1>3. ctl' = [ctl EXCEPT ![c] = new]
  BY DEF Start
<1>4. ctl' \in [Controller -> Control] /\ ctl'[c] = new /\ \A k \in Controller \ {c} : ctl'[k] = ctl[k]
  BY <1>1, <1>2, <1>3, CtlTypes
<1>5. /\ up' \in [Controller -> {"new", "up", "dead"}] /\ up'[c] = "up"
      /\ \A k \in Controller \ {c} : up'[k] = up[k]
  BY <1>1 DEF Start, TypeOK
<1>6. UNCHANGED <<status, adapter, run, runner, op, sched, session>>
  BY DEF Start, durable, memory
<1>7. TypeOK'
  BY <1>1, <1>4, <1>5 DEF Start, TypeOK, Control, durable, memory
<1>8. CtlInv(c)'
  BY <1>1, <1>4, <1>5, <1>6 DEF CtlInv, Control
<1>9. ASSUME NEW t \in Task, status[t] = "RUNNING" PROVE runner[t] # c
  BY <1>1, <1>9 DEF Inv, TaskInv
<1>10. Alone(c)
  BY <1>4, <1>5, <1>6 DEF Alone, Apart
<1> QED
  BY <1>5, <1>6, <1>7, <1>8, <1>9, <1>10, LocalMoves

LEMMA LoadStep ==
    ASSUME Inv, NEW c \in Controller, NEW t \in Task, Load(c, t)
    PROVE  Inv'
<1> DEFINE new == [ctl[c] EXCEPT !.todo = ctl[c].todo \ {t}]
<1>1. /\ TypeOK /\ CtlInv(c) /\ ctl[c] \in Control /\ up[c] = "up" /\ ctl[c].at = "initialize"
      /\ status[t] \in Status
  BY CtlTypes DEF Inv, Load, At, Alive, TypeOK
<1>2. new \in Control
  BY <1>1 DEF Control
<1>3. ctl' = [ctl EXCEPT ![c] = new]
  BY DEF Load
<1>4. ctl' \in [Controller -> Control] /\ ctl'[c] = new /\ \A k \in Controller \ {c} : ctl'[k] = ctl[k]
  BY <1>1, <1>2, <1>3, CtlTypes
<1>5. /\ sched' \in [Controller -> Sched] /\ active' \in [Controller -> SUBSET Task]
      /\ \A k \in Controller \ {c} : sched'[k] = sched[k]
      /\ \A d \in Task : sched'[c][d] = "DONE" =>
            IF d = t THEN status[t] = "DONE" ELSE sched[c][d] = "DONE"
  BY <1>1, SchedulerTypes DEF Load
<1>6. UNCHANGED <<status, adapter, run, runner, op, session, up>>
  BY DEF Load, durable
<1>7. TypeOK'
  BY <1>1, <1>4, <1>5 DEF Load, TypeOK, Control, Sched, durable
<1>8. CtlInv(c)'
  BY <1>1, <1>4, <1>5, <1>6 DEF CtlInv, Control
<1>9. ASSUME NEW u \in Task, status[u] = "RUNNING", runner[u] = c PROVE Attended(u, c)'
  <2>1. Attended(u, c)
    BY <1>9 DEF Inv, TaskInv
  <2> QED
    BY <2>1, <1>1, <1>6 DEF Attended, Alive
<1>10. Alone(c)
  BY <1>4, <1>5, <1>6 DEF Alone, Apart
<1> QED
  BY <1>1, <1>6, <1>7, <1>8, <1>9, <1>10, LocalMoves

LEMMA RecoverStep ==
    ASSUME Inv, NEW c \in Controller, NEW t \in Task, Recover(c, t)
    PROVE  Inv'
<1>0. PICK e \in Epoch :
          /\ MayRecover(t, e)
          /\ job' = [job EXCEPT ![t][e] = IF @ = "active" THEN "blocked" ELSE @]
          /\ session' = [session EXCEPT ![c][t] = [run |-> e, epoch |-> lease[t].epoch]]
  BY DEF Recover
<1> DEFINE new == [ctl[c] EXCEPT !.todo = ctl[c].todo \ {t}]
           found == [run |-> e, epoch |-> lease[t].epoch]
<1>1. /\ TypeOK /\ CtlInv(c) /\ ctl[c] \in Control /\ up[c] = "up" /\ ctl[c].at = "initialize"
      /\ status[t] = "RUNNING" /\ lease[t] # None /\ run[t] \in Epoch /\ DepsAreDone(t)
      /\ adapter = "container"
  BY <1>0, CtlTypes DEF Inv, Recover, MayRecover, At, Alive, TaskInv
<1>2. new \in Control
  BY <1>1 DEF Control
<1>3. ctl' = [ctl EXCEPT ![c] = new]
  BY DEF Recover
<1>4. ctl' \in [Controller -> Control] /\ ctl'[c] = new /\ \A k \in Controller \ {c} : ctl'[k] = ctl[k]
  BY <1>1, <1>2, <1>3, CtlTypes
<1>5. /\ sched' \in [Controller -> Sched] /\ active' \in [Controller -> SUBSET Task]
      /\ \A k \in Controller \ {c} : sched'[k] = sched[k]
      /\ \A d \in Task : sched'[c][d] = "DONE" =>
            IF d = t THEN "RUNNING" = "DONE" ELSE sched[c][d] = "DONE"
  <2>1. "RUNNING" \in Status /\ UpdateScheduler(c, t, "RUNNING")
    BY DEF Recover, Status
  <2> QED
    BY <1>1, <2>1, SchedulerTypes
<1>6. UNCHANGED <<status, lease, epochs, adapter, owner, run, up, op>>
  BY DEF Recover
<1>7. found \in [run : Epoch, epoch : Epoch] /\ found # None
  BY <1>1, NoneAssumption DEF TypeOK
<1>8. /\ session' \in [Controller -> SessionTable] /\ session'[c][t] = found
      /\ \A u \in Task \ {t} : session'[c][u] = session[c][u]
      /\ \A k \in Controller \ {c} : session'[k] = session[k]
  BY <1>0, <1>1, <1>7 DEF TypeOK, SessionTable
<1>9. runner' \in [Task -> Controller \cup {None}] /\ runner'[t] = c
      /\ \A u \in Task \ {t} : runner'[u] = runner[u]
  BY <1>1 DEF Recover, TypeOK
<1>10. job' \in [Task -> [Epoch -> JobStatus]]
  BY <1>0, <1>1 DEF TypeOK, JobStatus
<1>11. TypeOK'
  BY <1>1, <1>4, <1>5, <1>6, <1>8, <1>9, <1>10 DEF TypeOK, Control, Sched, SessionTable
<1>12. CtlInv(c)'
  BY <1>1, <1>4, <1>5, <1>6 DEF CtlInv, Control
<1>13. Alone(c) /\ Past(c)
  BY <1>4, <1>5, <1>6, <1>8, <1>9 DEF Alone, Apart, Past
<1>14. ASSUME NEW u \in Task, runner'[u] = c PROVE TaskInv(u)'
  <2>1. CASE u = t
    BY <1>1, <1>6, <1>7, <1>8, <1>9, <2>1 DEF TaskInv, Attended, DepsAreDone
  <2>2. CASE u # t
    <3>1. TaskInv(u) /\ runner[u] = c
      BY <1>9, <1>14, <2>2 DEF Inv
    <3> QED
      BY <1>1, <1>6, <1>8, <1>9, <2>2, <3>1 DEF TaskInv, Attended, Alive, DepsAreDone
  <2> QED
    BY <2>1, <2>2
<1>15. OpInv'
  BY <1>6 DEF Inv, OpInv
<1> QED
  BY <1>11, <1>12, <1>13, <1>14, <1>15, ControllerMoves

LEMMA DieMoves ==
    ASSUME Inv, NEW c \in Controller, Die(c), UNCHANGED durable, OpInv',
           op' \in Command
    PROVE  Inv'
<1>1. TypeOK /\ UNCHANGED <<status, adapter, run, runner>> /\ up'[c] = "dead"
  BY DieTypes DEF Inv, durable
<1>2. TypeOK'
  BY <1>1, DieTypes DEF TypeOK, Control, Sched, SessionTable, durable
<1>3. CtlInv(c)'
  BY <1>1, DieTypes, IdleType DEF CtlInv
<1>4. Alone(c) /\ Past(c)
  BY <1>1, DieTypes DEF Alone, Apart, Past
<1>5. ASSUME NEW t \in Task, runner'[t] = c PROVE TaskInv(t)'
  <2>1. TaskInv(t)
    BY DEF Inv
  <2> QED
    BY <1>1, <1>5, <2>1 DEF TaskInv, Attended, Alive, DepsAreDone
<1> QED
  BY <1>2, <1>3, <1>4, <1>5, ControllerMoves

LEMMA CrashStep ==
    ASSUME Inv, NEW c \in Controller, Crash(c) \/ \E t \in Task : InitializeRaises(c, t)
    PROVE  Inv'
<1>1. Die(c) /\ UNCHANGED <<durable, op>>
  BY DEF Crash, InitializeRaises
<1> QED
  BY <1>1, DieMoves DEF Inv, OpInv, TypeOK

-----------------------------------------------------------------------------
(* Moves that commit *)

\* No edge leaves DONE, and RUNNING is entered from READY only.
LEMMA EdgesFromDone ==
    \A e \in ALLOWED_TRANSITIONS : /\ e[1] # "DONE" /\ e[1] \in Status /\ e[2] \in Status
                                   /\ e[2] = "RUNNING" => e[1] = "READY"
  BY DEF ALLOWED_TRANSITIONS, Status

\* A task leaves RUNNING, or another status than DONE, for a status other than RUNNING.
LEMMA Leaves ==
    ASSUME Inv, NEW t \in Task, NEW to \in Status, to # "RUNNING", Legal(t, to), Commit(t, to),
           UNCHANGED <<run, runner>>
    PROVE  \A c \in Controller : Past(c)
<1>1. status[t] # "DONE"
  BY EdgesFromDone DEF Legal
<1>2. status'[t] = to /\ \A u \in Task \ {t} : status'[u] = status[u]
  BY CommitTypes DEF Inv
<1> QED
  BY <1>1, <1>2 DEF Past

LEMMA CollectStep ==
    ASSUME Inv, NEW c \in Controller, NEW t \in Task, Collect(c, t)
    PROVE  Inv'
<1> DEFINE to == Outcome(Polled(c, t))
           done == [ctl[c] EXCEPT !.todo = ctl[c].todo \ {t}, !.finished = ctl[c].finished \cup {t}]
           closing == [ctl[c] EXCEPT !.at = "closing", !.task = t,
                                     !.down = IF to = "FAILED" THEN Dependents[t] ELSE {}]
<1>1. /\ TypeOK /\ OpInv /\ CtlInv(c) /\ ctl[c] \in Control /\ up[c] = "up" /\ ctl[c].at = "poll"
      /\ Legal(t, to) /\ Commit(t, to) /\ UpdateScheduler(c, t, to)
      /\ UNCHANGED <<lease, epochs, adapter, job, owner, run, runner, session, up>>
  BY CtlTypes DEF Inv, Collect, At, Alive
<1>2. to \in {"VALIDATING", "FAILED", "BLOCKED"} /\ to \in Status
  BY DEF Outcome, Status
<1>3. Dependents[t] \subseteq Task
  BY DEF Dependents
<1>4. done \in Control /\ closing \in Control
  BY <1>1, <1>3 DEF Control, Place
<1>5. ctl' = [ctl EXCEPT ![c] = done] \/ ctl' = [ctl EXCEPT ![c] = closing]
  <2>1. CASE to = "BLOCKED"
    BY <2>1 DEF Collect
  <2>2. CASE to # "BLOCKED"
    BY <2>2 DEF Collect
  <2> QED
    BY <2>1, <2>2
<1>6. /\ ctl' \in [Controller -> Control] /\ ctl'[c] \in {done, closing}
      /\ \A k \in Controller \ {c} : ctl'[k] = ctl[k]
  BY <1>1, <1>4, <1>5, CtlTypes
<1> HIDE DEF to
<1>7. /\ status' \in [Task -> Status] /\ OpInv'
      /\ op' \in Command
      /\ status'[t] = to /\ \A u \in Task \ {t} : status'[u] = status[u]
  BY <1>1, <1>2, CommitTypes
<1>8. /\ sched' \in [Controller -> Sched] /\ active' \in [Controller -> SUBSET Task]
      /\ \A k \in Controller \ {c} : sched'[k] = sched[k]
      /\ \A d \in Task : sched'[c][d] = "DONE" => IF d = t THEN to = "DONE" ELSE sched[c][d] = "DONE"
  BY <1>1, <1>2, SchedulerTypes
<1>9. TypeOK'
  BY <1>1, <1>6, <1>7, <1>8 DEF TypeOK, Control, Sched
<1>10. CtlInv(c)'
  <2>1. \A d \in Task : sched'[c][d] = "DONE" => status'[d] = "DONE"
    BY <1>1, <1>2, <1>7, <1>8 DEF CtlInv
  <2>2. \A u \in Task : status'[u] = "RUNNING" => u # t /\ status[u] = "RUNNING"
    BY <1>2, <1>7
  <2>3. \A u \in ctl[c].finished : u \in Task /\ ~(status'[u] = "RUNNING" /\ runner'[u] = c)
    BY <1>1, <2>2 DEF CtlInv, Control
  <2>4. CASE ctl'[c] = done
    BY <1>1, <2>1, <2>2, <2>3, <2>4 DEF CtlInv, Control
  <2>5. CASE ctl'[c] = closing
    BY <1>1, <2>1, <2>2, <2>3, <2>5 DEF CtlInv, Control
  <2> QED
    BY <1>6, <2>4, <2>5
<1>11. Alone(c)
  BY <1>1, <1>6, <1>8 DEF Alone, Apart
<1>12. Past(c)
  <2>1. to # "RUNNING"
    BY <1>2
  <2> QED
    BY <1>1, <1>2, <2>1, Leaves
<1>13. ASSUME NEW u \in Task, runner'[u] = c PROVE TaskInv(u)'
  <2>1. TaskInv(u)
    BY DEF Inv
  <2>2. \A d \in Task : status[d] = "DONE" => status'[d] = "DONE"
    BY <1>12 DEF Past
  <2>3. status'[u] = "RUNNING" => u # t /\ status[u] = "RUNNING"
    BY <1>2, <1>7
  <2>4. Deps[u] \subseteq Task
    BY DepsAssumption
  <2> QED
    BY <1>1, <1>13, <2>1, <2>2, <2>3, <2>4 DEF TaskInv, Attended, Alive, DepsAreDone
<1> QED
  BY <1>7, <1>9, <1>10, <1>11, <1>12, <1>13, ControllerMoves

LEMMA BlockDownstreamStep ==
    ASSUME Inv, NEW c \in Controller, NEW d \in Task, BlockDownstream(c, d)
    PROVE  Inv'
<1> DEFINE new == [ctl[c] EXCEPT !.down = ctl[c].down \ {d}]
<1>1. /\ TypeOK /\ OpInv /\ CtlInv(c) /\ ctl[c] \in Control /\ up[c] = "up" /\ ctl[c].at = "closing"
      /\ UNCHANGED <<lease, epochs, adapter, job, owner, run, runner, memory, up>>
  BY CtlTypes DEF Inv, BlockDownstream, At, Alive
<1>2. new \in Control
  BY <1>1 DEF Control
<1>3. ctl' = [ctl EXCEPT ![c] = new]
  BY DEF BlockDownstream
<1>4. ctl' \in [Controller -> Control] /\ ctl'[c] = new /\ \A k \in Controller \ {c} : ctl'[k] = ctl[k]
  BY <1>1, <1>2, <1>3, CtlTypes
<1>5. CASE UNCHANGED <<status, op>>
  <2>1. TypeOK'
    BY <1>1, <1>4, <1>5 DEF TypeOK, Control, memory
  <2>2. CtlInv(c)'
    BY <1>1, <1>4, <1>5 DEF CtlInv, Control, memory
  <2>3. Alone(c)
    BY <1>1, <1>4 DEF Alone, Apart, memory
  <2>4. ASSUME NEW t \in Task, status[t] = "RUNNING", runner[t] = c PROVE Attended(t, c)'
    <3>1. Attended(t, c)
      BY <2>4 DEF Inv, TaskInv
    <3> QED
      BY <1>1, <3>1 DEF Attended, Alive, memory
  <2> QED
    BY <1>1, <1>5, <2>1, <2>2, <2>3, <2>4, LocalMoves
<1>6. CASE Legal(d, "BLOCKED") /\ Commit(d, "BLOCKED")
  <2>0. "BLOCKED" \in Status /\ "BLOCKED" # "RUNNING"
    BY DEF Status
  <2>1. /\ status' \in [Task -> Status] /\ OpInv'
        /\ op' \in Command
        /\ status'[d] = "BLOCKED" /\ \A u \in Task \ {d} : status'[u] = status[u]
    BY <1>1, <1>6, <2>0, CommitTypes
  <2>2. Past(c)
    BY <1>1, <1>6, <2>0, Leaves
  <2>3. TypeOK'
    BY <1>1, <1>4, <2>1 DEF TypeOK, Control, memory
  <2>4. CtlInv(c)'
    BY <1>1, <1>4, <2>1, <2>2 DEF CtlInv, Control, memory, Past
  <2>5. Alone(c)
    BY <1>1, <1>4 DEF Alone, Apart, memory
  <2>6. ASSUME NEW u \in Task, runner'[u] = c PROVE TaskInv(u)'
    <3>1. TaskInv(u)
      BY DEF Inv
    <3>2. \A x \in Task : status[x] = "DONE" => status'[x] = "DONE"
      BY <2>2 DEF Past
    <3>3. status'[u] = "RUNNING" => status[u] = "RUNNING"
      BY <2>1
    <3>4. Deps[u] \subseteq Task
      BY DepsAssumption
    <3> QED
      BY <1>1, <2>6, <3>1, <3>2, <3>3, <3>4 DEF TaskInv, Attended, Alive, DepsAreDone, memory
  <2> QED
    BY <2>1, <2>2, <2>3, <2>4, <2>5, <2>6, ControllerMoves
<1> QED
  BY <1>5, <1>6 DEF BlockDownstream

LEMMA EndPollStep ==
    ASSUME Inv, NEW c \in Controller, EndPoll(c)
    PROVE  Inv'
<1>1. /\ TypeOK /\ CtlInv(c) /\ ctl[c] \in Control /\ up[c] = "up" /\ ctl[c].at = "poll"
      /\ UNCHANGED <<durable, sched, active, up, op>>
  BY CtlTypes DEF Inv, EndPoll, At, Alive
<1>2. PICK S \in DispatchableSets(c) :
          ctl' = [ctl EXCEPT ![c] = [NotRunningCode EXCEPT !.at = "dispatch", !.todo = S]]
  BY DEF EndPoll
<1>3. S \subseteq Task /\ \A t \in S : DepsDone(c, t)
  BY <1>2 DEF DispatchableSets
<1> DEFINE new == [NotRunningCode EXCEPT !.at = "dispatch", !.todo = S]
<1>4. new \in Control
  BY <1>3, IdleType DEF Control, Place
<1>5. ctl' \in [Controller -> Control] /\ ctl'[c] = new /\ \A k \in Controller \ {c} : ctl'[k] = ctl[k]
  BY <1>1, <1>2, <1>4, CtlTypes
<1>6. new.at = "dispatch" /\ new.todo = S /\ new.finished = {}
  BY DEF NotRunningCode
<1> HIDE DEF new
<1>7. Remaining(c) \in SessionTable
  BY <1>1 DEF Remaining, SessionTable, TypeOK
<1>8. /\ session' \in [Controller -> SessionTable] /\ session'[c] = Remaining(c)
      /\ \A k \in Controller \ {c} : session'[k] = session[k]
  BY <1>1, <1>7 DEF EndPoll, TypeOK, SessionTable
<1>9. TypeOK'
  BY <1>1, <1>5, <1>8 DEF TypeOK, Control, SessionTable, durable
<1>10. CtlInv(c)'
  <2>1. ASSUME NEW t \in S PROVE DepsAreDone(t)'
    <3>1. Deps[t] \subseteq Task
      BY <1>3, DepsAssumption
    <3> QED
      BY <1>1, <1>3, <3>1 DEF DepsAreDone, DepsDone, CtlInv, durable
  <2> QED
    BY <1>1, <1>5, <1>6, <2>1 DEF CtlInv, durable
<1>11. Alone(c)
  BY <1>1, <1>5, <1>8 DEF Alone, Apart, durable
<1>12. ASSUME NEW t \in Task, status[t] = "RUNNING", runner[t] = c PROVE Attended(t, c)'
  <2>1. Attended(t, c)
    BY <1>12 DEF Inv, TaskInv
  <2>2. t \notin ctl[c].finished
    BY <1>1, <1>12 DEF CtlInv
  <2>3. session'[c][t] = session[c][t]
    BY <1>8, <2>2 DEF Remaining
  <2> QED
    BY <1>1, <2>1, <2>3 DEF Attended, Alive, durable
<1> QED
  BY <1>1, <1>9, <1>10, <1>11, <1>12, LocalMoves DEF durable

-----------------------------------------------------------------------------
(* From the lease to the session *)

LEMMA AcquireStep ==
    ASSUME Inv, NEW c \in Controller, NEW t \in Task, Acquire(c, t)
    PROVE  Inv'
<1>1. /\ TypeOK /\ CtlInv(c) /\ ctl[c] \in Control /\ up[c] = "up" /\ ctl[c].at = "dispatch"
      /\ t \in ctl[c].todo
      /\ UNCHANGED <<status, adapter, job, owner, run, runner, session, up, op>>
  BY CtlTypes DEF Inv, Acquire, At, Alive
<1>2. PICK epoch \in Epoch : /\ lease' = [lease EXCEPT ![t] = [epoch |-> epoch, pid |-> c]]
                             /\ epochs' = [epochs EXCEPT ![t] = epoch]
                             /\ ctl' = [ctl EXCEPT ![c] = [@ EXCEPT !.at = "claim", !.task = t, !.epoch = epoch]]
  <2> DEFINE e == IF lease[t] # None THEN lease[t].epoch + 1 ELSE epochs[t] + 1
  <2>1. e \in Nat \ {0}
    BY <1>1, LimitAssumption DEF TypeOK, Epoch
  <2>2. e <= MaxEpoch
    BY DEF Acquire
  <2>3. e \in Epoch
    BY <2>1, <2>2, LimitAssumption DEF Epoch
  <2> QED
    BY <2>3 DEF Acquire
<1> DEFINE new == [ctl[c] EXCEPT !.at = "claim", !.task = t, !.epoch = epoch]
<1>3. new \in Control
  <2>1. epoch \in 0 .. MaxEpoch
    BY LimitAssumption DEF Epoch
  <2> QED
    BY <1>1, <2>1 DEF Control, Place
<1>4. ctl' \in [Controller -> Control] /\ ctl'[c] = new /\ \A k \in Controller \ {c} : ctl'[k] = ctl[k]
  BY <1>1, <1>2, <1>3, CtlTypes
<1>5. /\ lease' \in [Task -> [epoch : Epoch, pid : Controller] \cup {None}]
      /\ epochs' \in [Task -> 0 .. MaxEpoch]
  BY <1>1, <1>2, LimitAssumption DEF TypeOK, Epoch
<1>6. /\ sched' \in [Controller -> Sched] /\ \A k \in Controller \ {c} : sched'[k] = sched[k]
      /\ \A d \in Task : sched'[c][d] = "DONE" => sched[c][d] = "DONE"
      /\ active' \in [Controller -> SUBSET Task]
  BY <1>1 DEF Acquire, TypeOK, Sched, Status
<1>7. TypeOK'
  BY <1>1, <1>4, <1>5, <1>6 DEF TypeOK, Control, Sched
<1>8. CtlInv(c)'
  BY <1>1, <1>4, <1>6 DEF CtlInv, Control, DepsAreDone
<1>9. Alone(c)
  BY <1>1, <1>4, <1>6 DEF Alone, Apart
<1>10. ASSUME NEW u \in Task, status[u] = "RUNNING", runner[u] = c PROVE Attended(u, c)'
  <2>1. Attended(u, c)
    BY <1>10 DEF Inv, TaskInv
  <2> QED
    BY <1>1, <2>1 DEF Attended, Alive
<1> QED
  BY <1>1, <1>7, <1>8, <1>9, <1>10, LocalMoves

LEMMA ClaimStep ==
    ASSUME Inv, NEW c \in Controller, NEW t \in Task, t = ctl[c].task, Claim(c)
    PROVE  Inv'
<1> DEFINE new == [ctl[c] EXCEPT !.at = "start"]
<1>1. /\ TypeOK /\ OpInv /\ CtlInv(c) /\ ctl[c] \in Control /\ up[c] = "up" /\ ctl[c].at = "claim"
      /\ Legal(t, "RUNNING") /\ Commit(t, "RUNNING") /\ ctl[c].epoch \in Epoch
      /\ UNCHANGED <<lease, epochs, adapter, job, owner, memory, up>>
  BY CtlTypes DEF Inv, Claim, MayClaim, At, Alive, CtlInv
<1>2. new \in Control
  BY <1>1 DEF Control, Place
<1>3. ctl' = [ctl EXCEPT ![c] = new]
  BY DEF Claim
<1>4. ctl' \in [Controller -> Control] /\ ctl'[c] = new /\ \A k \in Controller \ {c} : ctl'[k] = ctl[k]
  BY <1>1, <1>2, <1>3, CtlTypes
<1>5. "RUNNING" \in Status
  BY DEF Status
<1>6. /\ status' \in [Task -> Status] /\ OpInv'
      /\ op' \in Command
      /\ status'[t] = "RUNNING" /\ \A u \in Task \ {t} : status'[u] = status[u]
  BY <1>1, <1>5, CommitTypes
<1>7. /\ run' \in [Task -> 0 .. MaxEpoch] /\ run'[t] = ctl[c].epoch
      /\ runner' \in [Task -> Controller \cup {None}] /\ runner'[t] = c
      /\ \A u \in Task \ {t} : run'[u] = run[u] /\ runner'[u] = runner[u]
  BY <1>1 DEF Claim, TypeOK, Control
<1>8. status[t] # "DONE"
  BY <1>1, EdgesFromDone DEF Legal
<1>9. TypeOK'
  BY <1>1, <1>4, <1>6, <1>7 DEF TypeOK, Control, memory
<1>10. Past(c)
  BY <1>6, <1>7, <1>8 DEF Past
<1>11. ASSUME NEW u \in Task, DepsAreDone(u) PROVE DepsAreDone(u)'
  <2>1. Deps[u] \subseteq Task
    BY DepsAssumption
  <2> QED
    BY <1>10, <1>11, <2>1 DEF DepsAreDone, Past
<1>12. CtlInv(c)'
  <2>1. ctl[c].finished = {} /\ ctl[c].todo \subseteq Task
    BY <1>1 DEF CtlInv, Control
  <2>2. \A u \in ctl[c].todo : DepsAreDone(u)'
    BY <1>1, <1>11, <2>1 DEF CtlInv
  <2>3. /\ ctl'[c].at = "start" /\ ctl'[c].task = t /\ ctl'[c].epoch = ctl[c].epoch
        /\ ctl'[c].finished = {} /\ ctl'[c].todo = ctl[c].todo
    BY <1>1, <1>4, <2>1 DEF Control
  <2>4. \A d \in Task : sched'[c][d] = "DONE" => status'[d] = "DONE"
    BY <1>1, <1>10 DEF CtlInv, Past, memory
  <2>5. up'[c] # "new"
    BY <1>1
  <2> QED
    BY <1>1, <1>7, <2>2, <2>3, <2>4, <2>5 DEF CtlInv
<1>13. Alone(c)
  BY <1>1, <1>4 DEF Alone, Apart, memory
<1>14. ASSUME NEW u \in Task, runner'[u] = c PROVE TaskInv(u)'
  <2>1. CASE u = t
    <3>1. DepsAreDone(t)'
      BY <1>1, <1>11 DEF CtlInv
    <3> QED
      BY <1>1, <1>4, <1>7, <2>1, <3>1 DEF TaskInv, Attended, Control
  <2>2. CASE u # t
    <3>1. TaskInv(u) /\ runner[u] = c /\ run'[u] = run[u] /\ status'[u] = status[u]
      BY <1>6, <1>7, <1>14, <2>2 DEF Inv
    <3>2. DepsAreDone(u) => DepsAreDone(u)'
      BY <1>11
    <3> QED
      BY <1>1, <1>14, <3>1, <3>2 DEF TaskInv, Attended, Alive, memory
  <2> QED
    BY <2>1, <2>2
<1> QED
  BY <1>6, <1>9, <1>10, <1>12, <1>13, <1>14, ControllerMoves

LEMMA StartTaskStep ==
    ASSUME Inv, NEW c \in Controller, NEW t \in Task, t = ctl[c].task, StartTask(c)
    PROVE  Inv'
<1> DEFINE new == [NotRunningCode EXCEPT !.at = "dispatch", !.todo = ctl[c].todo \ {t}]
           opened == [run |-> ctl[c].epoch, epoch |-> ctl[c].epoch]
<1>1. /\ TypeOK /\ CtlInv(c) /\ ctl[c] \in Control /\ up[c] = "up" /\ ctl[c].at = "start"
      /\ ctl[c].epoch \in Epoch
      /\ UNCHANGED <<status, lease, epochs, adapter, run, runner, sched, active, up, op>>
  BY CtlTypes DEF Inv, StartTask, At, Alive, CtlInv
<1>2. new \in Control
  BY <1>1, IdleType DEF Control, Place
<1>3. ctl' = [ctl EXCEPT ![c] = new]
  BY DEF StartTask
<1>4. ctl' \in [Controller -> Control] /\ ctl'[c] = new /\ \A k \in Controller \ {c} : ctl'[k] = ctl[k]
  BY <1>1, <1>2, <1>3, CtlTypes
<1>5. opened \in [run : Epoch, epoch : Epoch] /\ opened # None
  BY <1>1, NoneAssumption
<1>6. /\ session' \in [Controller -> SessionTable] /\ session'[c][t] = opened
      /\ \A u \in Task \ {t} : session'[c][u] = session[c][u]
      /\ \A k \in Controller \ {c} : session'[k] = session[k]
  BY <1>1, <1>5 DEF StartTask, TypeOK, SessionTable
<1>7. job' \in [Task -> [Epoch -> JobStatus]] /\ owner' \in [Task -> Controller \cup {None}]
  BY <1>1 DEF StartTask, TypeOK, JobStatus
<1>8. TypeOK'
  BY <1>1, <1>4, <1>6, <1>7 DEF TypeOK, Control, SessionTable
<1>9. CtlInv(c)'
  BY <1>1, <1>4, IdleType DEF CtlInv, Control, DepsAreDone
<1>10. Alone(c)
  BY <1>1, <1>4, <1>6 DEF Alone, Apart
<1>11. ASSUME NEW u \in Task, status[u] = "RUNNING", runner[u] = c PROVE Attended(u, c)'
  <2>1. Attended(u, c)
    BY <1>11 DEF Inv, TaskInv
  <2>2. CASE u = t
    <3>1. run[t] = ctl[c].epoch
      BY <1>1, <1>11, <2>2 DEF CtlInv
    <3> QED
      BY <1>1, <1>5, <1>6, <2>2, <3>1 DEF Attended
  <2>3. CASE u # t
    BY <1>1, <1>6, <2>1, <2>3 DEF Attended, Alive
  <2> QED
    BY <2>2, <2>3
<1> QED
  BY <1>1, <1>8, <1>9, <1>10, <1>11, LocalMoves

LEMMA StartTaskRaisesStep ==
    ASSUME Inv, NEW c \in Controller, NEW t \in Task, t = ctl[c].task, StartTaskRaises(c)
    PROVE  Inv'
<1> DEFINE new == [ctl[c] EXCEPT !.at = "report"]
<1>1. /\ TypeOK /\ CtlInv(c) /\ ctl[c] \in Control /\ up[c] = "up" /\ ctl[c].at = "start"
      /\ ctl[c].epoch \in Epoch
      /\ UNCHANGED <<status, lease, epochs, adapter, run, runner, memory, up, op>>
  BY CtlTypes DEF Inv, StartTaskRaises, At, Alive, CtlInv
<1>2. new \in Control
  BY <1>1 DEF Control, Place
<1>3. ctl' = [ctl EXCEPT ![c] = new]
  BY DEF StartTaskRaises
<1>4. ctl' \in [Controller -> Control] /\ ctl'[c] = new /\ \A k \in Controller \ {c} : ctl'[k] = ctl[k]
  BY <1>1, <1>2, <1>3, CtlTypes
<1>5. job' \in [Task -> [Epoch -> JobStatus]] /\ owner' \in [Task -> Controller \cup {None}]
  <2>1. CASE UNCHANGED <<job, owner>>
    BY <1>1, <2>1 DEF TypeOK
  <2>2. ASSUME NEW left \in {"active", "blocked"}, job' = [job EXCEPT ![t][ctl[c].epoch] = left],
               owner' = [owner EXCEPT ![t] = c]
        PROVE  job' \in [Task -> [Epoch -> JobStatus]] /\ owner' \in [Task -> Controller \cup {None}]
    BY <1>1, <2>2 DEF TypeOK, JobStatus
  <2> QED
    BY <2>1, <2>2 DEF StartTaskRaises
<1>6. TypeOK'
  BY <1>1, <1>4, <1>5 DEF TypeOK, Control, memory
<1>7. CtlInv(c)'
  BY <1>1, <1>4 DEF CtlInv, Control, DepsAreDone, memory
<1>8. Alone(c)
  BY <1>1, <1>4 DEF Alone, Apart, memory
<1>9. ASSUME NEW u \in Task, status[u] = "RUNNING", runner[u] = c PROVE Attended(u, c)'
  <2>1. Attended(u, c)
    BY <1>9 DEF Inv, TaskInv
  <2> QED
    BY <1>1, <1>4, <2>1 DEF Attended, Alive, memory, Control
<1> QED
  BY <1>1, <1>6, <1>7, <1>8, <1>9, LocalMoves

LEMMA ReportUncertainStep ==
    ASSUME Inv, NEW c \in Controller, NEW t \in Task, t = ctl[c].task, ReportUncertain(c)
    PROVE  Inv'
<1>1. /\ TypeOK /\ OpInv /\ CtlInv(c) /\ up[c] = "up" /\ ctl[c].at = "report" /\ RaiseTo(c)
      /\ UNCHANGED <<lease, epochs, adapter, job, owner, run, runner, session, up>>
  BY DEF Inv, ReportUncertain, At, Alive
<1>2. /\ ctl' \in [Controller -> Control] /\ ctl'[c] = NotRunningCode
      /\ \A k \in Controller \ {c} : ctl'[k] = ctl[k]
  BY <1>1, RaiseTypes
<1>3. "BLOCKED" \in Status
  BY DEF Status
\* t itself is not RUNNING any more, and what else c runs it has a session of.
<1>4. ASSUME status'[t] # "RUNNING", \A u \in Task \ {t} : status'[u] = status[u],
             NEW u \in Task, status'[u] = "RUNNING", runner[u] = c
      PROVE  Attended(u, c)'
  <2>1. u # t /\ status[u] = "RUNNING"
    BY <1>4
  <2>2. Attended(u, c)
    BY <1>4, <2>1 DEF Inv, TaskInv
  <2> QED
    BY <1>1, <2>1, <2>2 DEF Attended, Alive
<1>5. CASE Legal(t, "BLOCKED")
  <2>1. Commit(t, "BLOCKED") /\ UpdateScheduler(c, t, "BLOCKED")
    BY <1>5 DEF ReportUncertain, Uncertain
  <2>2. /\ status' \in [Task -> Status] /\ OpInv'
        /\ op' \in Command
        /\ status'[t] = "BLOCKED" /\ \A u \in Task \ {t} : status'[u] = status[u]
    BY <1>1, <1>3, <2>1, CommitTypes
  <2>3. /\ sched' \in [Controller -> Sched] /\ active' \in [Controller -> SUBSET Task]
        /\ \A k \in Controller \ {c} : sched'[k] = sched[k]
        /\ \A d \in Task : sched'[c][d] = "DONE" => IF d = t THEN "BLOCKED" = "DONE" ELSE sched[c][d] = "DONE"
    BY <1>1, <1>3, <2>1, SchedulerTypes
  <2>4. Past(c)
    <3>1. "BLOCKED" # "RUNNING"
      OBVIOUS
    <3> QED
      BY <1>1, <1>3, <1>5, <2>1, <3>1, Leaves
  <2>5. TypeOK'
    BY <1>1, <1>2, <2>2, <2>3 DEF TypeOK, Control, Sched
  <2>6. CtlInv(c)'
    <3>1. \A d \in Task : sched'[c][d] = "DONE" => status'[d] = "DONE"
      BY <1>1, <2>2, <2>3 DEF CtlInv
    <3> QED
      BY <1>1, <1>2, <3>1, IdleType DEF CtlInv
  <2>7. Alone(c)
    BY <1>1, <1>2, <2>3 DEF Alone, Apart
  <2>8. ASSUME NEW u \in Task, runner'[u] = c PROVE TaskInv(u)'
    <3>1. TaskInv(u)
      BY DEF Inv
    <3>2. \A x \in Task : status[x] = "DONE" => status'[x] = "DONE"
      BY <2>4 DEF Past
    <3>3. status'[u] = "RUNNING" => status[u] = "RUNNING" /\ Attended(u, c)'
      BY <1>1, <1>4, <2>2, <2>8
    <3>4. Deps[u] \subseteq Task
      BY DepsAssumption
    <3> QED
      BY <1>1, <2>8, <3>1, <3>2, <3>3, <3>4 DEF TaskInv, DepsAreDone
  <2> QED
    BY <2>2, <2>4, <2>5, <2>6, <2>7, <2>8, ControllerMoves
<1>6. CASE ~Legal(t, "BLOCKED")
  <2>1. UNCHANGED <<status, op, sched, active>>
    BY <1>6 DEF ReportUncertain, Uncertain
  <2>2. status[t] # "RUNNING"
    BY <1>6 DEF Legal, ALLOWED_TRANSITIONS
  <2>3. TypeOK'
    BY <1>1, <1>2, <2>1 DEF TypeOK, Control
  <2>4. CtlInv(c)'
    BY <1>1, <1>2, <2>1, IdleType DEF CtlInv
  <2>5. Alone(c)
    BY <1>1, <1>2, <2>1 DEF Alone, Apart
  <2>6. up'[c] # "new"
    BY <1>1
  <2> QED
    BY <1>1, <1>4, <2>1, <2>2, <2>3, <2>4, <2>5, <2>6, LocalMoves
<1> QED
  BY <1>5, <1>6

-----------------------------------------------------------------------------
(* Everyone else *)

LEMMA OthersMove ==
    ASSUME Inv, TypeOK', OpInv', UNCHANGED <<adapter, run, runner, memory, up, ctl>>,
           \A t \in Task : /\ status[t] = "DONE" => status'[t] = "DONE"
                           /\ status'[t] = "RUNNING" => status[t] = "RUNNING"
    PROVE  Inv'
<1>1. ASSUME NEW t \in Task, DepsAreDone(t) PROVE DepsAreDone(t)'
  <2>1. Deps[t] \subseteq Task
    BY DepsAssumption
  <2> QED
    BY <1>1, <2>1 DEF DepsAreDone
<1>2. ASSUME NEW t \in Task PROVE TaskInv(t)'
  <2>1. TaskInv(t) /\ (DepsAreDone(t) => DepsAreDone(t)')
    BY <1>1 DEF Inv
  <2> QED
    BY <2>1 DEF TaskInv, Attended, Alive, memory
<1>3. ASSUME NEW c \in Controller PROVE CtlInv(c)'
  <2>1. CtlInv(c) /\ ctl[c].todo \subseteq Task /\ ctl[c].finished \subseteq Task
    BY CtlTypes DEF Inv, Control
  <2>2. ctl' = ctl /\ sched' = sched /\ up' = up /\ run' = run /\ runner' = runner
    BY DEF memory
  <2> QED
    BY <1>1, <2>1, <2>2 DEF CtlInv
<1> QED
  BY <1>2, <1>3 DEF Inv

LEMMA JobEndsStep ==
    ASSUME Inv, NEW t \in Task, NEW e \in Epoch, JobEnds(t, e)
    PROVE  Inv'
<1>1. job' \in [Task -> [Epoch -> JobStatus]]
  BY DEF Inv, TypeOK, JobEnds, JobStatus
<1>2. TypeOK' /\ OpInv'
  BY <1>1 DEF Inv, TypeOK, OpInv, JobEnds, memory
<1> QED
  BY <1>2, OthersMove DEF JobEnds

LEMMA HumanDecidesStep ==
    ASSUME Inv, NEW t \in Task, NEW to \in Status, HumanDecides(t, to)
    PROVE  Inv'
<1>1. Legal(t, to) /\ to # "RUNNING" /\ status[t] # "DONE"
  <2>1. <<status[t], to>> \in ALLOWED_TRANSITIONS /\ to # "RUNNING"
    BY HumanAssumption DEF HumanDecides
  <2>2. status[t] # "DONE"
    BY <2>1, EdgesFromDone
  <2> QED
    BY <2>1, <2>2 DEF Legal
<1>2. /\ status' \in [Task -> Status] /\ OpInv'
      /\ op' \in Command
      /\ status'[t] = to /\ \A u \in Task \ {t} : status'[u] = status[u]
  BY CommitTypes DEF Inv, HumanDecides
<1>3. TypeOK'
  BY <1>2 DEF Inv, TypeOK, HumanDecides, memory
<1> QED
  BY <1>1, <1>2, <1>3, OthersMove DEF HumanDecides

LEMMA NoCancelType == NoCancel \in Command /\ NoCancel.at = "none"
<1>1. 0 \in 0 .. MaxEpoch
  BY LimitAssumption
<1> QED
  BY <1>1 DEF NoCancel

LEMMA CancelReadStep ==
    ASSUME Inv, NEW t \in Task, CancelRead(t)
    PROVE  Inv'
<1> DEFINE new == [NoCancel EXCEPT !.at = "lookup", !.task = t, !.was = status[t]]
<1>1. op' = new /\ UNCHANGED <<durable, memory, up, ctl>>
  BY DEF CancelRead
<1>2. new \in Command /\ new.task = t /\ new.at = "lookup"
  <2>1. status[t] \in Status
    BY DEF Inv, TypeOK
  <2> QED
    BY <2>1, NoCancelType
<1>3. TypeOK' /\ OpInv'
  BY <1>1, <1>2 DEF Inv, TypeOK, OpInv, durable, memory
<1> QED
  BY <1>1, <1>3, OthersMove DEF durable

LEMMA CancelLookupStep ==
    ASSUME Inv, CancelLookup
    PROVE  Inv'
<1>0. UNCHANGED <<durable, memory, up, ctl>>
  BY DEF CancelLookup
<1>1. TypeOK /\ op.at = "lookup" /\ op.task \in Task
  BY DEF Inv, OpInv, CancelLookup
<1>2. op' \in Command /\ OpInv'
  <2>1. CASE lease[op.task] = None
    <3>1. op' = NoCancel \/ op' = [op EXCEPT !.at = "commit"]
      BY <2>1 DEF CancelLookup
    <3> QED
      BY <1>1, <3>1, NoCancelType DEF TypeOK, OpInv
  <2>2. CASE lease[op.task] # None
    <3>1. PICK place \in {"kill", "release"} :
             op' = [op EXCEPT !.at = place, !.epoch = lease[op.task].epoch, !.pid = lease[op.task].pid]
      BY <2>2 DEF CancelLookup
    <3>2. lease[op.task].epoch \in 0 .. MaxEpoch /\ lease[op.task].pid \in Controller
      BY <1>1, <2>2, LimitAssumption DEF TypeOK, Epoch
    <3> QED
      BY <1>1, <3>1, <3>2 DEF TypeOK, OpInv
  <2> QED
    BY <2>1, <2>2
<1>3. TypeOK'
  BY <1>0, <1>1, <1>2 DEF TypeOK, durable, memory
<1> QED
  BY <1>0, <1>2, <1>3, OthersMove DEF durable

LEMMA CancelKillStep ==
    ASSUME Inv, CancelKill
    PROVE  Inv'
<1>1. /\ TypeOK /\ op.at = "kill" /\ op.task \in Task /\ op.pid \in Controller
      /\ op' = [op EXCEPT !.at = "release"] /\ UNCHANGED durable
  BY DEF Inv, OpInv, CancelKill
<1>2. op' \in Command /\ OpInv'
  BY <1>1 DEF TypeOK, OpInv
<1>3. CASE Die(op.pid)
  BY <1>1, <1>2, <1>3, DieMoves
<1>4. CASE UNCHANGED <<up, ctl, memory>>
  <2>1. TypeOK'
    BY <1>1, <1>2, <1>4 DEF TypeOK, durable, memory
  <2> QED
    BY <1>1, <1>2, <1>4, <2>1, OthersMove DEF durable
<1> QED
  BY <1>3, <1>4 DEF CancelKill

LEMMA CancelReleaseStep ==
    ASSUME Inv, CancelRelease
    PROVE  Inv'
<1>1. /\ TypeOK /\ op.at = "release" /\ op.task \in Task /\ op' = [op EXCEPT !.at = "commit"]
      /\ UNCHANGED <<status, epochs, adapter, job, owner, run, runner, memory, up, ctl>>
  BY DEF Inv, OpInv, CancelRelease
<1>2. op' \in Command /\ OpInv'
  BY <1>1 DEF TypeOK, OpInv
<1>3. lease' \in [Task -> [epoch : Epoch, pid : Controller] \cup {None}]
  BY <1>1 DEF CancelRelease, Released, TypeOK
<1>4. TypeOK'
  BY <1>1, <1>2, <1>3 DEF TypeOK, memory
<1> QED
  BY <1>1, <1>2, <1>4, OthersMove

LEMMA CancelEndsStep ==
    ASSUME Inv, CancelCommit \/ CancelFails
    PROVE  Inv'
<1>1. TypeOK /\ op' = NoCancel
  BY DEF Inv, CancelCommit, CancelFails
<1>2. op' \in Command /\ OpInv'
  BY <1>1, NoCancelType DEF OpInv
<1>3. CASE CancelFails
  <2>1. TypeOK'
    BY <1>1, <1>2, <1>3 DEF CancelFails, TypeOK, durable, memory
  <2> QED
    BY <1>2, <1>3, <2>1, OthersMove DEF CancelFails, durable
<1>4. CASE CancelCommit
  <2>1. op.task \in Task /\ status[op.task] # "DONE"
    BY <1>4, EdgesFromDone DEF CancelCommit, Legal, Inv, OpInv
  <2>2. /\ status' \in [Task -> Status] /\ status'[op.task] = "CANCELLED"
        /\ \A u \in Task \ {op.task} : status'[u] = status[u]
    BY <1>1, <1>4, <2>1 DEF CancelCommit, TypeOK, Status
  <2>3. TypeOK'
    BY <1>1, <1>2, <1>4, <2>2 DEF CancelCommit, TypeOK, memory
  <2> QED
    BY <1>2, <1>4, <2>1, <2>2, <2>3, OthersMove DEF CancelCommit
<1> QED
  BY <1>3, <1>4

-----------------------------------------------------------------------------
(* The invariant holds *)

LEMMA InvInit == Init => Inv
<1> SUFFICES ASSUME Init PROVE Inv
  OBVIOUS
<1>1. NotRunningCode \in Control /\ "PROPOSED" \in Status
  BY IdleType DEF Status
<1>2. NoCancel \in Command /\ NoCancel.at = "none"
  BY NoCancelType
<1>3. TypeOK
  BY <1>1, <1>2, LimitAssumption DEF Init, TypeOK, Control, JobStatus
<1>4. OpInv
  BY <1>2 DEF Init, OpInv
<1>5. \A t \in Task : TaskInv(t)
  BY DEF Init, TaskInv
<1>6. ASSUME NEW c \in Controller PROVE CtlInv(c)
  <2>1. ctl[c] = NotRunningCode /\ \A d \in Task : sched[c][d] = "PROPOSED"
    BY DEF Init
  <2> QED
    BY <2>1, IdleType DEF CtlInv
<1> QED
  BY <1>3, <1>4, <1>5, <1>6 DEF Inv

LEMMA WorkingTask ==
    ASSUME Inv, NEW c \in Controller, ctl[c].at \in {"closing", "claim", "start", "report"}
    PROVE  ctl[c].task \in Task
  BY DEF Inv, CtlInv

LEMMA ControllerInv == ASSUME Inv, NEW c \in Controller, ControllerStep(c) PROVE Inv'
<1>1. ASSUME NEW t \in Task,
             \/ Load(c, t) \/ Recover(c, t) \/ InitializeRaises(c, t)
             \/ PollActive(c, t) \/ Collect(c, t) \/ CollectRaises(c, t)
             \/ BlockDownstream(c, t) \/ BlockDownstreamRaises(c, t)
             \/ ContextRefused(c, t) \/ Acquire(c, t) \/ AcquireRefused(c, t)
      PROVE  Inv'
  BY <1>1, LoadStep, RecoverStep, CrashStep, PollActiveStep, CollectStep, CollectRaisesStep,
     BlockDownstreamStep, BlockDownstreamRaisesStep, ContextRefusedStep, AcquireStep, AcquireRefusedStep
<1>2. CASE Claim(c) \/ StartTask(c) \/ StartTaskRaises(c) \/ ReportUncertain(c)
  <2>1. ctl[c].task \in Task
    BY <1>2, WorkingTask DEF Claim, StartTask, StartTaskRaises, ReportUncertain, At
  <2> QED
    BY <1>2, <2>1, ClaimStep, StartTaskStep, StartTaskRaisesStep, ReportUncertainStep
<1>3. CASE EndInitialize(c) \/ BeginStep(c) \/ ReleaseFinished(c) \/ EndPoll(c) \/ ClaimRaises(c) \/ EndDispatch(c)
  BY <1>3, EndInitializeStep, BeginStepStep, ReleaseFinishedStep, EndPollStep, ClaimRaisesStep, EndDispatchStep
<1> QED
  BY <1>1, <1>2, <1>3 DEF ControllerStep

LEMMA InvNext == Inv /\ [Next]_vars => Inv'
<1> SUFFICES ASSUME Inv, [Next]_vars PROVE Inv'
  OBVIOUS
<1>1. CASE UNCHANGED vars
  <2>1. TypeOK' /\ OpInv' /\ UNCHANGED <<status, adapter, run, runner, memory, up, ctl>>
    BY <1>1 DEF Inv, TypeOK, OpInv, vars, durable, memory
  <2> QED
    BY <2>1, OthersMove
<1>2. ASSUME NEW c \in Controller, Start(c) \/ Reinitialize(c) \/ ControllerStep(c) \/ Crash(c) PROVE Inv'
  BY <1>2, StartStep, ReinitializeStep, ControllerInv, CrashStep
<1>3. ASSUME NEW t \in Task,
             \/ \E e \in Epoch : JobEnds(t, e)
             \/ \E to \in Status : HumanDecides(t, to)
             \/ CancelRead(t)
      PROVE  Inv'
  BY <1>3, JobEndsStep, HumanDecidesStep, CancelReadStep
<1>4. CASE CancelLookup \/ CancelKill \/ CancelRelease \/ CancelCommit \/ CancelFails
  BY <1>4, CancelLookupStep, CancelKillStep, CancelReleaseStep, CancelEndsStep
<1> QED
  BY <1>1, <1>2, <1>3, <1>4 DEF Next

LEMMA InvAlways == Spec => []Inv
  BY InvInit, InvNext, PTL DEF Spec

\* TypeOK: the types of the loop's state, wherever a call raises, a process dies or a cancel comes in.
THEOREM TypeCorrect == Spec => []TypeOK
<1>1. Inv => TypeOK
  BY DEF Inv
<1> QED
  BY <1>1, InvAlways, PTL

\* DependenciesAreDone: what a RUNNING task depends on is DONE in the ledger, however old the
\* statuses are the scheduler decided on.
THEOREM DependenciesComeFirst == Spec => []DependenciesAreDone
<1>1. Inv => DependenciesAreDone
  BY DEF Inv, TaskInv, DepsAreDone, DependenciesAreDone
<1> QED
  BY <1>1, InvAlways, PTL

-----------------------------------------------------------------------------
(* Epochs under an adapter that recovers nothing *)

\* No epoch becomes known to anybody, and no lease is granted.
NothingLearned ==
    /\ UNCHANGED <<adapter, epochs>>
    /\ \A t \in Task : lease'[t] \in {lease[t], None}
    /\ \A c \in Controller, t \in Task, e \in Epoch : Holds(c, t, e)' => Holds(c, t, e)

LEMMA NothingLearnedKeeps ==
    ASSUME ContractInv, NothingLearned
    PROVE  ContractInv'
<1>1. CASE adapter # "contract"
  BY <1>1 DEF NothingLearned, ContractInv
<1>2. CASE adapter = "contract"
  <2>1. \A t \in Task : lease'[t] # None => lease'[t].epoch = epochs'[t]
    BY <1>2 DEF NothingLearned, ContractInv
  <2>2. \A c \in Controller, t \in Task, e \in Epoch : Holds(c, t, e)' => e <= epochs'[t]
    BY <1>2 DEF NothingLearned, ContractInv
  <2>3. \A c, k \in Controller, t \in Task, e \in Epoch : Holds(c, t, e)' /\ Holds(k, t, e)' => c = k
    BY <1>2 DEF NothingLearned, ContractInv
  <2> QED
    BY <2>1, <2>2, <2>3 DEF ContractInv
<1> QED
  BY <1>1, <1>2

\* One controller moves to a place without an epoch and opens no session.
LEMMA Forgets ==
    ASSUME NEW c \in Controller, UNCHANGED <<adapter, epochs>>,
           \A t \in Task : lease'[t] \in {lease[t], None},
           \A k \in Controller \ {c} : ctl'[k] = ctl[k] /\ session'[k] = session[k],
           ctl'[c].at \notin {"claim", "start"},
           \A t \in Task : session'[c][t] \in {session[c][t], None}
    PROVE  NothingLearned
<1>1. ASSUME NEW k \in Controller, NEW t \in Task, NEW e \in Epoch, Holds(k, t, e)' PROVE Holds(k, t, e)
  BY <1>1 DEF Holds
<1> QED
  BY <1>1 DEF NothingLearned

LEMMA DieForgets ==
    ASSUME TypeOK, NEW c \in Controller, Die(c), UNCHANGED durable
    PROVE  NothingLearned
<1>1. \A t \in Task : session'[c][t] = None
  BY DEF Die, TypeOK
<1> QED
  BY <1>1, DieTypes, IdleType, Forgets DEF durable

LEMMA RaiseForgets ==
    ASSUME TypeOK, NEW c \in Controller, RaiseTo(c), UNCHANGED <<adapter, epochs, lease, session>>
    PROVE  NothingLearned
  BY RaiseTypes, IdleType, Forgets

\* The steps of a controller that neither begin nor end a dispatch.
LEMMA OtherPlaces ==
    ASSUME Inv, NEW c \in Controller, NEW t \in Task,
           \/ Start(c) \/ Reinitialize(c) \/ Load(c, t) \/ EndInitialize(c) \/ BeginStep(c)
           \/ PollActive(c, t) \/ Collect(c, t) \/ BlockDownstream(c, t) \/ AcquireRefused(c, t)
    PROVE  NothingLearned
<1>1. TypeOK /\ CtlInv(c) /\ ctl[c] \in Control /\ DOMAIN ctl = Controller
  BY CtlTypes DEF Inv, TypeOK
<1>2. UNCHANGED <<adapter, epochs, lease, session>>
  BY DEF Start, Reinitialize, Load, EndInitialize, BeginStep, PollActive, Collect, BlockDownstream,
         AcquireRefused, durable, memory
<1>3. ASSUME NEW r, ctl' = [ctl EXCEPT ![c] = r], r.at \notin {"claim", "start"} PROVE NothingLearned
  <2>1. ctl'[c] = r /\ \A k \in Controller \ {c} : ctl'[k] = ctl[k]
    BY <1>1, <1>3
  <2> QED
    BY <1>2, <1>3, <2>1, Forgets
<1>4. CASE Start(c) \/ Reinitialize(c)
  <2>1. ctl' = [ctl EXCEPT ![c] = [ctl[c] EXCEPT !.at = "initialize", !.todo = Task]]
    BY <1>4 DEF Start, Reinitialize
  <2>2. [ctl[c] EXCEPT !.at = "initialize", !.todo = Task].at = "initialize"
    BY <1>1 DEF Control
  <2> QED
    BY <1>3, <2>1, <2>2
<1>5. CASE EndInitialize(c)
  <2>1. ctl' = [ctl EXCEPT ![c] = [ctl[c] EXCEPT !.at = "idle"]]
    BY <1>5 DEF EndInitialize
  <2>2. [ctl[c] EXCEPT !.at = "idle"].at = "idle"
    BY <1>1 DEF Control
  <2> QED
    BY <1>3, <2>1, <2>2
<1>6. CASE BeginStep(c)
  <2>1. ctl' = [ctl EXCEPT ![c] = [ctl[c] EXCEPT !.at = "poll", !.todo = Sessions(c)]]
    BY <1>6 DEF BeginStep
  <2>2. [ctl[c] EXCEPT !.at = "poll", !.todo = Sessions(c)].at = "poll"
    BY <1>1 DEF Control
  <2> QED
    BY <1>3, <2>1, <2>2
<1>7. CASE Load(c, t) \/ PollActive(c, t) \/ AcquireRefused(c, t)
  <2>1. ctl' = [ctl EXCEPT ![c] = [ctl[c] EXCEPT !.todo = ctl[c].todo \ {t}]]
    BY <1>7 DEF Load, PollActive, AcquireRefused
  <2>2. ctl[c].at \in {"initialize", "poll", "dispatch"}
    BY <1>7 DEF Load, PollActive, AcquireRefused, At
  <2>3. [ctl[c] EXCEPT !.todo = ctl[c].todo \ {t}].at = ctl[c].at
    BY <1>1 DEF Control
  <2> QED
    BY <1>3, <2>1, <2>2, <2>3
<1>8. CASE BlockDownstream(c, t)
  <2>1. ctl' = [ctl EXCEPT ![c] = [ctl[c] EXCEPT !.down = ctl[c].down \ {t}]] /\ ctl[c].at = "closing"
    BY <1>8 DEF BlockDownstream, At
  <2>2. [ctl[c] EXCEPT !.down = ctl[c].down \ {t}].at = ctl[c].at
    BY <1>1 DEF Control
  <2> QED
    BY <1>3, <2>1, <2>2
<1>9. CASE Collect(c, t)
  <2> DEFINE to == Outcome(Polled(c, t))
             done == [ctl[c] EXCEPT !.todo = ctl[c].todo \ {t}, !.finished = ctl[c].finished \cup {t}]
             closing == [ctl[c] EXCEPT !.at = "closing", !.task = t,
                                       !.down = IF to = "FAILED" THEN Dependents[t] ELSE {}]
  <2>1. ctl[c].at = "poll" /\ (ctl' = [ctl EXCEPT ![c] = done] \/ ctl' = [ctl EXCEPT ![c] = closing])
    <3>1. CASE to = "BLOCKED"
      BY <1>9, <3>1 DEF Collect, At
    <3>2. CASE to # "BLOCKED"
      BY <1>9, <3>2 DEF Collect, At
    <3> QED
      BY <3>1, <3>2
  <2>2. done.at = ctl[c].at /\ closing.at = "closing"
    BY <1>1 DEF Control
  <2> QED
    BY <1>3, <2>1, <2>2
<1> QED
  BY <1>4, <1>5, <1>6, <1>7, <1>8, <1>9

LEMMA EndPollForgets ==
    ASSUME Inv, NEW c \in Controller, EndPoll(c) \/ ReleaseFinished(c)
    PROVE  NothingLearned
<1>1. TypeOK /\ DOMAIN ctl = Controller /\ DOMAIN session = Controller /\ DOMAIN lease = Task
  BY DEF Inv, TypeOK
<1>2. UNCHANGED <<adapter, epochs>>
  BY DEF EndPoll, ReleaseFinished, durable
<1>3. CASE EndPoll(c)
  <2>1. PICK S : ctl' = [ctl EXCEPT ![c] = [NotRunningCode EXCEPT !.at = "dispatch", !.todo = S]]
    BY <1>3 DEF EndPoll
  <2>2. [NotRunningCode EXCEPT !.at = "dispatch", !.todo = S].at = "dispatch"
    BY DEF NotRunningCode
  <2>3. ctl'[c].at = "dispatch" /\ \A k \in Controller \ {c} : ctl'[k] = ctl[k]
    BY <1>1, <2>1, <2>2
  <2>4. /\ session'[c] = Remaining(c) /\ \A k \in Controller \ {c} : session'[k] = session[k]
        /\ lease' = lease
    BY <1>1, <1>3 DEF EndPoll, durable
  <2>5. \A t \in Task : session'[c][t] \in {session[c][t], None}
    BY <2>4 DEF Remaining
  <2> QED
    BY <1>2, <2>3, <2>4, <2>5, Forgets
<1>4. CASE ReleaseFinished(c)
  <2>1. PICK S, F : ctl' = [ctl EXCEPT ![c] = [NotRunningCode EXCEPT !.at = "poll", !.todo = S, !.finished = F]]
    BY <1>4 DEF ReleaseFinished
  <2>2. [NotRunningCode EXCEPT !.at = "poll", !.todo = S, !.finished = F].at = "poll"
    BY DEF NotRunningCode
  <2>3. ctl'[c].at = "poll" /\ \A k \in Controller \ {c} : ctl'[k] = ctl[k]
    BY <1>1, <2>1, <2>2
  <2>4. session' = session /\ \A t \in Task : lease'[t] \in {lease[t], None}
    BY <1>1, <1>4 DEF ReleaseFinished, Released, memory
  <2> QED
    BY <1>2, <2>3, <2>4, Forgets
<1> QED
  BY <1>3, <1>4

\* The granted epoch is greater than all that are known.
LEMMA AcquireContract ==
    ASSUME Inv, ContractInv, adapter = "contract", NEW c \in Controller, NEW t \in Task, Acquire(c, t)
    PROVE  ContractInv'
<1> DEFINE epoch == epochs[t] + 1
<1>1. /\ TypeOK /\ ctl[c] \in Control /\ epochs[t] \in Nat /\ epoch \in Nat
      /\ UNCHANGED <<adapter, session>>
  BY CtlTypes, LimitAssumption DEF Inv, TypeOK, Acquire
<1>2. /\ lease' = [lease EXCEPT ![t] = [epoch |-> epoch, pid |-> c]]
      /\ epochs' = [epochs EXCEPT ![t] = epoch]
      /\ ctl' = [ctl EXCEPT ![c] = [@ EXCEPT !.at = "claim", !.task = t, !.epoch = epoch]]
  BY DEF Acquire, ContractInv
<1>3. /\ ctl'[c].at = "claim" /\ ctl'[c].task = t /\ ctl'[c].epoch = epoch
      /\ \A k \in Controller \ {c} : ctl'[k] = ctl[k]
  BY <1>1, <1>2 DEF TypeOK
<1>4. /\ lease'[t].epoch = epoch /\ epochs'[t] = epoch
      /\ \A u \in Task \ {t} : lease'[u] = lease[u] /\ epochs'[u] = epochs[u]
  BY <1>1, <1>2 DEF TypeOK
<1>5. ASSUME NEW u \in Task PROVE epochs[u] \in Nat /\ epochs'[u] \in Nat /\ epochs[u] <= epochs'[u]
  <2>1. epochs[u] \in Nat
    BY <1>1, LimitAssumption DEF TypeOK
  <2>2. CASE u = t
    BY <1>1, <1>4, <2>1, <2>2
  <2>3. CASE u # t
    BY <1>4, <2>1, <2>3
  <2> QED
    BY <2>2, <2>3
<1>6. ASSUME NEW k \in Controller, NEW u \in Task, NEW e \in Epoch, Holds(k, u, e)'
      PROVE  Holds(k, u, e) \/ (k = c /\ u = t /\ e = epoch)
  BY <1>1, <1>3, <1>6 DEF Holds
<1>7. \A k \in Controller, u \in Task, e \in Epoch : Holds(k, u, e) => e <= epochs[u] /\ e \in Nat
  BY LimitAssumption DEF ContractInv, Epoch
<1>8. \A k \in Controller, u \in Task, e \in Epoch : Holds(k, u, e)' => e <= epochs'[u]
  BY <1>4, <1>5, <1>6, <1>7
<1>9. \A k \in Controller : ~Holds(k, t, epoch) \/ epoch \notin Epoch
  BY <1>1, <1>7
<1>10. \A k, m \in Controller, u \in Task, e \in Epoch : Holds(k, u, e)' /\ Holds(m, u, e)' => k = m
  BY <1>6, <1>9 DEF ContractInv
<1>11. \A u \in Task : lease'[u] # None => lease'[u].epoch = epochs'[u]
  BY <1>4 DEF ContractInv
<1> QED
  BY <1>8, <1>10, <1>11 DEF ContractInv

\* Between the lease and the session the epoch stays with the same controller.
LEMMA DispatchForgets ==
    ASSUME Inv, NEW c \in Controller,
           Claim(c) \/ StartTask(c) \/ StartTaskRaises(c) \/ ReportUncertain(c)
    PROVE  NothingLearned
<1>1. /\ TypeOK /\ CtlInv(c) /\ ctl[c] \in Control /\ ctl[c].task \in Task
      /\ UNCHANGED <<adapter, epochs, lease>>
  BY CtlTypes, WorkingTask DEF Inv, Claim, StartTask, StartTaskRaises, ReportUncertain, At
<1>2. CASE Claim(c)
  <2>1. ctl' = [ctl EXCEPT ![c] = [ctl[c] EXCEPT !.at = "start"]] /\ session' = session /\ ctl[c].at = "claim"
    BY <1>2 DEF Claim, At, memory
  <2>2. /\ \A k \in Controller \ {c} : ctl'[k] = ctl[k]
        /\ ctl'[c].task = ctl[c].task /\ ctl'[c].epoch = ctl[c].epoch
    BY <1>1, <2>1 DEF TypeOK
  <2>3. ASSUME NEW k \in Controller, NEW t \in Task, NEW e \in Epoch, Holds(k, t, e)' PROVE Holds(k, t, e)
    BY <2>1, <2>2, <2>3 DEF Holds
  <2> QED
    BY <1>1, <2>3 DEF NothingLearned
<1>3. CASE StartTask(c)
  <2> DEFINE opened == [run |-> ctl[c].epoch, epoch |-> ctl[c].epoch]
  <2>1. /\ ctl' = [ctl EXCEPT ![c] = [NotRunningCode EXCEPT !.at = "dispatch", !.todo = ctl[c].todo \ {ctl[c].task}]]
        /\ session' = [session EXCEPT ![c][ctl[c].task] = opened] /\ ctl[c].at = "start"
    BY <1>3 DEF StartTask, At
  <2>2. [NotRunningCode EXCEPT !.at = "dispatch", !.todo = ctl[c].todo \ {ctl[c].task}].at = "dispatch"
    BY DEF NotRunningCode
  <2>3. /\ ctl'[c].at = "dispatch" /\ \A k \in Controller \ {c} : ctl'[k] = ctl[k]
        /\ \A k \in Controller \ {c} : session'[k] = session[k]
        /\ session'[c][ctl[c].task] = opened
        /\ \A t \in Task \ {ctl[c].task} : session'[c][t] = session[c][t]
    BY <1>1, <2>1, <2>2 DEF TypeOK
  <2>4. ASSUME NEW k \in Controller, NEW t \in Task, NEW e \in Epoch, Holds(k, t, e)' PROVE Holds(k, t, e)
    BY <2>1, <2>3, <2>4 DEF Holds
  <2> QED
    BY <1>1, <2>4 DEF NothingLearned
<1>4. CASE StartTaskRaises(c)
  <2>1. ctl' = [ctl EXCEPT ![c] = [ctl[c] EXCEPT !.at = "report"]] /\ session' = session
    BY <1>4 DEF StartTaskRaises, memory
  <2>2. ctl'[c].at = "report" /\ \A k \in Controller \ {c} : ctl'[k] = ctl[k]
    BY <1>1, <2>1 DEF TypeOK
  <2> QED
    BY <1>1, <2>1, <2>2, Forgets
<1>5. CASE ReportUncertain(c)
  BY <1>1, <1>5, RaiseForgets DEF ReportUncertain
<1> QED
  BY <1>2, <1>3, <1>4, <1>5

LEMMA ControllerContract ==
    ASSUME Inv, ContractInv, adapter = "contract", NEW c \in Controller,
           Start(c) \/ Reinitialize(c) \/ ControllerStep(c) \/ Crash(c)
    PROVE  ContractInv'
<1>1. ASSUME NEW t \in Task,
             \/ Load(c, t) \/ PollActive(c, t) \/ Collect(c, t) \/ BlockDownstream(c, t) \/ AcquireRefused(c, t)
      PROVE  ContractInv'
  BY <1>1, OtherPlaces, NothingLearnedKeeps
<1>2. ASSUME NEW t \in Task, Recover(c, t) PROVE FALSE
  BY <1>2 DEF Recover, MayRecover
<1>3. ASSUME NEW t \in Task, Acquire(c, t) PROVE ContractInv'
  BY <1>3, AcquireContract
<1>4. CASE Crash(c) \/ \E t \in Task : InitializeRaises(c, t)
  BY <1>4, DieForgets, NothingLearnedKeeps DEF Crash, InitializeRaises, Inv
<1>5. CASE \/ ClaimRaises(c) \/ EndDispatch(c)
           \/ \E t \in Task : CollectRaises(c, t) \/ BlockDownstreamRaises(c, t) \/ ContextRefused(c, t)
  <2>1. RaiseTo(c) /\ UNCHANGED <<adapter, epochs, lease, session>>
    BY <1>5 DEF ClaimRaises, EndDispatch, CollectRaises, BlockDownstreamRaises, ContextRefused, durable, memory
  <2> QED
    BY <2>1, RaiseForgets, NothingLearnedKeeps DEF Inv
<1>6. CASE Claim(c) \/ StartTask(c) \/ StartTaskRaises(c) \/ ReportUncertain(c)
  BY <1>6, DispatchForgets, NothingLearnedKeeps
<1>7. CASE EndPoll(c) \/ ReleaseFinished(c)
  BY <1>7, EndPollForgets, NothingLearnedKeeps
<1>8. CASE Start(c) \/ Reinitialize(c) \/ EndInitialize(c) \/ BeginStep(c)
  <2>1. CASE Task = {}
    BY <2>1 DEF ContractInv, Inv, TypeOK, Start, Reinitialize, EndInitialize, BeginStep, durable
  <2>2. CASE Task # {}
    BY <1>8, <2>2, OtherPlaces, NothingLearnedKeeps
  <2> QED
    BY <2>1, <2>2
<1> QED
  BY <1>1, <1>2, <1>3, <1>4, <1>5, <1>6, <1>7, <1>8 DEF ControllerStep

LEMMA OthersForget ==
    ASSUME Inv, UNCHANGED <<adapter, epochs, ctl, session>>,
           \A t \in Task : lease'[t] \in {lease[t], None}
    PROVE  NothingLearned
  BY DEF NothingLearned, Holds

LEMMA AdapterStays == [Next]_vars => UNCHANGED adapter
<1> SUFFICES ASSUME [Next]_vars PROVE adapter' = adapter
  OBVIOUS
<1>1. CASE UNCHANGED vars
  BY <1>1 DEF vars, durable
<1>2. ASSUME NEW c \in Controller, ControllerStep(c) PROVE adapter' = adapter
  <2>1. ASSUME NEW t \in Task,
               \/ Load(c, t) \/ Recover(c, t) \/ InitializeRaises(c, t)
               \/ PollActive(c, t) \/ Collect(c, t) \/ CollectRaises(c, t)
        PROVE  adapter' = adapter
    BY <2>1 DEF Load, Recover, InitializeRaises, PollActive, Collect, CollectRaises, durable
  <2>2. ASSUME NEW t \in Task,
               \/ BlockDownstream(c, t) \/ BlockDownstreamRaises(c, t)
               \/ ContextRefused(c, t) \/ Acquire(c, t) \/ AcquireRefused(c, t)
        PROVE  adapter' = adapter
    BY <2>2 DEF BlockDownstream, BlockDownstreamRaises, ContextRefused, Acquire, AcquireRefused, durable
  <2>3. CASE EndInitialize(c) \/ BeginStep(c) \/ ReleaseFinished(c) \/ EndPoll(c) \/ Claim(c)
    BY <2>3 DEF EndInitialize, BeginStep, ReleaseFinished, EndPoll, Claim, durable
  <2>4. CASE ClaimRaises(c) \/ StartTask(c) \/ StartTaskRaises(c) \/ ReportUncertain(c) \/ EndDispatch(c)
    BY <2>4 DEF ClaimRaises, StartTask, StartTaskRaises, ReportUncertain, EndDispatch, durable
  <2> QED
    BY <1>2, <2>1, <2>2, <2>3, <2>4 DEF ControllerStep
<1>3. ASSUME NEW c \in Controller, Start(c) \/ Reinitialize(c) \/ Crash(c) PROVE adapter' = adapter
  BY <1>3 DEF Start, Reinitialize, Crash, durable
<1>4. ASSUME NEW t \in Task, \/ \E e \in Epoch : JobEnds(t, e)
                             \/ \E to \in Status : HumanDecides(t, to)
                             \/ CancelRead(t)
      PROVE  adapter' = adapter
  BY <1>4 DEF JobEnds, HumanDecides, CancelRead, durable
<1>5. CASE CancelLookup \/ CancelKill \/ CancelRelease \/ CancelCommit \/ CancelFails
  BY <1>5 DEF CancelLookup, CancelKill, CancelRelease, CancelCommit, CancelFails, durable
<1> QED
  BY <1>1, <1>2, <1>3, <1>4, <1>5 DEF Next

LEMMA ContractNext == Inv /\ ContractInv /\ [Next]_vars => ContractInv'
<1> SUFFICES ASSUME Inv, ContractInv, [Next]_vars PROVE ContractInv'
  OBVIOUS
<1>0. CASE adapter # "contract"
  <2>1. adapter' = adapter
    BY AdapterStays
  <2> QED
    BY <1>0, <2>1 DEF ContractInv
<1>1. CASE adapter = "contract" /\ \E c \in Controller :
              Start(c) \/ Reinitialize(c) \/ ControllerStep(c) \/ Crash(c)
  BY <1>1, ControllerContract
<1>2. CASE CancelKill
  <2>1. op.pid \in Controller /\ TypeOK /\ UNCHANGED durable
    BY <1>2 DEF Inv, OpInv, CancelKill
  <2>2. CASE Die(op.pid)
    BY <2>1, <2>2, DieForgets, NothingLearnedKeeps
  <2>3. CASE UNCHANGED <<up, ctl, memory>>
    BY <2>1, <2>3, OthersForget, NothingLearnedKeeps DEF durable, memory
  <2> QED
    BY <1>2, <2>2, <2>3 DEF CancelKill
<1>3. CASE CancelRelease
  <2>1. op.task \in Task /\ TypeOK
    BY <1>3 DEF Inv, OpInv, CancelRelease
  <2>2. \A t \in Task : lease'[t] \in {lease[t], None}
    BY <1>3, <2>1 DEF CancelRelease, Released, TypeOK
  <2> QED
    BY <1>3, <2>2, OthersForget, NothingLearnedKeeps DEF CancelRelease, memory
<1>4. CASE UNCHANGED <<adapter, epochs, ctl, session, lease>>
  BY <1>4, OthersForget, NothingLearnedKeeps
<1>5. ASSUME \/ UNCHANGED vars
             \/ \E t \in Task : \/ \E e \in Epoch : JobEnds(t, e)
                                \/ \E to \in Status : HumanDecides(t, to)
                                \/ CancelRead(t)
             \/ CancelLookup \/ CancelCommit \/ CancelFails
      PROVE  UNCHANGED <<adapter, epochs, ctl, session, lease>>
  BY <1>5 DEF vars, durable, memory, JobEnds, HumanDecides, CancelRead, CancelLookup, CancelCommit, CancelFails
<1> QED
  BY <1>0, <1>1, <1>2, <1>3, <1>4, <1>5 DEF Next

\* OneSessionPerRun: under an adapter that recovers nothing, no two controllers ever wait for the
\* same run, however many of them work on the plan at the same time.
THEOREM ResultsHaveOneReader == Spec /\ adapter = "contract" => []OneSessionPerRun
<1>1. Init => ContractInv
  BY DEF Init, ContractInv, Holds, NotRunningCode
<1>2. adapter = "contract" /\ [Next]_vars => (adapter = "contract")'
  BY AdapterStays
<1>3. Inv /\ ContractInv /\ adapter = "contract" => OneSessionPerRun
  <2> SUFFICES ASSUME Inv, ContractInv, adapter = "contract",
                      NEW c \in Controller, NEW k \in Controller, NEW t \in Task,
                      session[c][t] # None, session[k][t] # None, session[c][t].run = session[k][t].run
               PROVE  c = k
    BY DEF OneSessionPerRun
  <2>1. session[c][t].run \in Epoch
    BY DEF Inv, TypeOK
  <2>2. Holds(c, t, session[c][t].run) /\ Holds(k, t, session[c][t].run)
    BY DEF Holds
  <2> QED
    BY <2>1, <2>2 DEF ContractInv
<1> QED
  BY <1>1, <1>2, <1>3, ContractNext, InvAlways, PTL DEF Spec

-----------------------------------------------------------------------------
(* Runs of an adapter that claims a task for ever *)

ClaimedOnce ==
    adapter = "container" =>
        \A t \in Task, d, e \in Epoch : job[t][d] # "none" /\ job[t][e] # "none" => d = e

\* No run begins.
NothingBegun ==
    UNCHANGED adapter /\ \A t \in Task, e \in Epoch : job'[t][e] # "none" => job[t][e] # "none"

\* A run of ctl[c].task begins, the first there is.
LEMMA BeginsOnce ==
    ASSUME Inv, ClaimedOnce, NEW c \in Controller, NEW t \in Task, NEW e \in Epoch, NEW left \in JobStatus,
           MayRun(t), job' = [job EXCEPT ![t][e] = left], UNCHANGED adapter
    PROVE  ClaimedOnce'
<1>1. \A u \in Task, d \in Epoch : u # t \/ d # e => job'[u][d] = job[u][d]
  BY DEF Inv, TypeOK
<1>2. adapter = "container" => \A d \in Epoch : job[t][d] = "none"
  BY DEF MayRun
<1> QED
  BY <1>1, <1>2 DEF ClaimedOnce

LEMMA NothingBegunKeeps == ASSUME ClaimedOnce, NothingBegun PROVE ClaimedOnce'
  BY DEF ClaimedOnce, NothingBegun

LEMMA ClaimedControllerStep ==
    ASSUME Inv, ClaimedOnce, NEW c \in Controller, ControllerStep(c)
    PROVE  ClaimedOnce'
<1>1. ASSUME UNCHANGED <<adapter, job>> PROVE ClaimedOnce'
  BY <1>1 DEF ClaimedOnce
<1>2. ASSUME NEW t \in Task, Recover(c, t) PROVE ClaimedOnce'
  <2>1. PICK e \in Epoch : /\ job[t][e] # "none" /\ UNCHANGED adapter
                           /\ job' = [job EXCEPT ![t][e] = IF @ = "active" THEN "blocked" ELSE @]
    BY <1>2 DEF Recover, MayRecover
  <2>2. NothingBegun
    BY <2>1 DEF NothingBegun, Inv, TypeOK
  <2> QED
    BY <2>2, NothingBegunKeeps
<1>3. CASE StartTask(c) \/ StartTaskRaises(c)
  <2>1. ctl[c].task \in Task /\ ctl[c].epoch \in Epoch /\ UNCHANGED adapter
    BY <1>3 DEF StartTask, StartTaskRaises, At, Inv, CtlInv
  <2>2. {"active", "blocked"} \subseteq JobStatus
    BY DEF JobStatus
  <2>3. \/ UNCHANGED job
        \/ /\ MayRun(ctl[c].task)
           /\ \E left \in {"active", "blocked"} : job' = [job EXCEPT ![ctl[c].task][ctl[c].epoch] = left]
    BY <1>3 DEF StartTask, StartTaskRaises
  <2> QED
    BY <1>1, <2>1, <2>2, <2>3, BeginsOnce
<1>4. ASSUME NEW t \in Task,
             \/ Load(c, t) \/ InitializeRaises(c, t) \/ PollActive(c, t) \/ Collect(c, t)
             \/ CollectRaises(c, t)
      PROVE  ClaimedOnce'
  BY <1>1, <1>4 DEF Load, InitializeRaises, PollActive, Collect, CollectRaises, durable
<1>5. ASSUME NEW t \in Task,
             \/ BlockDownstream(c, t) \/ BlockDownstreamRaises(c, t)
             \/ ContextRefused(c, t) \/ Acquire(c, t) \/ AcquireRefused(c, t)
      PROVE  ClaimedOnce'
  BY <1>1, <1>5 DEF BlockDownstream, BlockDownstreamRaises, ContextRefused, Acquire, AcquireRefused, durable
<1>6. CASE EndInitialize(c) \/ BeginStep(c) \/ ReleaseFinished(c) \/ EndPoll(c)
  BY <1>1, <1>6 DEF EndInitialize, BeginStep, ReleaseFinished, EndPoll, durable
<1>7. CASE Claim(c) \/ ClaimRaises(c) \/ ReportUncertain(c) \/ EndDispatch(c)
  BY <1>1, <1>7 DEF Claim, ClaimRaises, ReportUncertain, EndDispatch, durable
<1> QED
  BY <1>2, <1>3, <1>4, <1>5, <1>6, <1>7 DEF ControllerStep

LEMMA ClaimedNext == Inv /\ ClaimedOnce /\ [Next]_vars => ClaimedOnce'
<1> SUFFICES ASSUME Inv, ClaimedOnce, [Next]_vars PROVE ClaimedOnce'
  OBVIOUS
<1>1. ASSUME UNCHANGED <<adapter, job>> PROVE ClaimedOnce'
  BY <1>1 DEF ClaimedOnce
<1>2. CASE UNCHANGED vars
  BY <1>1, <1>2 DEF vars, durable
<1>3. ASSUME NEW t \in Task, NEW e \in Epoch, JobEnds(t, e) PROVE ClaimedOnce'
  <2>1. NothingBegun
    BY <1>3 DEF JobEnds, NothingBegun, Inv, TypeOK
  <2> QED
    BY <2>1, NothingBegunKeeps
<1>4. ASSUME NEW c \in Controller, Start(c) \/ Reinitialize(c) \/ Crash(c) PROVE ClaimedOnce'
  BY <1>1, <1>4 DEF Start, Reinitialize, Crash, durable
<1>5. ASSUME NEW t \in Task, CancelRead(t) \/ \E to \in Status : HumanDecides(t, to) PROVE ClaimedOnce'
  BY <1>1, <1>5 DEF CancelRead, HumanDecides, durable
<1>6. CASE CancelLookup \/ CancelKill \/ CancelRelease \/ CancelCommit \/ CancelFails
  BY <1>1, <1>6 DEF CancelLookup, CancelKill, CancelRelease, CancelCommit, CancelFails, durable
<1> QED
  BY <1>2, <1>3, <1>4, <1>5, <1>6, ClaimedControllerStep DEF Next

\* OneWorkerPerTask: under the container adapter, no sequence of crashes, recoveries, uncertain starts,
\* retries and rival controllers leaves two workers of a task.
THEOREM OneWorkerForEver == Spec /\ adapter = "container" => []OneWorkerPerTask
<1>1. Init => ClaimedOnce
  BY DEF Init, ClaimedOnce
<1>2. adapter = "container" /\ [Next]_vars => (adapter = "container")'
  BY AdapterStays
<1>3. ClaimedOnce /\ adapter = "container" => OneWorkerPerTask
  <2> SUFFICES ASSUME ClaimedOnce, adapter = "container", NEW t \in Task
               PROVE  Cardinality({e \in Epoch : job[t][e] = "active"}) <= 1
    BY DEF OneWorkerPerTask
  <2> DEFINE S == {e \in Epoch : job[t][e] = "active"}
  <2>1. CASE S = {}
    BY <2>1, FS_EmptySet
  <2>2. ASSUME NEW e \in S PROVE Cardinality(S) <= 1
    <3>1. S = {e}
      BY DEF ClaimedOnce
    <3> HIDE DEF S
    <3>2. Cardinality(S) = 1
      BY <3>1, FS_Singleton
    <3> QED
      BY <3>2
  <2> QED
    BY <2>1, <2>2
<1> QED
  BY <1>1, <1>2, <1>3, ClaimedNext, InvAlways, PTL DEF Spec
-----------------------------------------------------------------------------
(* Nothing is forgotten *)

\* The adapter has a record of each run a controller has a session of.
SessionsRecorded ==
    \A c \in Controller, t \in Task : session[c][t] # None => job[t][session[c][t].run] # "none"

\* No record is lost, and a session is begun only for a run on record.
RecordsStay == \A t \in Task, e \in Epoch : job[t][e] # "none" => job'[t][e] # "none"
BegunOnRecord ==
    \A c \in Controller, t \in Task :
        session'[c][t] # None => session'[c][t] = session[c][t] \/ job'[t][session'[c][t].run] # "none"

LEMMA RecordedMoves ==
    ASSUME Inv, SessionsRecorded, RecordsStay, BegunOnRecord
    PROVE  SessionsRecorded'
<1> SUFFICES ASSUME NEW c \in Controller, NEW t \in Task, session'[c][t] # None,
                    session'[c][t] = session[c][t]
             PROVE  job'[t][session'[c][t].run] # "none"
  BY DEF SessionsRecorded, BegunOnRecord
<1>1. session[c][t].run \in Epoch
  BY DEF Inv, TypeOK
<1> QED
  BY <1>1 DEF SessionsRecorded, RecordsStay

\* Most steps touch neither; some only drop sessions.
LEMMA RecordedStays ==
    ASSUME Inv, SessionsRecorded, UNCHANGED job,
           \A c \in Controller, t \in Task : session'[c][t] \in {session[c][t], None}
    PROVE  SessionsRecorded'
  BY RecordedMoves DEF RecordsStay, BegunOnRecord

LEMMA RecordedDies ==
    ASSUME Inv, SessionsRecorded, UNCHANGED job, NEW c \in Controller, Die(c)
    PROVE  SessionsRecorded'
<1>1. \A k \in Controller, t \in Task : session'[k][t] \in {session[k][t], None}
  BY DEF Die, Inv, TypeOK
<1> QED
  BY <1>1, RecordedStays

LEMMA RecordedController ==
    ASSUME Inv, SessionsRecorded, NEW c \in Controller, ControllerStep(c)
    PROVE  SessionsRecorded'
<1>1. ASSUME UNCHANGED <<session, job>> PROVE SessionsRecorded'
  BY <1>1 DEF SessionsRecorded
<1>2. ASSUME NEW t \in Task, Recover(c, t) PROVE SessionsRecorded'
  <2>1. PICK e \in Epoch :
          /\ job[t][e] # "none"
          /\ job' = [job EXCEPT ![t][e] = IF @ = "active" THEN "blocked" ELSE @]
          /\ session' = [session EXCEPT ![c][t] = [run |-> e, epoch |-> lease[t].epoch]]
    BY <1>2 DEF Recover, MayRecover
  <2>2. RecordsStay
    BY <2>1 DEF RecordsStay, Inv, TypeOK
  <2>3. BegunOnRecord
    BY <2>1 DEF BegunOnRecord, Inv, TypeOK
  <2> QED
    BY <2>2, <2>3, RecordedMoves
<1>3. CASE StartTask(c) \/ StartTaskRaises(c)
  <2> DEFINE t == ctl[c].task
             e == ctl[c].epoch
  <2>1. t \in Task /\ e \in Epoch
    BY <1>3 DEF StartTask, StartTaskRaises, At, Inv, CtlInv
  <2>2. UNCHANGED job \/ \E left \in {"active", "blocked"} : job' = [job EXCEPT ![t][e] = left]
    BY <1>3 DEF StartTask, StartTaskRaises
  <2>3. UNCHANGED session \/ /\ session' = [session EXCEPT ![c][t] = [run |-> e, epoch |-> e]]
                             /\ job' = [job EXCEPT ![t][e] = "active"]
    BY <1>3 DEF StartTask, StartTaskRaises, memory
  <2> HIDE DEF t, e
  <2>4. RecordsStay
    <3>1. job \in [Task -> [Epoch -> JobStatus]]
      BY DEF Inv, TypeOK
    <3> QED
      BY <2>1, <2>2, <3>1 DEF RecordsStay
  <2>5. BegunOnRecord
    BY <2>1, <2>3 DEF BegunOnRecord, Inv, TypeOK
  <2> QED
    BY <2>4, <2>5, RecordedMoves
<1>4. ASSUME NEW t \in Task, InitializeRaises(c, t) PROVE SessionsRecorded'
  BY <1>4, RecordedDies DEF InitializeRaises, durable
<1>5. CASE EndPoll(c)
  <2>1. \A k \in Controller, t \in Task : session'[k][t] \in {session[k][t], None}
    BY <1>5 DEF EndPoll, Remaining, Inv, TypeOK
  <2> QED
    BY <1>5, <2>1, RecordedStays DEF EndPoll, durable
<1>6. ASSUME NEW t \in Task,
             \/ Load(c, t) \/ PollActive(c, t) \/ Collect(c, t) \/ CollectRaises(c, t)
             \/ BlockDownstream(c, t) \/ BlockDownstreamRaises(c, t)
             \/ ContextRefused(c, t) \/ Acquire(c, t) \/ AcquireRefused(c, t)
      PROVE  UNCHANGED <<session, job>>
  BY <1>6 DEF Load, PollActive, Collect, CollectRaises, BlockDownstream, BlockDownstreamRaises,
              ContextRefused, Acquire, AcquireRefused, durable, memory
<1>7. CASE \/ EndInitialize(c) \/ BeginStep(c) \/ ReleaseFinished(c) \/ Claim(c) \/ ClaimRaises(c)
           \/ ReportUncertain(c) \/ EndDispatch(c)
  BY <1>1, <1>7 DEF EndInitialize, BeginStep, ReleaseFinished, Claim, ClaimRaises, ReportUncertain,
                    EndDispatch, durable, memory
<1> QED
  BY <1>1, <1>2, <1>3, <1>4, <1>5, <1>6, <1>7 DEF ControllerStep

LEMMA RecordedNext == Inv /\ SessionsRecorded /\ [Next]_vars => SessionsRecorded'
<1> SUFFICES ASSUME Inv, SessionsRecorded, [Next]_vars PROVE SessionsRecorded'
  OBVIOUS
<1>1. ASSUME UNCHANGED <<session, job>> PROVE SessionsRecorded'
  BY <1>1 DEF SessionsRecorded
<1>2. ASSUME NEW t \in Task, NEW e \in Epoch, JobEnds(t, e) PROVE SessionsRecorded'
  <2>1. RecordsStay
    BY <1>2 DEF JobEnds, RecordsStay, Inv, TypeOK
  <2>2. BegunOnRecord
    BY <1>2 DEF JobEnds, BegunOnRecord, memory
  <2> QED
    BY <2>1, <2>2, RecordedMoves
<1>3. ASSUME NEW c \in Controller, Start(c) \/ Reinitialize(c) PROVE SessionsRecorded'
  BY <1>1, <1>3 DEF Start, Reinitialize, durable, memory
<1>4. ASSUME NEW c \in Controller, Crash(c) PROVE SessionsRecorded'
  BY <1>4, RecordedDies DEF Crash, durable
<1>5. ASSUME NEW t \in Task, CancelRead(t) \/ \E to \in Status : HumanDecides(t, to) PROVE SessionsRecorded'
  BY <1>1, <1>5 DEF CancelRead, HumanDecides, durable, memory
<1>6. CASE CancelKill
  <2>1. op.pid \in Controller /\ UNCHANGED job
    BY <1>6 DEF CancelKill, Inv, OpInv, durable
  <2> QED
    BY <1>1, <1>6, <2>1, RecordedDies DEF CancelKill, memory
<1>7. CASE CancelLookup \/ CancelRelease \/ CancelCommit \/ CancelFails
  BY <1>1, <1>7 DEF CancelLookup, CancelRelease, CancelCommit, CancelFails, durable, memory
<1>8. CASE UNCHANGED vars
  BY <1>1, <1>8 DEF vars, durable, memory
<1> QED
  BY <1>2, <1>3, <1>4, <1>5, <1>6, <1>7, <1>8, RecordedController DEF Next

\* RunningIsAttended: the controller that dispatched or recovered a RUNNING task last has the session
\* of its run, is starting it, or is dead. What was recovered is the one run on record (ClaimedOnce),
\* whichever dispatch began it.
THEOREM NothingIsForgotten == Spec => []RunningIsAttended
<1>1. Init => SessionsRecorded /\ ClaimedOnce
  BY DEF Init, SessionsRecorded, ClaimedOnce
<1>2. Inv /\ SessionsRecorded /\ ClaimedOnce => RunningIsAttended
  <2> SUFFICES ASSUME Inv, SessionsRecorded, ClaimedOnce, NEW t \in Task, status[t] = "RUNNING",
                      NEW c, c = runner[t], session[c][t] # None,
                      adapter = "container" \/ session[c][t].run = run[t]
               PROVE  CurrentRun(t, session[c][t].run)
    BY DEF Inv, TaskInv, Attended, RunningIsAttended
  <2>1. c \in Controller
    BY DEF Inv, TaskInv
  <2>2. session[c][t].run \in Epoch
    BY <2>1 DEF Inv, TypeOK
  <2> QED
    BY <2>1, <2>2 DEF CurrentRun, SessionsRecorded, ClaimedOnce
<1> QED
  BY <1>1, <1>2, RecordedNext, ClaimedNext, InvAlways, PTL DEF Spec

-----------------------------------------------------------------------------
(* The resource rules *)

Running == {t \in Task : status[t] = "RUNNING"}

\* The tasks of S may run together on n workers.
Fits(S, n) ==
    /\ Cardinality(S) <= n
    /\ \A t, u \in S : t # u => <<t, u>> \notin Conflicts

\* Tasks a starting controller has not looked at, and tasks it has picked to dispatch.
Unseen(c) == IF ctl[c].at = "initialize" THEN ctl[c].todo ELSE {}
Planned(c) == IF ctl[c].at \in {"dispatch", "claim", "start", "report"} THEN ctl[c].todo ELSE {}

\* A live controller counts every RUNNING task it has looked at, and all it counts or has picked
\* fits beside what is RUNNING.
SlotInv(c) ==
    /\ up[c] = "new" => active[c] = {}
    /\ Alive(c) => /\ Running \ Unseen(c) \subseteq active[c]
                   /\ Fits(Running \cup active[c] \cup Planned(c), Workers)
                   /\ ctl[c].at = "claim" => ctl[c].task \in active[c]

ResourceInv ==
    /\ Fits(Running, Workers)
    /\ \A c \in Controller : SlotInv(c)
    /\ \A c, k \in Controller : Alive(c) /\ Alive(k) => c = k

\* What fits goes on fitting when tasks are taken away.
LEMMA FewerFit ==
    \A n \in Nat, S \in SUBSET Task : \A R \in SUBSET S : Fits(S, n) => Fits(R, n)
<1> SUFFICES ASSUME NEW n \in Nat, NEW S \in SUBSET Task, NEW R \in SUBSET S, Fits(S, n)
             PROVE  Fits(R, n)
  OBVIOUS
<1>1. IsFiniteSet(S)
  BY PlanAssumption, FS_Subset
<1>2. IsFiniteSet(R) /\ Cardinality(R) <= Cardinality(S)
  BY <1>1, FS_Subset
<1>3. Cardinality(R) \in Nat /\ Cardinality(S) \in Nat
  BY <1>1, <1>2, FS_CardinalityType
<1>4. Cardinality(R) <= n
  BY <1>2, <1>3 DEF Fits
<1> QED
  BY <1>4 DEF Fits

LEMMA WorkersType == TypeOK => Workers \in Nat
  BY LimitAssumption DEF Workers

\* get_dispatchable_tasks returns what fits beside the tasks it counts.
LEMMA DispatchableFits ==
    ASSUME TypeOK, NEW c \in Controller, Fits(active[c], Workers), NEW S \in DispatchableSets(c)
    PROVE  S \subseteq Task /\ Fits(active[c] \cup S, Workers)
<1> DEFINE A == active[c]
           ready == {t \in Task \ A : /\ sched[c][t] = "READY"
                                      /\ DepsDone(c, t)
                                      /\ \A a \in A : <<t, a>> \notin Conflicts}
<1>1. A \in SUBSET Task /\ IsFiniteSet(A) /\ Cardinality(A) \in Nat /\ Workers \in Nat
  BY WorkersType, PlanAssumption, FS_Subset, FS_CardinalityType DEF TypeOK
<1>2. CASE Cardinality(A) >= Workers
  <2>1. S = {}
    BY <1>2 DEF DispatchableSets
  <2> QED
    BY <2>1
<1>3. CASE ~(Cardinality(A) >= Workers)
  <2>1. /\ S \in SUBSET ready /\ Cardinality(S) <= Workers - Cardinality(A)
        /\ \A t, u \in S : t # u => <<t, u>> \notin Conflicts
    BY <1>3 DEF DispatchableSets
  <2>2. /\ S \in SUBSET Task /\ IsFiniteSet(S) /\ Cardinality(S) \in Nat
        /\ IsFiniteSet(A \cap S) /\ Cardinality(A \cap S) \in Nat
    BY <1>1, <2>1, PlanAssumption, FS_Subset, FS_CardinalityType
  <2>3. Cardinality(A \cup S) = Cardinality(A) + Cardinality(S) - Cardinality(A \cap S)
    BY <1>1, <2>2, FS_Union
  <2> HIDE DEF A
  <2>4. Cardinality(A \cup S) <= Workers
    BY <1>1, <2>1, <2>2, <2>3
  <2>5. \A t \in S, a \in A : <<t, a>> \notin Conflicts /\ <<a, t>> \notin Conflicts
    BY <2>1, ConflictAssumption
  <2>6. \A t, u \in A : t # u => <<t, u>> \notin Conflicts
    BY DEF Fits, A
  <2>7. \A t, u \in A \cup S : t # u => <<t, u>> \notin Conflicts
    BY <2>1, <2>5, <2>6
  <2> QED
    BY <2>2, <2>4, <2>7 DEF Fits, A
<1> QED
  BY <1>2, <1>3

\* A live controller moves and puts no more tasks to work than it counted.
LEMMA SlotMoves ==
    ASSUME Inv, TypeOK', ResourceInv, NEW c \in Controller, Alive(c), UNCHANGED <<adapter, up>>,
           \A k \in Controller \ {c} : active'[k] = active[k],
           Running' \subseteq Running \cup active[c],
           Running' \ Unseen(c)' \subseteq active'[c],
           active'[c] \cup Planned(c)' \subseteq Running \cup active[c] \cup Planned(c),
           ctl'[c].at = "claim" => ctl'[c].task \in active'[c]
    PROVE  ResourceInv'
<1> DEFINE S == Running \cup active[c] \cup Planned(c)
           R == Running' \cup active'[c] \cup Planned(c)'
<1>1. Workers' = Workers /\ Workers \in Nat
  BY WorkersType DEF Inv, Workers
<1>2. S \in SUBSET Task /\ Fits(S, Workers)
  BY CtlTypes DEF Inv, ResourceInv, SlotInv, TypeOK, Running, Planned, Control
<1>3. R \in SUBSET S /\ Running' \in SUBSET S
  OBVIOUS
<1> HIDE DEF R, S
<1>4. Fits(R, Workers') /\ Fits(Running', Workers')
  BY <1>1, <1>2, <1>3, FewerFit
<1>5. SlotInv(c)'
  BY <1>4 DEF SlotInv, Alive, R
<1>6. ASSUME NEW k \in Controller \ {c} PROVE SlotInv(k)'
  <2>1. SlotInv(k) /\ ~Alive(k)
    BY DEF ResourceInv
  <2> QED
    BY <2>1 DEF SlotInv, Alive
<1> QED
  BY <1>4, <1>5, <1>6 DEF ResourceInv, Alive

\* A controller moves on and nothing it counts changes.
LEMMA QuietSlots ==
    ASSUME Inv, TypeOK', ResourceInv, NEW c \in Controller, Alive(c), UNCHANGED <<adapter, up, active>>,
           Running' \subseteq Running, Unseen(c) \subseteq Unseen(c)', Planned(c)' \subseteq Planned(c),
           ctl'[c].at # "claim"
    PROVE  ResourceInv'
<1>1. Running \ Unseen(c) \subseteq active[c]
  BY DEF ResourceInv, SlotInv
<1>2. Running' \ Unseen(c)' \subseteq active'[c]
  BY <1>1
<1> QED
  BY <1>2, SlotMoves

LEMMA IdlePlanned == NotRunningCode.at = "idle" /\ NotRunningCode.todo = {}
  BY IdleType

LEMMA RaiseSlots ==
    ASSUME Inv, TypeOK', ResourceInv, NEW c \in Controller, Alive(c), UNCHANGED <<adapter, up, active, status>>,
           RaiseTo(c), ctl[c].at # "initialize"
    PROVE  ResourceInv'
<1>1. ctl'[c] = NotRunningCode
  BY RaiseTypes DEF Inv
<1>2. Unseen(c) = {} /\ Planned(c)' = {} /\ ctl'[c].at # "claim" /\ Running' = Running
  BY <1>1, IdlePlanned DEF Unseen, Planned, Running
<1> QED
  BY <1>2, QuietSlots

LEMMA LoadSlots ==
    ASSUME Inv, TypeOK', ResourceInv, NEW c \in Controller, NEW t \in Task, Load(c, t) \/ Recover(c, t)
    PROVE  ResourceInv'
<1>1. /\ TypeOK /\ Alive(c) /\ ctl[c].at = "initialize" /\ UNCHANGED <<adapter, up, status>>
      /\ ctl[c] \in Control /\ ctl' = [ctl EXCEPT ![c].todo = @ \ {t}]
      /\ UpdateScheduler(c, t, status[t])
  BY CtlTypes DEF Inv, Load, Recover, At, durable
<1>2. ctl'[c].at = "initialize" /\ ctl'[c].todo = ctl[c].todo \ {t}
  BY <1>1 DEF TypeOK, Control
<1>3. /\ Running' = Running /\ Unseen(c)' = Unseen(c) \ {t} /\ Planned(c)' = {}
      /\ Running \ Unseen(c) \subseteq active[c]
  BY <1>1, <1>2 DEF Running, Unseen, Planned, ResourceInv, SlotInv
<1>4. \A k \in Controller \ {c} : active'[k] = active[k]
  BY <1>1 DEF TypeOK, UpdateScheduler
<1>5. CASE status[t] = "RUNNING"
  <2>1. active'[c] = active[c] \cup {t} /\ t \in Running
    BY <1>1, <1>5 DEF TypeOK, UpdateScheduler, Running
  <2> QED
    BY <1>1, <1>2, <1>3, <1>4, <2>1, SlotMoves
<1>6. CASE status[t] # "RUNNING"
  <2>1. (active'[c] = active[c] \/ active'[c] = active[c] \ {t}) /\ t \notin Running
    BY <1>1, <1>6 DEF TypeOK, UpdateScheduler, Running
  <2> QED
    BY <1>1, <1>2, <1>3, <1>4, <2>1, SlotMoves
<1> QED
  BY <1>5, <1>6

\* A task of c is committed out of RUNNING, in the ledger and then in the scheduler.
LEMMA LeavingSlots ==
    ASSUME Inv, TypeOK', ResourceInv, NEW c \in Controller, NEW t \in Task, NEW to \in Status \ {"RUNNING"},
           Alive(c), ctl[c].at # "initialize", UNCHANGED <<adapter, up>>,
           Commit(t, to), UpdateScheduler(c, t, to), Planned(c)' = {}, ctl'[c].at # "claim"
    PROVE  ResourceInv'
<1>1. Running' = Running \ {t}
  BY DEF Inv, TypeOK, Commit, Running
<1>2. \A k \in Controller \ {c} : active'[k] = active[k]
  BY DEF Inv, TypeOK, UpdateScheduler
<1>3. active'[c] = active[c] \/ active'[c] = active[c] \ {t}
  BY DEF Inv, TypeOK, UpdateScheduler
<1>4. Running \subseteq active[c]
  BY DEF ResourceInv, SlotInv, Unseen
<1> QED
  BY <1>1, <1>2, <1>3, <1>4, SlotMoves

LEMMA CollectSlots ==
    ASSUME Inv, TypeOK', ResourceInv, NEW c \in Controller, NEW t \in Task, Collect(c, t)
    PROVE  ResourceInv'
<1> DEFINE to == Outcome(Polled(c, t))
<1>1. /\ Alive(c) /\ ctl[c].at = "poll" /\ UNCHANGED <<adapter, up>>
      /\ Commit(t, to) /\ UpdateScheduler(c, t, to)
  BY DEF Collect, At
<1>2. to \in Status \ {"RUNNING"}
  BY DEF Outcome, Status
<1>3. ctl'[c].at \in {"poll", "closing"}
  BY <1>1 DEF Collect, Inv, TypeOK
<1>4. Planned(c)' = {}
  BY <1>3 DEF Planned
<1> HIDE DEF to
<1> QED
  BY <1>1, <1>2, <1>3, <1>4, LeavingSlots

LEMMA ReportSlots ==
    ASSUME Inv, TypeOK', ResourceInv, NEW c \in Controller, ReportUncertain(c)
    PROVE  ResourceInv'
<1>1. /\ Alive(c) /\ ctl[c].at = "report" /\ RaiseTo(c) /\ UNCHANGED <<adapter, up>>
      /\ ctl[c].task \in Task
  BY DEF ReportUncertain, At, Inv, CtlInv
<1>2. ctl'[c] = NotRunningCode
  BY <1>1, RaiseTypes DEF Inv
<1>3. Planned(c)' = {} /\ ctl'[c].at # "claim"
  BY <1>2, IdlePlanned DEF Planned
<1>4. Uncertain \in Status \ {"RUNNING"}
  BY DEF Uncertain, Status
<1>5. CASE UNCHANGED <<status, active>>
  BY <1>1, <1>5, RaiseSlots
<1>6. CASE Commit(ctl[c].task, Uncertain) /\ UpdateScheduler(c, ctl[c].task, Uncertain)
  BY <1>1, <1>3, <1>4, <1>6, LeavingSlots
<1> QED
  BY <1>5, <1>6 DEF ReportUncertain

LEMMA BlockSlots ==
    ASSUME Inv, TypeOK', ResourceInv, NEW c \in Controller, NEW d \in Task, BlockDownstream(c, d)
    PROVE  ResourceInv'
<1>1. /\ Alive(c) /\ ctl[c].at = "closing" /\ UNCHANGED <<adapter, up, active>>
      /\ UNCHANGED status \/ Commit(d, "BLOCKED")
  BY DEF BlockDownstream, At, memory
<1>2. Running' \subseteq Running
  BY <1>1 DEF Inv, TypeOK, Commit, Running
<1>3. ctl'[c].at = "closing"
  BY <1>1 DEF BlockDownstream, Inv, TypeOK
<1>4. Unseen(c) = {} /\ Planned(c)' = {}
  BY <1>1, <1>3 DEF Unseen, Planned
<1> QED
  BY <1>1, <1>2, <1>3, <1>4, QuietSlots

LEMMA EndPollSlots ==
    ASSUME Inv, TypeOK', ResourceInv, NEW c \in Controller, EndPoll(c)
    PROVE  ResourceInv'
<1>1. PICK S \in DispatchableSets(c) :
          ctl' = [ctl EXCEPT ![c] = [NotRunningCode EXCEPT !.at = "dispatch", !.todo = S]]
  BY DEF EndPoll
<1>2. /\ TypeOK /\ Alive(c) /\ ctl[c].at = "poll" /\ UNCHANGED <<status, adapter, up, active>>
      /\ Workers' = Workers /\ Workers \in Nat
  BY WorkersType DEF EndPoll, At, Inv, durable, Workers
<1>3. ctl'[c].at = "dispatch" /\ ctl'[c].todo = S
  BY <1>1, <1>2 DEF TypeOK, NotRunningCode
<1>4. /\ Running' = Running /\ Running \subseteq active[c] /\ Planned(c)' = S
      /\ active[c] \in SUBSET Task
  BY <1>2, <1>3 DEF ResourceInv, SlotInv, Unseen, Planned, Running, TypeOK
<1>5. Fits(active[c], Workers)
  <2>1. Fits(Running \cup active[c] \cup Planned(c), Workers) /\ Planned(c) = {}
    BY <1>2 DEF ResourceInv, SlotInv, Planned
  <2>2. Running \cup active[c] \cup Planned(c) = active[c]
    BY <1>4, <2>1
  <2> QED
    BY <2>1, <2>2
<1>6. S \subseteq Task /\ Fits(active[c] \cup S, Workers)
  BY <1>2, <1>5, DispatchableFits
<1>7. Running' \cup active'[c] \cup Planned(c)' = active[c] \cup S
  BY <1>2, <1>4
<1>8. SlotInv(c)'
  BY <1>2, <1>3, <1>4, <1>6, <1>7 DEF SlotInv, Alive
<1>9. ASSUME NEW k \in Controller \ {c} PROVE SlotInv(k)'
  <2>1. SlotInv(k) /\ ~Alive(k)
    BY <1>2 DEF ResourceInv
  <2> QED
    BY <1>2, <2>1 DEF SlotInv, Alive
<1>10. Fits(Running, Workers)'
  BY <1>2, <1>4 DEF ResourceInv
<1> QED
  BY <1>2, <1>8, <1>9, <1>10 DEF ResourceInv, Alive

LEMMA AcquireSlots ==
    ASSUME Inv, TypeOK', ResourceInv, NEW c \in Controller, NEW t \in Task, Acquire(c, t)
    PROVE  ResourceInv'
<1>1. /\ TypeOK /\ Alive(c) /\ ctl[c].at = "dispatch" /\ t \in ctl[c].todo
      /\ UNCHANGED <<status, adapter, up>> /\ active' = [active EXCEPT ![c] = @ \cup {t}]
  BY DEF Acquire, At, Inv
<1>2. ctl'[c].at = "claim" /\ ctl'[c].task = t /\ ctl'[c].todo = ctl[c].todo
  BY <1>1, CtlTypes DEF Acquire, TypeOK
<1>3. active'[c] = active[c] \cup {t} /\ \A k \in Controller \ {c} : active'[k] = active[k]
  BY <1>1 DEF TypeOK
<1>4. /\ Running' = Running /\ Running \subseteq active[c] /\ Unseen(c)' = {}
      /\ Planned(c)' = Planned(c) /\ t \in Planned(c)
  BY <1>1, <1>2 DEF ResourceInv, SlotInv, Unseen, Planned, Running
<1> QED
  BY <1>1, <1>2, <1>3, <1>4, SlotMoves

LEMMA ClaimSlots ==
    ASSUME Inv, TypeOK', ResourceInv, NEW c \in Controller, Claim(c)
    PROVE  ResourceInv'
<1> DEFINE t == ctl[c].task
<1>1. /\ TypeOK /\ Alive(c) /\ ctl[c].at = "claim" /\ UNCHANGED <<adapter, up, active>>
      /\ Commit(t, "RUNNING") /\ t \in Task
  BY DEF Claim, At, Inv, CtlInv, memory
<1>2. ctl'[c].at = "start" /\ ctl'[c].todo = ctl[c].todo
  BY <1>1 DEF Claim, TypeOK
<1>3. Running' = Running \cup {t}
  BY <1>1 DEF TypeOK, Commit, Running
<1>4. /\ t \in active[c] /\ Running \subseteq active[c] /\ Unseen(c)' = {}
      /\ Planned(c)' = Planned(c)
  BY <1>1, <1>2 DEF ResourceInv, SlotInv, Unseen, Planned
<1> QED
  BY <1>1, <1>2, <1>3, <1>4, SlotMoves

LEMMA DieSlots ==
    ASSUME Inv, ResourceInv, NEW c \in Controller, Die(c), UNCHANGED <<adapter, status>>
    PROVE  ResourceInv'
<1>1. TypeOK /\ Workers' = Workers /\ Running' = Running
  BY DEF Inv, Workers, Running
<1>2. /\ up'[c] = "dead" /\ \A k \in Controller \ {c} : up'[k] = up[k] /\ ctl'[k] = ctl[k]
      /\ \A k \in Controller \ {c} : active'[k] = active[k]
  BY <1>1, DieTypes DEF Die, TypeOK
<1>3. SlotInv(c)'
  BY <1>2 DEF SlotInv, Alive
<1>4. ASSUME NEW k \in Controller \ {c} PROVE SlotInv(k)'
  <2>1. SlotInv(k)
    BY DEF ResourceInv
  <2>2. Unseen(k)' = Unseen(k) /\ Planned(k)' = Planned(k)
    BY <1>2 DEF Unseen, Planned
  <2> QED
    BY <1>1, <1>2, <2>1, <2>2 DEF SlotInv, Alive
<1> QED
  BY <1>1, <1>2, <1>3, <1>4 DEF ResourceInv, Alive

\* Another process acts: it kills no one and sets no task RUNNING.
LEMMA OthersSlots ==
    ASSUME Inv, ResourceInv, UNCHANGED <<adapter, ctl, active, up>>, Running' \subseteq Running
    PROVE  ResourceInv'
<1>1. TypeOK /\ Workers' = Workers /\ Workers \in Nat
  BY WorkersType DEF Inv, Workers
<1>2. ASSUME NEW c \in Controller PROVE SlotInv(c)'
  <2> DEFINE S == Running \cup active[c] \cup Planned(c)
             R == Running' \cup active[c] \cup Planned(c)
  <2>1. SlotInv(c) /\ Unseen(c)' = Unseen(c) /\ Planned(c)' = Planned(c)
    BY DEF ResourceInv, Unseen, Planned
  <2>2. S \in SUBSET Task /\ R \in SUBSET S
    BY <1>1, CtlTypes DEF TypeOK, Running, Planned, Control
  <2> HIDE DEF S, R
  <2>3. Fits(S, Workers) => Fits(R, Workers)
    BY <1>1, <2>2, FewerFit
  <2> QED
    BY <1>1, <2>1, <2>3 DEF SlotInv, Alive, S, R
<1>3. Running \in SUBSET Task
  BY DEF Running
<1>4. Fits(Running, Workers)'
  BY <1>1, <1>3, FewerFit DEF ResourceInv
<1> QED
  BY <1>2, <1>4 DEF ResourceInv, Alive

\* A process starts only when no other is left.
LEMMA StartSlots ==
    ASSUME Inv, ResourceInv, MaxLive <= 1, NEW c \in Controller, Start(c)
    PROVE  ResourceInv'
<1>1. /\ TypeOK /\ up[c] = "new" /\ UNCHANGED <<status, adapter, active>>
      /\ Cardinality({k \in Controller : Alive(k)}) < MaxLive
  BY DEF Inv, Start, durable, memory
<1>2. \A k \in Controller : ~Alive(k)
  <2> DEFINE L == {k \in Controller : Alive(k)}
  <2> SUFFICES ASSUME NEW k \in Controller, Alive(k) PROVE FALSE
    OBVIOUS
  <2>1. L = {k}
    BY DEF ResourceInv
  <2> HIDE DEF L
  <2>2. Cardinality(L) = 1
    BY <2>1, FS_Singleton
  <2> QED
    BY <1>1, <2>2, LimitAssumption DEF L
<1>3. /\ up'[c] = "up" /\ \A k \in Controller \ {c} : up'[k] = up[k]
      /\ ctl'[c].at = "initialize" /\ ctl'[c].todo = Task
  BY <1>1 DEF Start, TypeOK
<1>4. /\ Workers' = Workers /\ Running' = Running /\ Running \subseteq Task
      /\ Unseen(c)' = Task /\ Planned(c)' = {} /\ active'[c] = {}
  BY <1>1, <1>3 DEF Workers, Running, Unseen, Planned, ResourceInv, SlotInv
<1>5. Running' \cup active'[c] \cup Planned(c)' = Running
  BY <1>4
<1>6. SlotInv(c)'
  BY <1>1, <1>3, <1>4, <1>5 DEF SlotInv, ResourceInv
<1>7. ASSUME NEW k \in Controller \ {c} PROVE SlotInv(k)' /\ ~Alive(k)'
  <2>1. SlotInv(k) /\ ~Alive(k)
    BY <1>2 DEF ResourceInv
  <2> QED
    BY <1>1, <1>3, <2>1 DEF SlotInv, Alive
<1> QED
  BY <1>4, <1>6, <1>7 DEF ResourceInv

LEMMA ControllerSlots ==
    ASSUME Inv, TypeOK', ResourceInv, NEW c \in Controller, ControllerStep(c) \/ Reinitialize(c)
    PROVE  ResourceInv'
<1>0. TypeOK
  BY DEF Inv
<1>1. ASSUME NEW t \in Task, InitializeRaises(c, t) PROVE ResourceInv'
  BY <1>1, DieSlots DEF InitializeRaises, durable
<1>2. ASSUME NEW t \in Task, PollActive(c, t) \/ AcquireRefused(c, t) PROVE ResourceInv'
  <2>1. /\ Alive(c) /\ ctl[c].at \in {"poll", "dispatch"} /\ UNCHANGED <<status, adapter, up, active>>
        /\ ctl' = [ctl EXCEPT ![c].todo = @ \ {t}]
    BY <1>2 DEF PollActive, AcquireRefused, At, durable, memory
  <2>2. ctl'[c].at = ctl[c].at /\ ctl'[c].todo = ctl[c].todo \ {t}
    BY <1>0, <2>1 DEF TypeOK
  <2>3. Running' = Running /\ Unseen(c) = {} /\ Planned(c)' \subseteq Planned(c)
    BY <2>1, <2>2 DEF Running, Unseen, Planned
  <2> QED
    BY <2>1, <2>2, <2>3, QuietSlots
<1>3. ASSUME NEW t \in Task, CollectRaises(c, t) \/ BlockDownstreamRaises(c, t) \/ ContextRefused(c, t)
      PROVE  ResourceInv'
  <2>1. /\ Alive(c) /\ ctl[c].at # "initialize" /\ RaiseTo(c) /\ UNCHANGED <<status, adapter, up, active>>
    BY <1>3 DEF CollectRaises, BlockDownstreamRaises, ContextRefused, At, durable, memory
  <2> QED
    BY <2>1, RaiseSlots
<1>4. CASE ClaimRaises(c) \/ EndDispatch(c)
  <2>1. /\ Alive(c) /\ ctl[c].at # "initialize" /\ RaiseTo(c) /\ UNCHANGED <<status, adapter, up, active>>
    BY <1>4 DEF ClaimRaises, EndDispatch, At, durable, memory
  <2> QED
    BY <2>1, RaiseSlots
<1>5. CASE EndInitialize(c) \/ BeginStep(c) \/ Reinitialize(c)
  <2>1. Alive(c) /\ UNCHANGED <<status, adapter, up, active>>
    BY <1>5 DEF EndInitialize, BeginStep, Reinitialize, At, durable, memory
  <2>2. CASE EndInitialize(c)
    <3>1. ctl[c].todo = {} /\ ctl'[c].at = "idle"
      BY <1>0, <2>2 DEF EndInitialize, TypeOK
    <3>2. Running' = Running /\ Unseen(c) = {} /\ Planned(c)' = {}
      BY <2>1, <3>1 DEF Running, Unseen, Planned
    <3> QED
      BY <2>1, <3>1, <3>2, QuietSlots
  <2>3. CASE BeginStep(c) \/ Reinitialize(c)
    <3>1. ctl[c].at = "idle"
      BY <2>3 DEF BeginStep, Reinitialize, At
    <3>2. ctl'[c].at \in {"poll", "initialize"}
      <4>1. ctl[c] \in Control /\ ctl \in [Controller -> Control]
        BY <1>0, CtlTypes DEF TypeOK, Control
      <4>2. CASE BeginStep(c)
        <5>1. ctl'[c] = [ctl[c] EXCEPT !.at = "poll", !.todo = Sessions(c)]
          BY <4>1, <4>2 DEF BeginStep
        <5> QED
          BY <4>1, <5>1 DEF Control
      <4>3. CASE Reinitialize(c)
        <5>1. ctl'[c] = [ctl[c] EXCEPT !.at = "initialize", !.todo = Task]
          BY <4>1, <4>3 DEF Reinitialize
        <5> QED
          BY <4>1, <5>1 DEF Control
      <4> QED
        BY <2>3, <4>2, <4>3
    <3>3. Running' = Running /\ Unseen(c) = {} /\ Planned(c)' = {}
      BY <2>1, <3>1, <3>2 DEF Running, Unseen, Planned
    <3> QED
      BY <2>1, <3>2, <3>3, QuietSlots
  <2> QED
    BY <1>5, <2>2, <2>3
<1>6. CASE ReleaseFinished(c)
  <2>1. /\ Alive(c) /\ UNCHANGED <<status, adapter, up, active>> /\ ctl[c].at = "closing"
    BY <1>6 DEF ReleaseFinished, At, memory
  <2>2. ctl'[c].at = "poll"
    BY <1>0, <1>6 DEF ReleaseFinished, TypeOK, NotRunningCode
  <2>3. Running' = Running /\ Unseen(c) = {} /\ Planned(c)' = {}
    BY <2>1, <2>2 DEF Running, Unseen, Planned
  <2> QED
    BY <2>1, <2>2, <2>3, QuietSlots
<1>7. CASE StartTask(c) \/ StartTaskRaises(c)
  <2>1. /\ Alive(c) /\ UNCHANGED <<status, adapter, up, active>> /\ ctl[c].at = "start"
    BY <1>7 DEF StartTask, StartTaskRaises, At, memory
  <2>2. ctl'[c].at \in {"dispatch", "report"} /\ ctl'[c].todo \subseteq ctl[c].todo
    <3>1. CASE StartTask(c)
      BY <1>0, <3>1 DEF StartTask, TypeOK, NotRunningCode
    <3>2. CASE StartTaskRaises(c)
      <4>1. ctl' = [ctl EXCEPT ![c].at = "report"]
        BY <3>2 DEF StartTaskRaises
      <4> QED
        BY <1>0, <4>1 DEF TypeOK
    <3> QED
      BY <1>7, <3>1, <3>2
  <2>3. Running' = Running /\ Unseen(c) = {} /\ Planned(c)' \subseteq Planned(c)
    BY <2>1, <2>2 DEF Running, Unseen, Planned
  <2> QED
    BY <2>1, <2>2, <2>3, QuietSlots
<1> QED
  BY <1>1, <1>2, <1>3, <1>4, <1>5, <1>6, <1>7, LoadSlots, CollectSlots, BlockSlots, AcquireSlots,
     EndPollSlots, ClaimSlots, ReportSlots DEF ControllerStep

LEMMA ResourceNext == ASSUME MaxLive <= 1 PROVE Inv /\ ResourceInv /\ [Next]_vars => ResourceInv'
<1> SUFFICES ASSUME Inv, ResourceInv, [Next]_vars PROVE ResourceInv'
  OBVIOUS
<1>0. TypeOK /\ TypeOK' /\ UNCHANGED adapter
  BY InvNext, AdapterStays DEF Inv
<1>1. ASSUME NEW c \in Controller, Start(c) \/ Reinitialize(c) \/ ControllerStep(c) PROVE ResourceInv'
  BY <1>0, <1>1, StartSlots, ControllerSlots
<1>2. ASSUME NEW c \in Controller, Die(c), UNCHANGED durable PROVE ResourceInv'
  BY <1>2, DieSlots DEF durable
<1>3. ASSUME UNCHANGED <<ctl, active, up>>, Running' \subseteq Running PROVE ResourceInv'
  BY <1>0, <1>3, OthersSlots
<1>4. CASE CancelKill
  <2>1. CASE Alive(op.pid)
    <3>1. op.pid \in Controller
      BY <1>4 DEF CancelKill, Inv, OpInv
    <3> QED
      BY <1>2, <1>4, <2>1, <3>1 DEF CancelKill
  <2>2. CASE ~Alive(op.pid)
    BY <1>3, <1>4, <2>2 DEF CancelKill, durable, memory, Running
  <2> QED
    BY <2>1, <2>2
<1>5. ASSUME NEW t \in Task, NEW to \in Status, HumanDecides(t, to) PROVE ResourceInv'
  <2>1. to # "RUNNING" /\ Commit(t, to) /\ UNCHANGED <<ctl, active, up>>
    BY <1>5, HumanAssumption DEF HumanDecides, memory
  <2>2. Running' \subseteq Running
    BY <1>0, <2>1 DEF TypeOK, Commit, Running
  <2> QED
    BY <1>3, <2>1, <2>2
<1>6. CASE CancelCommit
  <2>1. Running' \subseteq Running /\ UNCHANGED <<ctl, active, up>>
    BY <1>0, <1>6 DEF CancelCommit, TypeOK, Running, memory
  <2> QED
    BY <1>3, <2>1
<1>7. ASSUME \/ UNCHANGED vars
             \/ \E t \in Task : (\E e \in Epoch : JobEnds(t, e)) \/ CancelRead(t)
             \/ CancelLookup \/ CancelRelease \/ CancelFails
      PROVE  ResourceInv'
  <2>1. UNCHANGED <<status, ctl, active, up>>
    BY <1>7 DEF vars, durable, memory, JobEnds, CancelRead, CancelLookup, CancelRelease, CancelFails
  <2> QED
    BY <1>3, <2>1 DEF Running
<1> QED
  BY <1>1, <1>2, <1>4, <1>5, <1>6, <1>7 DEF Next, Crash

LEMMA ResourceInit == Init => ResourceInv
<1> SUFFICES ASSUME Init PROVE ResourceInv
  OBVIOUS
<1>1. Running = {} /\ \A c \in Controller : ~Alive(c) /\ active[c] = {}
  BY DEF Init, Running, Alive
<1>2. Workers \in Nat /\ Workers >= 1
  BY LimitAssumption DEF Workers
<1>3. Fits(Running, Workers)
  BY <1>1, <1>2, FS_EmptySet DEF Fits
<1> QED
  BY <1>1, <1>3 DEF ResourceInv, SlotInv

LEMMA NobodyRuns ==
    ASSUME ResourceInv, MaxLive <= 1, NEW c \in Controller, Start(c)
    PROVE  \A k \in Controller : ~Alive(k)
<1> DEFINE L == {k \in Controller : Alive(k)}
<1> SUFFICES ASSUME NEW k \in Controller, Alive(k) PROVE FALSE
  OBVIOUS
<1>1. L = {k}
  BY DEF ResourceInv
<1>2. Cardinality(L) < MaxLive
  BY DEF Start
<1> HIDE DEF L
<1>3. Cardinality(L) = 1
  BY <1>1, FS_Singleton
<1> QED
  BY <1>2, <1>3, LimitAssumption

\* NoConflictingRuns: while one controller at a time works on the plan, what the ledger calls RUNNING
\* keeps to the conflicts and to max_workers, across raises, crashes, recoveries and cancellations.
THEOREM ResourceRulesHold == ASSUME MaxLive <= 1 PROVE Spec => []NoConflictingRuns
<1>1. ResourceInv => NoConflictingRuns
  BY DEF ResourceInv, Fits, Running, NoConflictingRuns
<1> QED
  BY <1>1, ResourceInit, ResourceNext, InvAlways, PTL DEF Spec
-----------------------------------------------------------------------------
(* Results and runs *)

\* c waits for a result of t that it has not recorded yet.
Open(c, t) ==
    /\ session[c][t] # None /\ t \notin ctl[c].finished
    /\ ~(ctl[c].at = "closing" /\ ctl[c].task = t)

\* Where no step ends half-way through its sessions, c waits only for the runs it dispatched and that
\* the ledger calls RUNNING, and polls nothing else.
MatchInv(c) ==
    /\ \A t \in Task : Open(c, t) => /\ status[t] = "RUNNING" /\ runner[t] = c
                                     /\ session[c][t].run = run[t]
    /\ ctl[c].at \in {"start", "report"} =>
          status[ctl[c].task] = "RUNNING" /\ runner[ctl[c].task] = c /\ ~Open(c, ctl[c].task)
    /\ ctl[c].at = "poll" => \A t \in ctl[c].todo : Open(c, t)
    /\ ctl[c].at = "closing" => \A t \in ctl[c].todo \ {ctl[c].task} : Open(c, t)
    /\ ctl[c].down = {}

AllMatch == \A c \in Controller : MatchInv(c)

\* What RUNNING tasks the others run stays as it is.
LeavesOthers(c) ==
    \A t \in Task : status[t] = "RUNNING" /\ runner[t] # c =>
        status'[t] = "RUNNING" /\ runner'[t] = runner[t] /\ run'[t] = run[t]

LEMMA MatchMoves ==
    ASSUME Inv, AllMatch, NEW c \in Controller, Apart(c), LeavesOthers(c), MatchInv(c)'
    PROVE  AllMatch'
<1> SUFFICES ASSUME NEW k \in Controller \ {c} PROVE MatchInv(k)'
  BY DEF AllMatch
<1>1. MatchInv(k) /\ CtlInv(k) /\ ctl'[k] = ctl[k] /\ session'[k] = session[k]
  BY DEF AllMatch, Inv, Apart
<1>2. \A t \in Task : Open(k, t)' <=> Open(k, t)
  BY <1>1 DEF Open
<1>3. \A t \in Task : status[t] = "RUNNING" /\ runner[t] = k =>
         status'[t] = "RUNNING" /\ runner'[t] = k /\ run'[t] = run[t]
  BY DEF LeavesOthers
<1>4. ctl[k].todo \subseteq Task /\ (ctl[k].at \in {"start", "report"} => ctl[k].task \in Task)
  BY <1>1, CtlTypes DEF Inv, CtlInv, Control
<1>5. Open(k, ctl[k].task)' <=> Open(k, ctl[k].task)
  BY <1>1 DEF Open
<1> QED
  BY <1>1, <1>2, <1>3, <1>4, <1>5 DEF MatchInv

\* c moves on between places where nothing is recorded and nothing begun.
LEMMA MatchQuiet ==
    ASSUME Inv, AllMatch, NEW c \in Controller, Apart(c), UNCHANGED <<status, run, runner, session>>,
           ctl[c].at \notin {"closing"}, ctl'[c].finished = ctl[c].finished, ctl'[c].down = {},
           \/ ctl'[c].at \notin {"poll", "closing", "start", "report"}
           \/ ctl'[c].at = "poll" /\ \A t \in ctl'[c].todo : Open(c, t)
    PROVE  AllMatch'
<1>1. MatchInv(c)
  BY DEF AllMatch
<1>2. \A t : Open(c, t)' <=> Open(c, t)
  BY DEF Open
<1>3. MatchInv(c)'
  BY <1>1, <1>2 DEF MatchInv
<1>4. LeavesOthers(c)
  BY DEF LeavesOthers
<1> QED
  BY <1>3, <1>4, MatchMoves

LEMMA MatchRaise ==
    ASSUME Inv, AllMatch, NEW c \in Controller, RaiseTo(c), ctl[c].at \notin {"poll", "closing"},
           UNCHANGED <<status, run, runner, memory, up>>
    PROVE  AllMatch'
<1>1. /\ ctl'[c] = NotRunningCode /\ NotRunningCode.at = "idle" /\ NotRunningCode.finished = {}
      /\ NotRunningCode.down = {} /\ ctl[c].finished = {}
      /\ \A k \in Controller \ {c} : ctl'[k] = ctl[k]
  BY RaiseTypes DEF Inv, CtlInv, NotRunningCode
<1>2. Apart(c)
  BY <1>1 DEF Apart, memory
<1> QED
  BY <1>1, <1>2, MatchQuiet DEF memory

LEMMA MatchDies ==
    ASSUME Inv, AllMatch, NEW c \in Controller, Die(c), UNCHANGED durable
    PROVE  AllMatch'
<1>1. /\ ctl'[c] = NotRunningCode /\ NotRunningCode.at = "idle" /\ NotRunningCode.down = {}
      /\ Apart(c)
  BY DieTypes DEF Inv, Apart, NotRunningCode
<1>2. \A t \in Task : session'[c][t] = None
  BY DEF Die, Inv, TypeOK
<1>3. MatchInv(c)'
  BY <1>1, <1>2 DEF MatchInv, Open
<1>4. LeavesOthers(c)
  BY DEF LeavesOthers, durable
<1> QED
  BY <1>1, <1>3, <1>4, MatchMoves

LEMMA MatchPlaces ==
    ASSUME Inv, AllMatch, NEW c \in Controller,
           Start(c) \/ Reinitialize(c) \/ EndInitialize(c) \/ BeginStep(c)
    PROVE  AllMatch'
<1>1. /\ UNCHANGED <<status, run, runner, sched, session>> /\ ctl[c] \in Control
      /\ ctl \in [Controller -> Control] /\ ctl[c].at \in {"idle", "initialize"}
      /\ ctl[c].finished = {} /\ ctl[c].down = {}
  BY CtlTypes DEF Start, Reinitialize, EndInitialize, BeginStep, At, durable, memory, Inv, CtlInv, TypeOK,
     Control, AllMatch, MatchInv
<1>2. \A k \in Controller \ {c} : up'[k] = up[k]
  BY DEF Start, Reinitialize, EndInitialize, BeginStep, Inv, TypeOK
<1>3. ASSUME NEW r \in Control, ctl' = [ctl EXCEPT ![c] = r], r.finished = {}, r.down = {},
             r.at \in {"initialize", "idle"} \/ (r.at = "poll" /\ r.todo = Sessions(c))
      PROVE  AllMatch'
  <2>1. ctl'[c] = r /\ \A k \in Controller \ {c} : ctl'[k] = ctl[k]
    BY <1>1, <1>3
  <2>2. Apart(c)
    BY <1>1, <1>2, <2>1 DEF Apart
  <2>3. \A t \in Sessions(c) : Open(c, t)
    BY <1>1 DEF Sessions, Open
  <2> QED
    BY <1>1, <1>3, <2>1, <2>2, <2>3, MatchQuiet
<1>4. CASE Start(c) \/ Reinitialize(c)
  <2> DEFINE r == [ctl[c] EXCEPT !.at = "initialize", !.todo = Task]
  <2>1. ctl' = [ctl EXCEPT ![c] = r]
    BY <1>4 DEF Start, Reinitialize
  <2>2. r \in Control /\ r.finished = {} /\ r.down = {} /\ r.at = "initialize"
    BY <1>1 DEF Control, Place
  <2> HIDE DEF r
  <2> QED
    BY <1>3, <2>1, <2>2
<1>5. CASE EndInitialize(c)
  <2> DEFINE r == [ctl[c] EXCEPT !.at = "idle"]
  <2>1. ctl' = [ctl EXCEPT ![c] = r]
    BY <1>5 DEF EndInitialize
  <2>2. r \in Control /\ r.finished = {} /\ r.down = {} /\ r.at = "idle"
    BY <1>1 DEF Control, Place
  <2> HIDE DEF r
  <2> QED
    BY <1>3, <2>1, <2>2
<1>6. CASE BeginStep(c)
  <2> DEFINE r == [ctl[c] EXCEPT !.at = "poll", !.todo = Sessions(c)]
  <2>1. ctl' = [ctl EXCEPT ![c] = r]
    BY <1>6 DEF BeginStep
  <2>2. r \in Control /\ r.finished = {} /\ r.down = {} /\ r.at = "poll" /\ r.todo = Sessions(c)
    BY <1>1 DEF Control, Place, Sessions
  <2> HIDE DEF r
  <2> QED
    BY <1>3, <2>1, <2>2
<1> QED
  BY <1>4, <1>5, <1>6

\* One task is struck off the list.
LEMMA MatchStrikes ==
    ASSUME Inv, AllMatch, NEW c \in Controller, NEW t \in Task,
           Load(c, t) \/ PollActive(c, t) \/ AcquireRefused(c, t)
    PROVE  AllMatch'
<1>1. /\ UNCHANGED <<status, run, runner, session, up>> /\ ctl[c] \in Control
      /\ ctl[c].at \in {"initialize", "poll", "dispatch"}
      /\ ctl \in [Controller -> Control] /\ ctl' = [ctl EXCEPT ![c].todo = @ \ {t}] /\ MatchInv(c)
  BY CtlTypes DEF Load, PollActive, AcquireRefused, At, durable, memory, Inv, TypeOK, Control, AllMatch
<1>2. /\ ctl'[c].at = ctl[c].at /\ ctl'[c].finished = ctl[c].finished /\ ctl'[c].down = ctl[c].down
      /\ ctl'[c].todo = ctl[c].todo \ {t} /\ \A k \in Controller \ {c} : ctl'[k] = ctl[k]
  BY <1>1 DEF Control
<1>3. \A k \in Controller \ {c} : sched'[k] = sched[k]
  BY DEF Load, PollActive, AcquireRefused, memory, Inv, TypeOK, UpdateScheduler
<1>4. Apart(c)
  BY <1>1, <1>2, <1>3 DEF Apart
<1>5. ctl[c].down = {} /\ (ctl[c].at = "poll" => \A u \in ctl[c].todo : Open(c, u))
  BY <1>1 DEF MatchInv
<1> QED
  BY <1>1, <1>2, <1>4, <1>5, MatchQuiet

\* Whoever polls a session finds its task RUNNING, so that every result is legal.
LEMMA PolledIsOpen ==
    ASSUME Inv, AllMatch, NEW c \in Controller, NEW t \in Task, At(c, "poll"), t \in ctl[c].todo
    PROVE  /\ Open(c, t) /\ status[t] = "RUNNING" /\ runner[t] = c /\ session[c][t].run = run[t]
           /\ Legal(t, Outcome(Polled(c, t)))
<1>1. Open(c, t) /\ status[t] = "RUNNING" /\ runner[t] = c /\ session[c][t].run = run[t]
  BY DEF AllMatch, MatchInv, At
<1>2. Outcome(Polled(c, t)) \in {"VALIDATING", "FAILED", "BLOCKED"}
  BY DEF Outcome
<1>3. \A to \in {"VALIDATING", "FAILED", "BLOCKED"} : <<"RUNNING", to>> \in ALLOWED_TRANSITIONS
  BY DEF ALLOWED_TRANSITIONS
<1> QED
  BY <1>1, <1>2, <1>3 DEF Legal

LEMMA MatchCollect ==
    ASSUME Inv, AllMatch, \A t \in Task : Dependents[t] = {},
           NEW c \in Controller, NEW t \in Task, Collect(c, t)
    PROVE  AllMatch'
<1> DEFINE to == Outcome(Polled(c, t))
           done == [ctl[c] EXCEPT !.todo = ctl[c].todo \ {t}, !.finished = ctl[c].finished \cup {t}]
           closing == [ctl[c] EXCEPT !.at = "closing", !.task = t,
                                     !.down = IF to = "FAILED" THEN Dependents[t] ELSE {}]
<1>1. /\ At(c, "poll") /\ t \in ctl[c].todo /\ Commit(t, to) /\ UpdateScheduler(c, t, to)
      /\ UNCHANGED <<run, runner, session, up>> /\ MatchInv(c) /\ ctl[c].at = "poll"
      /\ ctl \in [Controller -> Control] /\ ctl[c] \in Control
  BY CtlTypes DEF Collect, At, AllMatch, Inv, TypeOK, Control
<1>2. to \in {"VALIDATING", "FAILED", "BLOCKED"}
  BY DEF Outcome
<1>3. status'[t] = to /\ \A u \in Task \ {t} : status'[u] = status[u]
  BY <1>1 DEF Inv, TypeOK, Commit
<1>4. runner[t] = c
  BY <1>1, PolledIsOpen
<1>5. ctl' = [ctl EXCEPT ![c] = done] \/ ctl' = [ctl EXCEPT ![c] = closing]
  <2>1. CASE to = "BLOCKED"
    BY <2>1 DEF Collect
  <2>2. CASE to # "BLOCKED"
    BY <2>2 DEF Collect
  <2> QED
    BY <2>1, <2>2
<1> HIDE DEF to
<1>6. ctl'[c] \in {done, closing} /\ \A k \in Controller \ {c} : ctl'[k] = ctl[k]
  BY <1>1, <1>5
<1>7. \A k \in Controller \ {c} : sched'[k] = sched[k]
  BY <1>1 DEF Inv, TypeOK, UpdateScheduler
<1>8. Apart(c)
  BY <1>1, <1>6, <1>7 DEF Apart
<1>9. LeavesOthers(c)
  BY <1>1, <1>3, <1>4 DEF LeavesOthers
<1>10. MatchInv(c)'
  <2>1. CASE ctl'[c] = done
    <3>1. /\ ctl'[c].at = "poll" /\ ctl'[c].todo = ctl[c].todo \ {t} /\ ctl'[c].down = ctl[c].down
          /\ ctl'[c].finished = ctl[c].finished \cup {t}
      BY <1>1, <2>1 DEF Control
    <3>2. ~Open(c, t)' /\ \A u \in Task \ {t} : Open(c, u)' <=> Open(c, u)
      BY <1>1, <3>1 DEF Open
    <3>3. ctl[c].todo \subseteq Task
      BY <1>1 DEF Control
    <3> QED
      BY <1>1, <1>3, <3>1, <3>2, <3>3 DEF MatchInv
  <2>2. CASE ctl'[c] = closing
    <3>1. /\ ctl'[c].at = "closing" /\ ctl'[c].task = t /\ ctl'[c].todo = ctl[c].todo
          /\ ctl'[c].down = {} /\ ctl'[c].finished = ctl[c].finished
      BY <1>1, <2>2 DEF Control
    <3>2. ~Open(c, t)' /\ \A u \in Task \ {t} : Open(c, u)' <=> Open(c, u)
      BY <1>1, <3>1 DEF Open
    <3>3. ctl[c].todo \subseteq Task
      BY <1>1 DEF Control
    <3> QED
      BY <1>1, <1>3, <3>1, <3>2, <3>3 DEF MatchInv
  <2> QED
    BY <1>6, <2>1, <2>2
<1> QED
  BY <1>8, <1>9, <1>10, MatchMoves

LEMMA MatchRelease ==
    ASSUME Inv, AllMatch, NEW c \in Controller, ReleaseFinished(c)
    PROVE  AllMatch'
<1>1. /\ ctl[c].at = "closing" /\ UNCHANGED <<status, run, runner, memory, up>> /\ MatchInv(c)
      /\ ctl \in [Controller -> Control] /\ ctl[c].task \in Task
      /\ ctl' = [ctl EXCEPT ![c] = [NotRunningCode EXCEPT !.at = "poll", !.todo = ctl[c].todo \ {ctl[c].task},
                                        !.finished = ctl[c].finished \cup {ctl[c].task}]]
  BY DEF ReleaseFinished, At, AllMatch, Inv, TypeOK, Control, CtlInv
<1>2. /\ ctl'[c].at = "poll" /\ ctl'[c].todo = ctl[c].todo \ {ctl[c].task} /\ ctl'[c].down = {}
      /\ ctl'[c].finished = ctl[c].finished \cup {ctl[c].task}
      /\ \A k \in Controller \ {c} : ctl'[k] = ctl[k]
  BY <1>1 DEF NotRunningCode
<1>3. \A u : Open(c, u)' <=> Open(c, u)
  BY <1>1, <1>2 DEF Open, memory
<1>4. MatchInv(c)'
  BY <1>1, <1>2, <1>3 DEF MatchInv, memory
<1>5. Apart(c) /\ LeavesOthers(c)
  BY <1>1, <1>2 DEF Apart, LeavesOthers, memory
<1> QED
  BY <1>4, <1>5, MatchMoves

LEMMA MatchEndPoll ==
    ASSUME Inv, AllMatch, NEW c \in Controller, EndPoll(c)
    PROVE  AllMatch'
<1>1. PICK S \in DispatchableSets(c) :
          ctl' = [ctl EXCEPT ![c] = [NotRunningCode EXCEPT !.at = "dispatch", !.todo = S]]
  BY DEF EndPoll
<1>2. /\ ctl[c].at = "poll" /\ UNCHANGED <<durable, sched, up>> /\ MatchInv(c) /\ TypeOK
      /\ session' = [session EXCEPT ![c] = Remaining(c)]
  BY DEF EndPoll, At, AllMatch, Inv
<1>3. /\ ctl'[c].at = "dispatch" /\ ctl'[c].down = {} /\ ctl'[c].finished = {}
      /\ \A k \in Controller \ {c} : ctl'[k] = ctl[k] /\ session'[k] = session[k]
      /\ session'[c] = Remaining(c)
  BY <1>1, <1>2 DEF NotRunningCode, TypeOK
<1>4. \A u \in Task : Open(c, u)' => Open(c, u) /\ session'[c][u] = session[c][u]
  BY <1>2, <1>3 DEF Open, Remaining
<1>5. MatchInv(c)'
  BY <1>2, <1>3, <1>4 DEF MatchInv, durable
<1>6. Apart(c) /\ LeavesOthers(c)
  BY <1>2, <1>3 DEF Apart, LeavesOthers, durable
<1> QED
  BY <1>5, <1>6, MatchMoves

LEMMA MatchAcquire ==
    ASSUME Inv, AllMatch, NEW c \in Controller, NEW t \in Task, Acquire(c, t)
    PROVE  AllMatch'
<1>1. /\ ctl[c].at = "dispatch" /\ UNCHANGED <<status, run, runner, session, up>> /\ MatchInv(c)
      /\ sched' = [sched EXCEPT ![c][t] = "RUNNING"]
      /\ ctl \in [Controller -> Control] /\ ctl[c] \in Control
  BY CtlTypes DEF Acquire, At, AllMatch, Inv, TypeOK, Control
<1>2. PICK e : ctl' = [ctl EXCEPT ![c] = [@ EXCEPT !.at = "claim", !.task = t, !.epoch = e]]
  BY DEF Acquire
<1>3. /\ ctl'[c].at = "claim" /\ ctl'[c].finished = ctl[c].finished /\ ctl'[c].down = ctl[c].down
      /\ \A k \in Controller \ {c} : ctl'[k] = ctl[k]
  BY <1>1, <1>2 DEF Control
<1>4. Apart(c)
  BY <1>1, <1>3 DEF Apart, Inv, TypeOK
<1>5. ctl[c].down = {}
  BY <1>1 DEF MatchInv
<1> QED
  BY <1>1, <1>3, <1>4, <1>5, MatchQuiet

LEMMA MatchClaim ==
    ASSUME Inv, AllMatch, NEW c \in Controller, Claim(c)
    PROVE  AllMatch'
<1> DEFINE t == ctl[c].task
<1>1. /\ ctl[c].at = "claim" /\ t \in Task /\ Legal(t, "RUNNING") /\ Commit(t, "RUNNING")
      /\ UNCHANGED <<memory, up>> /\ MatchInv(c) /\ TypeOK
      /\ run' = [run EXCEPT ![t] = ctl[c].epoch] /\ runner' = [runner EXCEPT ![t] = c]
      /\ ctl' = [ctl EXCEPT ![c].at = "start"]
  BY DEF Claim, MayClaim, At, AllMatch, Inv, CtlInv
<1>2. status[t] = "READY"
  BY <1>1, EdgesFromDone DEF Legal
<1>3. /\ ctl'[c].at = "start" /\ ctl'[c].task = t /\ ctl'[c].finished = ctl[c].finished
      /\ ctl'[c].down = ctl[c].down /\ \A k \in Controller \ {c} : ctl'[k] = ctl[k]
  BY <1>1 DEF TypeOK
<1>4. /\ status'[t] = "RUNNING" /\ runner'[t] = c
      /\ \A u \in Task \ {t} : status'[u] = status[u] /\ runner'[u] = runner[u] /\ run'[u] = run[u]
  BY <1>1 DEF TypeOK, Commit
<1>5. ~Open(c, t)
  BY <1>1, <1>2 DEF MatchInv
<1>6. \A u \in Task : Open(c, u)' <=> Open(c, u)
  BY <1>1, <1>3 DEF Open, memory
<1> HIDE DEF t
<1>7. MatchInv(c)'
  BY <1>1, <1>3, <1>4, <1>5, <1>6 DEF MatchInv, memory
<1>8. Apart(c) /\ LeavesOthers(c)
  BY <1>1, <1>2, <1>3, <1>4 DEF Apart, LeavesOthers, memory
<1> QED
  BY <1>7, <1>8, MatchMoves

LEMMA MatchStart ==
    ASSUME Inv, AllMatch, NEW c \in Controller, StartTask(c)
    PROVE  AllMatch'
<1> DEFINE t == ctl[c].task
           found == [run |-> ctl[c].epoch, epoch |-> ctl[c].epoch]
<1>1. /\ ctl[c].at = "start" /\ t \in Task /\ UNCHANGED <<status, run, runner, sched, up>>
      /\ MatchInv(c) /\ CtlInv(c) /\ TypeOK
      /\ session' = [session EXCEPT ![c][t] = found]
      /\ ctl' = [ctl EXCEPT ![c] = [NotRunningCode EXCEPT !.at = "dispatch", !.todo = ctl[c].todo \ {t}]]
  BY DEF StartTask, At, AllMatch, Inv, CtlInv
<1>2. /\ ctl'[c].at = "dispatch" /\ ctl'[c].down = {} /\ ctl'[c].finished = {}
      /\ \A k \in Controller \ {c} : ctl'[k] = ctl[k] /\ session'[k] = session[k]
      /\ session'[c][t] = found /\ \A u \in Task \ {t} : session'[c][u] = session[c][u]
  BY <1>1 DEF NotRunningCode, TypeOK
<1>3. status[t] = "RUNNING" /\ runner[t] = c /\ run[t] = ctl[c].epoch /\ ctl[c].finished = {}
  BY <1>1 DEF MatchInv, CtlInv
<1>4. \A u \in Task \ {t} : Open(c, u)' => Open(c, u)
  BY <1>1, <1>2, <1>3 DEF Open
<1>5. found.run = run[t]
  BY <1>3
<1> HIDE DEF t, found
<1>6. MatchInv(c)'
  BY <1>1, <1>2, <1>3, <1>4, <1>5 DEF MatchInv
<1>7. Apart(c) /\ LeavesOthers(c)
  BY <1>1, <1>2 DEF Apart, LeavesOthers
<1> QED
  BY <1>6, <1>7, MatchMoves

LEMMA MatchStartRaises ==
    ASSUME Inv, AllMatch, NEW c \in Controller, StartTaskRaises(c)
    PROVE  AllMatch'
<1>1. /\ ctl[c].at = "start" /\ UNCHANGED <<status, run, runner, memory, up>>
      /\ MatchInv(c) /\ TypeOK /\ ctl' = [ctl EXCEPT ![c].at = "report"]
  BY DEF StartTaskRaises, At, AllMatch, Inv
<1>2. /\ ctl'[c].at = "report" /\ ctl'[c].down = ctl[c].down /\ ctl'[c].finished = ctl[c].finished
      /\ ctl'[c].task = ctl[c].task /\ \A k \in Controller \ {c} : ctl'[k] = ctl[k]
  BY <1>1 DEF TypeOK
<1>3. \A u : Open(c, u)' <=> Open(c, u)
  BY <1>1, <1>2 DEF Open, memory
<1>4. MatchInv(c)'
  BY <1>1, <1>2, <1>3 DEF MatchInv, memory
<1>5. Apart(c) /\ LeavesOthers(c)
  BY <1>1, <1>2 DEF Apart, LeavesOthers, memory
<1> QED
  BY <1>4, <1>5, MatchMoves

LEMMA MatchReport ==
    ASSUME Inv, AllMatch, NEW c \in Controller, ReportUncertain(c)
    PROVE  AllMatch'
<1> DEFINE t == ctl[c].task
<1>1. /\ ctl[c].at = "report" /\ t \in Task /\ UNCHANGED <<run, runner, session, up>> /\ RaiseTo(c)
      /\ MatchInv(c) /\ CtlInv(c) /\ TypeOK
  BY DEF ReportUncertain, At, AllMatch, Inv, CtlInv
<1>2. /\ ctl'[c].at = "idle" /\ ctl'[c].finished = {} /\ ctl'[c].down = {} /\ ctl[c].finished = {}
      /\ \A k \in Controller \ {c} : ctl'[k] = ctl[k]
  BY <1>1, RaiseTypes DEF NotRunningCode, CtlInv
<1>3. status[t] = "RUNNING" /\ runner[t] = c /\ ~Open(c, t)
  BY <1>1 DEF MatchInv
<1>4. \A u \in Task \ {t} : status'[u] = status[u]
  BY <1>1 DEF ReportUncertain, TypeOK, Commit
<1>5. \A k \in Controller \ {c} : sched'[k] = sched[k]
  BY <1>1 DEF ReportUncertain, TypeOK, UpdateScheduler
<1>6. \A u : Open(c, u)' <=> Open(c, u)
  BY <1>1, <1>2 DEF Open
<1> HIDE DEF t
<1>7. MatchInv(c)'
  BY <1>1, <1>2, <1>3, <1>4, <1>6 DEF MatchInv
<1>8. Apart(c) /\ LeavesOthers(c)
  BY <1>1, <1>2, <1>3, <1>4, <1>5 DEF Apart, LeavesOthers
<1> QED
  BY <1>7, <1>8, MatchMoves

LEMMA MatchController ==
    ASSUME Inv, AllMatch, adapter = "contract", \A t \in Task : Dependents[t] = {},
           NEW c \in Controller, ControllerStep(c)
    PROVE  AllMatch'
<1>1. ASSUME NEW t \in Task, Recover(c, t) \/ CollectRaises(c, t) PROVE FALSE
  BY <1>1, PolledIsOpen DEF Recover, MayRecover, CollectRaises
<1>2. ASSUME NEW t \in Task, BlockDownstream(c, t) \/ BlockDownstreamRaises(c, t) PROVE FALSE
  BY <1>2 DEF BlockDownstream, BlockDownstreamRaises, AllMatch, MatchInv
<1>3. ASSUME NEW t \in Task, InitializeRaises(c, t) PROVE AllMatch'
  BY <1>3, MatchDies DEF InitializeRaises
<1>4. ASSUME (\E t \in Task : ContextRefused(c, t)) \/ ClaimRaises(c) \/ EndDispatch(c) PROVE AllMatch'
  <2>1. /\ RaiseTo(c) /\ ctl[c].at \notin {"poll", "closing"}
        /\ UNCHANGED <<status, run, runner, memory, up>>
    BY <1>4 DEF ContextRefused, ClaimRaises, EndDispatch, At, durable
  <2> QED
    BY <2>1, MatchRaise
<1> QED
  BY <1>1, <1>2, <1>3, <1>4, MatchPlaces, MatchStrikes, MatchCollect, MatchRelease, MatchEndPoll,
     MatchAcquire, MatchClaim, MatchStart, MatchStartRaises, MatchReport DEF ControllerStep

\* Others decide, and leave RUNNING tasks alone.
LEMMA MatchOthers ==
    ASSUME Inv, AllMatch, UNCHANGED <<ctl, session, run, runner>>,
           \A t \in Task : status[t] = "RUNNING" => status'[t] = "RUNNING"
    PROVE  AllMatch'
<1> SUFFICES ASSUME NEW c \in Controller PROVE MatchInv(c)'
  BY DEF AllMatch
<1>1. MatchInv(c) /\ CtlInv(c)
  BY DEF AllMatch, Inv
<1>2. \A t : Open(c, t)' <=> Open(c, t)
  BY DEF Open
<1>3. ctl[c].at \in {"start", "report"} => ctl[c].task \in Task
  BY <1>1 DEF CtlInv
<1> QED
  BY <1>1, <1>2, <1>3 DEF MatchInv

\* Where the cancel command does not exist, no action begins one.
LEMMA NobodyCancels == ASSUME ~Cancels PROVE Inv /\ op.at = "none" /\ [Next]_vars => op'.at = "none"
<1> SUFFICES ASSUME Inv, op.at = "none", [Next]_vars PROVE op'.at = "none"
  OBVIOUS
<1>0. op \in Command
  BY DEF Inv, TypeOK
<1>1. ASSUME NEW t \in Task, NEW to \in Status, Commit(t, to) PROVE op'.at = "none"
  BY <1>0, <1>1 DEF Commit
<1>2. CASE UNCHANGED op \/ op' = NoCancel
  BY <1>2, NoCancelType
<1>3. ASSUME NEW c \in Controller, ControllerStep(c) PROVE UNCHANGED op \/ \E t \in Task, to \in Status : Commit(t, to)
  <2>1. ASSUME NEW t \in Task, Collect(c, t) PROVE Commit(t, Outcome(Polled(c, t))) /\ Outcome(Polled(c, t)) \in Status
    BY <2>1 DEF Collect, Outcome, Status
  <2>2. ASSUME NEW t \in Task, BlockDownstream(c, t) PROVE UNCHANGED op \/ Commit(t, "BLOCKED")
    BY <2>2 DEF BlockDownstream
  <2>3. ASSUME Claim(c) \/ ReportUncertain(c)
        PROVE  ctl[c].task \in Task /\ (UNCHANGED op \/ Commit(ctl[c].task, "RUNNING") \/ Commit(ctl[c].task, "BLOCKED"))
    BY <2>3 DEF Claim, ReportUncertain, Uncertain, At, Inv, CtlInv
  <2>4. {"RUNNING", "BLOCKED"} \subseteq Status
    BY DEF Status
  <2>5. ASSUME NEW t \in Task, \/ Load(c, t) \/ Recover(c, t) \/ InitializeRaises(c, t) \/ PollActive(c, t)
                               \/ CollectRaises(c, t) \/ BlockDownstreamRaises(c, t)
                               \/ ContextRefused(c, t) \/ Acquire(c, t) \/ AcquireRefused(c, t)
        PROVE UNCHANGED op
    BY <2>5 DEF Load, Recover, InitializeRaises, PollActive, CollectRaises, BlockDownstreamRaises,
                ContextRefused, Acquire, AcquireRefused
  <2>6. ASSUME \/ EndInitialize(c) \/ BeginStep(c) \/ ReleaseFinished(c) \/ EndPoll(c)
               \/ ClaimRaises(c) \/ StartTask(c) \/ StartTaskRaises(c) \/ EndDispatch(c)
        PROVE UNCHANGED op
    BY <2>6 DEF EndInitialize, BeginStep, ReleaseFinished, EndPoll, ClaimRaises, StartTask,
                StartTaskRaises, EndDispatch
  <2> QED
    BY <1>3, <2>1, <2>2, <2>3, <2>4, <2>5, <2>6 DEF ControllerStep
<1>4. ASSUME NEW c \in Controller, Start(c) \/ Reinitialize(c) \/ Crash(c) PROVE UNCHANGED op
  BY <1>4 DEF Start, Reinitialize, Crash
<1>5. ASSUME NEW t \in Task, \E e \in Epoch : JobEnds(t, e) PROVE UNCHANGED op
  BY <1>5 DEF JobEnds
<1>6. ASSUME NEW t \in Task, NEW to \in Status, HumanDecides(t, to) PROVE Commit(t, to)
  BY <1>6 DEF HumanDecides
<1>7. ASSUME (\E t \in Task : CancelRead(t)) \/ CancelLookup \/ CancelKill \/ CancelRelease \/ CancelCommit
      PROVE FALSE
  BY <1>7 DEF CancelRead, CancelLookup, CancelKill, CancelRelease, CancelCommit
<1>8. CASE CancelFails
  BY <1>2, <1>8 DEF CancelFails
<1> QED
  BY <1>1, <1>2, <1>3, <1>4, <1>5, <1>6, <1>7, <1>8 DEF Next, vars

LEMMA MatchNext ==
    ASSUME ~Cancels, \A t \in Task : Dependents[t] = {}
    PROVE  Inv /\ op.at = "none" /\ AllMatch /\ adapter = "contract" /\ [Next]_vars
               => AllMatch' /\ op'.at = "none"
<1> SUFFICES ASSUME Inv, op.at = "none", AllMatch, adapter = "contract", [Next]_vars
             PROVE  AllMatch' /\ op'.at = "none"
  OBVIOUS
<1>1. op'.at = "none"
  BY NobodyCancels
<1>2. ASSUME NEW c \in Controller, Start(c) \/ Reinitialize(c) PROVE AllMatch'
  BY <1>2, MatchPlaces
<1>3. ASSUME NEW c \in Controller, Crash(c) PROVE AllMatch'
  BY <1>3, MatchDies DEF Crash
<1>4. ASSUME NEW t \in Task, NEW to \in Status, HumanDecides(t, to) PROVE AllMatch'
  <2>1. status[t] # "RUNNING" /\ UNCHANGED <<ctl, session, run, runner>> /\ Commit(t, to)
    BY <1>4, HumanAssumption DEF HumanDecides, memory
  <2>2. \A u \in Task : status[u] = "RUNNING" => status'[u] = "RUNNING"
    BY <2>1 DEF Commit, Inv, TypeOK
  <2> QED
    BY <2>1, <2>2, MatchOthers
<1>5. ASSUME UNCHANGED vars \/ CancelFails \/ \E t \in Task, e \in Epoch : JobEnds(t, e) PROVE AllMatch'
  BY <1>5, MatchOthers DEF vars, durable, memory, CancelFails, JobEnds
<1>6. ASSUME (\E t \in Task : CancelRead(t)) \/ CancelLookup \/ CancelKill \/ CancelRelease \/ CancelCommit
      PROVE FALSE
  BY <1>6 DEF CancelRead, CancelLookup, CancelKill, CancelRelease, CancelCommit
<1> QED
  BY <1>1, <1>2, <1>3, <1>4, <1>5, <1>6, MatchController DEF Next

\* ResultsMatchRun: under an adapter that recovers nothing, where no failure can block a dependent and
\* nobody cancels, a result is recorded only for the run that produced it, however many controllers
\* work on the plan at the same time. Either makes a step raise half-way through its sessions, which
\* leaves those behind that it has finished.
THEOREM ResultsAreOfTheirRun ==
    ASSUME ~Cancels, \A t \in Task : Dependents[t] = {}
    PROVE  Spec /\ adapter = "contract" => ResultsMatchRun
<1> DEFINE Match == AllMatch /\ op.at = "none"
<1>1. Init => Match
  BY DEF Init, AllMatch, MatchInv, Open, NotRunningCode, NoCancel
<1>2. adapter = "contract" /\ [Next]_vars => (adapter = "contract")'
  BY AdapterStays
<1>3. Inv /\ Match /\ adapter = "contract" /\ [Next]_vars => Match'
  BY MatchNext
<1>4. Inv /\ Match =>
         (\A c \in Controller, t \in Task :
            At(c, "poll") /\ t \in ctl[c].todo /\ status'[t] # status[t] /\ ctl'[c] # ctl[c] =>
                status[t] = "RUNNING" /\ session[c][t].run = run[t])
  BY PolledIsOpen
<1> HIDE DEF Match
<1> QED
  BY <1>1, <1>2, <1>3, <1>4, InvAlways, PTL DEF Spec, ResultsMatchRun

-----------------------------------------------------------------------------
(* Workers of an adapter that starts a new run each time *)

\* A worker is at work on the last run only, and the ledger knows: the task is RUNNING, BLOCKED after
\* a start whose outcome is unknown or after the failure of another task, or CANCELLED.
WorkInv ==
    \A t \in Task, e \in Epoch :
        job[t][e] = "active" => e = run[t] /\ status[t] \in {"RUNNING", "BLOCKED", "CANCELLED"}

\* c polls for the last run of whatever task is RUNNING, and starts the last run of its task. This
\* is where several controllers and one alone differ: see MatchInv and LoneInv.
KnowsRun(c) ==
    /\ ctl[c].at = "poll" => \A t \in ctl[c].todo : status[t] = "RUNNING" => session[c][t].run = run[t]
    /\ ctl[c].at = "start" => /\ run[ctl[c].task] = ctl[c].epoch
                              /\ status[ctl[c].task] \in {"RUNNING", "CANCELLED"}

LEMMA WorkStays ==
    ASSUME WorkInv, UNCHANGED <<job, status, run>> PROVE WorkInv'
  BY DEF WorkInv

\* A task of which no worker is left moves on.
LEMMA WorkMoves ==
    ASSUME Inv, WorkInv, NEW t \in Task, NEW to, Commit(t, to), UNCHANGED job,
           \/ \A e \in Epoch : job[t][e] # "active"
           \/ run'[t] = run[t] /\ to \in {"RUNNING", "BLOCKED", "CANCELLED"},
           \A u \in Task \ {t} : run'[u] = run[u]
    PROVE  WorkInv'
<1>1. status'[t] = to /\ \A u \in Task \ {t} : status'[u] = status[u]
  BY DEF Inv, TypeOK, Commit
<1> QED
  BY <1>1 DEF WorkInv

\* A worker is started, or may have been.
LEMMA WorkBegins ==
    ASSUME Inv, WorkInv, NEW c \in Controller, KnowsRun(c), ctl[c].at = "start",
           UNCHANGED <<status, run>>,
           \/ UNCHANGED job
           \/ \E left : job' = [job EXCEPT ![ctl[c].task][ctl[c].epoch] = left]
    PROVE  WorkInv'
<1>1. CASE UNCHANGED job
  BY <1>1, WorkStays
<1>2. ASSUME NEW left, job' = [job EXCEPT ![ctl[c].task][ctl[c].epoch] = left] PROVE WorkInv'
  <2> DEFINE t == ctl[c].task
  <2>1. t \in Task /\ ctl[c].epoch \in Epoch /\ status[t] \in {"RUNNING", "CANCELLED"} /\ run[t] = ctl[c].epoch
    BY DEF Inv, CtlInv, KnowsRun
  <2>2. job \in [Task -> [Epoch -> JobStatus]]
    BY DEF Inv, TypeOK
  <2>3. \A u \in Task, e \in Epoch : <<u, e>> # <<t, ctl[c].epoch>> => job'[u][e] = job[u][e]
    BY <1>2, <2>1, <2>2
  <2> HIDE DEF t
  <2> QED
    BY <2>1, <2>3 DEF WorkInv
<1> QED
  BY <1>1, <1>2

LEMMA WorkCollect ==
    ASSUME Inv, WorkInv, NEW c \in Controller, KnowsRun(c), NEW t \in Task, Collect(c, t)
    PROVE  WorkInv'
<1> DEFINE to == Outcome(Polled(c, t))
<1>1. /\ Commit(t, to) /\ UNCHANGED <<job, run>> /\ Legal(t, to) /\ Polled(c, t) # "active"
      /\ At(c, "poll") /\ t \in ctl[c].todo
  BY DEF Collect
<1>2. to \in {"VALIDATING", "FAILED", "BLOCKED"}
  BY DEF Outcome
<1> HIDE DEF to
<1>3. status[t] \notin {"BLOCKED", "CANCELLED"}
  BY <1>1, <1>2 DEF Legal, ALLOWED_TRANSITIONS
<1>4. status[t] = "RUNNING" => session[c][t].run = run[t]
  BY <1>1 DEF KnowsRun, At
<1>5. \A e \in Epoch : job[t][e] # "active"
  BY <1>1, <1>3, <1>4 DEF Polled, WorkInv
<1> QED
  BY <1>1, <1>5, WorkMoves

LEMMA WorkClaim ==
    ASSUME Inv, WorkInv, NEW c \in Controller, Claim(c) PROVE WorkInv'
<1> DEFINE t == ctl[c].task
<1>1. /\ t \in Task /\ Legal(t, "RUNNING") /\ Commit(t, "RUNNING") /\ UNCHANGED job
      /\ run' = [run EXCEPT ![t] = ctl[c].epoch] /\ run \in [Task -> 0 .. MaxEpoch]
  BY DEF Claim, MayClaim, At, Inv, CtlInv, TypeOK
<1>2. status[t] = "READY"
  BY <1>1, EdgesFromDone DEF Legal
<1>3. \A e \in Epoch : job[t][e] # "active"
  BY <1>1, <1>2 DEF WorkInv
<1>4. \A u \in Task \ {t} : run'[u] = run[u]
  BY <1>1
<1> HIDE DEF t
<1> QED
  BY <1>1, <1>3, <1>4, WorkMoves

LEMMA WorkReport ==
    ASSUME Inv, WorkInv, NEW c \in Controller, ReportUncertain(c) PROVE WorkInv'
<1>1. ctl[c].task \in Task /\ UNCHANGED <<job, run>>
  BY DEF ReportUncertain, At, Inv, CtlInv
<1>2. UNCHANGED status \/ Commit(ctl[c].task, "BLOCKED")
  BY DEF ReportUncertain, Uncertain
<1> QED
  BY <1>1, <1>2, WorkStays, WorkMoves

\* People take up a BLOCKED task again only when no run of it is active; a RUNNING or CANCELLED one
\* is not theirs.
LEMMA WorkDecides ==
    ASSUME Inv, WorkInv, NEW t \in Task, NEW to, HumanDecides(t, to) PROVE WorkInv'
<1>1. Commit(t, to) /\ UNCHANGED <<job, run>> /\ status[t] \notin {"RUNNING", "CANCELLED"}
  BY HumanAssumption DEF HumanDecides, ALLOWED_TRANSITIONS
<1>2. \A e \in Epoch : job[t][e] # "active"
  BY <1>1 DEF HumanDecides, WorkInv
<1> QED
  BY <1>1, <1>2, WorkMoves

LEMMA WorkController ==
    ASSUME Inv, WorkInv, adapter = "contract", NEW c \in Controller, KnowsRun(c), ControllerStep(c)
    PROVE  WorkInv'
<1>0. ASSUME NEW t \in Task, Recover(c, t) PROVE FALSE
  BY <1>0 DEF Recover, MayRecover
<1>1. ASSUME NEW t \in Task, BlockDownstream(c, t) PROVE WorkInv'
  <2>1. UNCHANGED <<job, run>> /\ (UNCHANGED status \/ Commit(t, "BLOCKED"))
    BY <1>1 DEF BlockDownstream
  <2> QED
    BY <2>1, WorkStays, WorkMoves
<1>2. ASSUME StartTask(c) \/ StartTaskRaises(c) PROVE WorkInv'
  <2>1. /\ ctl[c].at = "start" /\ UNCHANGED <<status, run>>
        /\ \/ UNCHANGED job
           \/ \E left : job' = [job EXCEPT ![ctl[c].task][ctl[c].epoch] = left]
    BY <1>2 DEF StartTask, StartTaskRaises, At
  <2> QED
    BY <2>1, WorkBegins
<1>3. ASSUME NEW t \in Task, \/ Load(c, t) \/ InitializeRaises(c, t) \/ PollActive(c, t)
                             \/ CollectRaises(c, t) \/ BlockDownstreamRaises(c, t)
                             \/ ContextRefused(c, t) \/ Acquire(c, t) \/ AcquireRefused(c, t)
      PROVE WorkInv'
  BY <1>3, WorkStays DEF Load, InitializeRaises, PollActive, CollectRaises, BlockDownstreamRaises,
                         ContextRefused, Acquire, AcquireRefused, durable
<1>4. ASSUME \/ EndInitialize(c) \/ BeginStep(c) \/ ReleaseFinished(c) \/ EndPoll(c)
             \/ ClaimRaises(c) \/ EndDispatch(c)
      PROVE WorkInv'
  BY <1>4, WorkStays DEF EndInitialize, BeginStep, ReleaseFinished, EndPoll, ClaimRaises, EndDispatch, durable
<1> QED
  BY <1>0, <1>1, <1>2, <1>3, <1>4, WorkCollect, WorkClaim, WorkReport DEF ControllerStep

LEMMA WorkNext ==
    Inv /\ (\A c \in Controller : KnowsRun(c)) /\ WorkInv /\ adapter = "contract" /\ [Next]_vars => WorkInv'
<1> SUFFICES ASSUME Inv, \A c \in Controller : KnowsRun(c), WorkInv, adapter = "contract", [Next]_vars
             PROVE  WorkInv'
  OBVIOUS
<1>1. ASSUME NEW c \in Controller, Start(c) \/ Reinitialize(c) \/ Crash(c) PROVE WorkInv'
  BY <1>1, WorkStays DEF Start, Reinitialize, Crash, durable
<1>2. ASSUME NEW t \in Task, NEW e \in Epoch, JobEnds(t, e) PROVE WorkInv'
  <2>1. PICK result \in {"success", "failed", "blocked"} : job' = [job EXCEPT ![t][e] = result]
    BY <1>2 DEF JobEnds
  <2>2. job \in [Task -> [Epoch -> JobStatus]] /\ UNCHANGED <<status, run>>
    BY <1>2 DEF JobEnds, Inv, TypeOK
  <2>3. \A u \in Task, f \in Epoch : job'[u][f] = "active" => job[u][f] = "active"
    BY <2>1, <2>2
  <2> QED
    BY <2>2, <2>3 DEF WorkInv
<1>3. ASSUME NEW t \in Task, NEW to \in Status, HumanDecides(t, to) PROVE WorkInv'
  BY <1>3, WorkDecides
<1>4. CASE \/ CancelLookup \/ CancelKill \/ CancelRelease \/ CancelFails \/ UNCHANGED vars
           \/ \E t \in Task : CancelRead(t)
  BY <1>4, WorkStays DEF CancelRead, CancelLookup, CancelKill, CancelRelease, CancelFails, vars, durable
<1>5. CASE CancelCommit
  <2>1. status' = [status EXCEPT ![op.task] = "CANCELLED"] /\ UNCHANGED <<job, run>>
    BY <1>5 DEF CancelCommit
  <2>2. \A t \in Task : status'[t] \in {status[t], "CANCELLED"}
    BY <2>1 DEF Inv, TypeOK
  <2> QED
    BY <2>1, <2>2 DEF WorkInv
<1> QED
  BY <1>1, <1>2, <1>3, <1>4, <1>5, WorkController DEF Next

LEMMA MatchKnows == Inv /\ AllMatch => \A c \in Controller : KnowsRun(c)
<1> SUFFICES ASSUME Inv, AllMatch, NEW c \in Controller PROVE KnowsRun(c)
  OBVIOUS
<1>1. MatchInv(c) /\ CtlInv(c) /\ ctl[c].todo \subseteq Task
  BY CtlTypes DEF Inv, AllMatch, Control
<1> QED
  BY <1>1 DEF MatchInv, CtlInv, KnowsRun

-----------------------------------------------------------------------------
(* Workers under a controller that is the only one alive *)

\* c waits for a run of t that is at work, or that the ledger calls RUNNING.
AtWork(c, t) == Polled(c, t) = "active" \/ status[t] = "RUNNING"

\* Such a session is of the last run, and the scheduler does not offer its task.
LoneSessions(c) ==
    \A t \in Sessions(c) : /\ Alive(c) /\ Polled(c, t) # "none"
                           /\ AtWork(c, t) => session[c][t].run = run[t] /\ sched[c][t] # "READY"

\* An old session, left behind by a step that raised, is polled before anything is dispatched: either
\* its result is recorded and it is dropped, or the step raises again. So no task is dispatched of
\* which c has a session.
LonePlace(c) ==
    LET at == ctl[c].at
        task == ctl[c].task
    IN  /\ at # "idle" => Alive(c)
        /\ at \in {"poll", "closing"} =>
              /\ ctl[c].todo \subseteq Sessions(c)
              /\ \A t \in Sessions(c) \ (ctl[c].todo \cup ctl[c].finished) : sched[c][t] # "READY"
        /\ at \in {"dispatch", "claim", "start", "report"} => ctl[c].todo \cap Sessions(c) = {}
        /\ at \in {"claim", "start", "report"} => task \in ctl[c].todo /\ sched[c][task] # "READY"
        /\ at \in {"start", "report"} => runner[task] = c /\ status[task] \in {"RUNNING", "CANCELLED"}

LoneInv == \A c \in Controller : LoneSessions(c) /\ LonePlace(c)

\* c is the only one that can move.
Lonely(c) == \A k \in Controller \ {c} : ~Alive(k)

LEMMA LoneMoves ==
    ASSUME LoneInv, NEW c \in Controller, Lonely(c),
           \A k \in Controller \ {c} : /\ ctl'[k] = ctl[k] /\ up'[k] = up[k] /\ session'[k] = session[k],
           LoneSessions(c)', LonePlace(c)'
    PROVE  LoneInv'
<1> SUFFICES ASSUME NEW k \in Controller \ {c} PROVE LoneSessions(k)' /\ LonePlace(k)'
  BY DEF LoneInv
<1>1. LoneSessions(k) /\ LonePlace(k) /\ ~Alive(k)
  BY DEF LoneInv, Lonely
<1>2. Sessions(k) = {} /\ Sessions(k)' = {} /\ ctl[k].at = "idle" /\ ctl'[k] = ctl[k]
  BY <1>1 DEF LoneSessions, LonePlace, Sessions
<1> QED
  BY <1>2 DEF LoneSessions, LonePlace

\* Sessions end, runs end, tasks leave RUNNING, and nothing at work becomes READY in the scheduler.
LEMMA LoneSessionsStay ==
    ASSUME Inv, LoneInv, NEW c \in Controller, up'[c] = up[c],
           \A t \in Task : /\ session'[c][t] \in {session[c][t], None}
                           /\ \/ session'[c][t] = None
                              \/ /\ run'[t] = run[t] /\ (status'[t] = "RUNNING" => status[t] = "RUNNING")
                                 /\ \A e \in Epoch : /\ job[t][e] # "none" => job'[t][e] # "none"
                                                     /\ job'[t][e] = "active" => job[t][e] = "active"
                                 /\ sched'[c][t] = "READY" => sched[c][t] = "READY" \/ ~AtWork(c, t)
    PROVE  LoneSessions(c)'
<1> SUFFICES ASSUME NEW t \in Sessions(c)'
             PROVE  /\ Alive(c)' /\ Polled(c, t)' # "none"
                    /\ AtWork(c, t)' => session'[c][t].run = run'[t] /\ sched'[c][t] # "READY"
  BY DEF LoneSessions
<1>1. t \in Task /\ session'[c][t] = session[c][t] /\ session[c][t] # None
  BY DEF Sessions
<1>2. t \in Sessions(c) /\ session[c][t].run \in Epoch
  BY <1>1 DEF Sessions, Inv, TypeOK
<1>3. /\ Alive(c) /\ Polled(c, t) # "none"
      /\ AtWork(c, t) => session[c][t].run = run[t] /\ sched[c][t] # "READY"
  BY <1>2 DEF LoneInv, LoneSessions
<1>4. AtWork(c, t)' => AtWork(c, t)
  BY <1>1, <1>2 DEF AtWork, Polled
<1> QED
  BY <1>1, <1>2, <1>3, <1>4 DEF Polled, Alive

\* c goes on in its code.
LEMMA LoneGoes ==
    ASSUME Inv, LoneInv, NEW c \in Controller, Lonely(c),
           \A k \in Controller \ {c} : ctl'[k] = ctl[k],
           UNCHANGED <<status, run, job, up, sched, session>>, LonePlace(c)'
    PROVE  LoneInv'
  BY LoneSessionsStay, LoneMoves

LEMMA LoneRaises ==
    ASSUME Inv, LoneInv, NEW c \in Controller, Lonely(c), RaiseTo(c),
           UNCHANGED <<status, run, job, up, sched, session>>
    PROVE  LoneInv'
<1>1. ctl'[c] = NotRunningCode /\ NotRunningCode.at = "idle" /\ \A k \in Controller \ {c} : ctl'[k] = ctl[k]
  BY RaiseTypes, IdleType DEF Inv
<1>2. LonePlace(c)'
  BY <1>1 DEF LonePlace
<1> QED
  BY <1>1, <1>2, LoneGoes

LEMMA LoneDies ==
    ASSUME Inv, LoneInv, NEW c \in Controller, Lonely(c), Die(c)
    PROVE  LoneInv'
<1>1. /\ ctl'[c] = NotRunningCode /\ NotRunningCode.at = "idle"
      /\ \A k \in Controller \ {c} : ctl'[k] = ctl[k] /\ up'[k] = up[k] /\ session'[k] = session[k]
  BY DieTypes, IdleType DEF Inv
<1>2. Sessions(c)' = {}
  BY DEF Die, Inv, TypeOK, Sessions
<1>3. LonePlace(c)' /\ LoneSessions(c)'
  BY <1>1, <1>2 DEF LonePlace, LoneSessions
<1> QED
  BY <1>1, <1>3, LoneMoves

LEMMA LoneStarts ==
    ASSUME Inv, LoneInv, NEW c \in Controller, Lonely(c), Start(c)
    PROVE  LoneInv'
<1>1. /\ ~Alive(c) /\ up' = [up EXCEPT ![c] = "up"] /\ UNCHANGED session /\ TypeOK
      /\ ctl' = [ctl EXCEPT ![c] = [@ EXCEPT !.at = "initialize", !.todo = Task]] /\ ctl[c] \in Control
  BY CtlTypes DEF Start, Alive, Inv, memory
<1>2. /\ ctl'[c].at = "initialize" /\ up'[c] = "up"
      /\ \A k \in Controller \ {c} : ctl'[k] = ctl[k] /\ up'[k] = up[k] /\ session'[k] = session[k]
  BY <1>1 DEF TypeOK, Control
<1>3. Sessions(c)' = {}
  BY <1>1 DEF LoneInv, LoneSessions, Sessions
<1>4. LonePlace(c)' /\ LoneSessions(c)'
  BY <1>2, <1>3 DEF LonePlace, LoneSessions, Alive
<1> QED
  BY <1>2, <1>4, LoneMoves

\* From call to call, nothing recorded and nothing begun.
LEMMA LoneWaits ==
    ASSUME Inv, LoneInv, NEW c \in Controller, Lonely(c), Alive(c),
           \/ Reinitialize(c) \/ EndInitialize(c) \/ BeginStep(c) \/ ReleaseFinished(c)
           \/ \E t \in Task : PollActive(c, t) \/ AcquireRefused(c, t)
    PROVE  LoneInv'
<1>1. /\ UNCHANGED <<status, run, job, up, sched, session>> /\ LonePlace(c) /\ LoneSessions(c)
      /\ ctl[c] \in Control /\ ctl \in [Controller -> Control]
  BY CtlTypes DEF Reinitialize, EndInitialize, BeginStep, ReleaseFinished, PollActive, AcquireRefused,
                  durable, memory, Inv, TypeOK, Control, LoneInv
<1>2. ASSUME NEW r, ctl' = [ctl EXCEPT ![c] = r],
             \/ r.at \in {"idle", "initialize"}
             \/ r.at = "poll" /\ r.todo \subseteq Sessions(c)
                /\ \A t \in Sessions(c) \ (r.todo \cup r.finished) : sched[c][t] # "READY"
             \/ r.at = "dispatch" /\ r.todo \cap Sessions(c) = {}
      PROVE  LoneInv'
  <2>1. ctl'[c] = r /\ \A k \in Controller \ {c} : ctl'[k] = ctl[k]
    BY <1>1, <1>2
  <2>2. Sessions(c)' = Sessions(c) /\ Alive(c)'
    BY <1>1 DEF Sessions, Alive
  <2>3. LonePlace(c)'
    BY <1>1, <1>2, <2>1, <2>2 DEF LonePlace
  <2> QED
    BY <1>1, <2>1, <2>3, LoneGoes
<1>3. CASE Reinitialize(c)
  <2> DEFINE r == [ctl[c] EXCEPT !.at = "initialize", !.todo = Task]
  <2>1. ctl' = [ctl EXCEPT ![c] = r] /\ r.at = "initialize"
    BY <1>1, <1>3 DEF Reinitialize, Control
  <2> HIDE DEF r
  <2> QED
    BY <1>2, <2>1
<1>4. CASE EndInitialize(c)
  <2> DEFINE r == [ctl[c] EXCEPT !.at = "idle"]
  <2>1. ctl' = [ctl EXCEPT ![c] = r] /\ r.at = "idle"
    BY <1>1, <1>4 DEF EndInitialize, Control
  <2> HIDE DEF r
  <2> QED
    BY <1>2, <2>1
<1>5. CASE BeginStep(c)
  <2> DEFINE r == [ctl[c] EXCEPT !.at = "poll", !.todo = Sessions(c)]
  <2>1. ctl' = [ctl EXCEPT ![c] = r] /\ r.at = "poll" /\ r.todo = Sessions(c)
    BY <1>1, <1>5 DEF BeginStep, Control
  <2> HIDE DEF r
  <2> QED
    BY <1>2, <2>1
<1>6. CASE ReleaseFinished(c)
  <2> DEFINE t == ctl[c].task
             r == [NotRunningCode EXCEPT !.at = "poll", !.todo = ctl[c].todo \ {t},
                                         !.finished = ctl[c].finished \cup {t}]
  <2>1. /\ ctl' = [ctl EXCEPT ![c] = r] /\ r.at = "poll" /\ r.todo = ctl[c].todo \ {t}
        /\ r.finished = ctl[c].finished \cup {t} /\ ctl[c].at = "closing"
    BY <1>6 DEF ReleaseFinished, At, NotRunningCode
  <2>2. /\ ctl[c].todo \subseteq Sessions(c)
        /\ \A u \in Sessions(c) \ (ctl[c].todo \cup ctl[c].finished) : sched[c][u] # "READY"
    BY <1>1, <2>1 DEF LonePlace
  <2> HIDE DEF r
  <2> QED
    BY <1>2, <2>1, <2>2
<1>7. ASSUME NEW t \in Task, PollActive(c, t) PROVE LoneInv'
  <2> DEFINE r == [ctl[c] EXCEPT !.todo = @ \ {t}]
  <2>1. /\ ctl' = [ctl EXCEPT ![c] = r] /\ r.at = "poll" /\ r.todo = ctl[c].todo \ {t}
        /\ r.finished = ctl[c].finished /\ ctl[c].at = "poll" /\ t \in ctl[c].todo
    BY <1>1, <1>7 DEF PollActive, At, Control
  <2>2. /\ ctl[c].todo \subseteq Sessions(c)
        /\ \A u \in Sessions(c) \ (ctl[c].todo \cup ctl[c].finished) : sched[c][u] # "READY"
    BY <1>1, <2>1 DEF LonePlace
  <2>3. sched[c][t] # "READY"
    BY <1>1, <1>7, <2>1, <2>2 DEF LoneSessions, AtWork, PollActive
  <2> HIDE DEF r
  <2> QED
    BY <1>2, <2>1, <2>2, <2>3
<1>8. ASSUME NEW t \in Task, AcquireRefused(c, t) PROVE LoneInv'
  <2> DEFINE r == [ctl[c] EXCEPT !.todo = @ \ {t}]
  <2>1. /\ ctl' = [ctl EXCEPT ![c] = r] /\ r.at = "dispatch" /\ r.todo = ctl[c].todo \ {t}
        /\ ctl[c].at = "dispatch"
    BY <1>1, <1>8 DEF AcquireRefused, At, Control
  <2>2. ctl[c].todo \cap Sessions(c) = {}
    BY <1>1, <2>1 DEF LonePlace
  <2> HIDE DEF r
  <2> QED
    BY <1>2, <2>1, <2>2
<1> QED
  BY <1>3, <1>4, <1>5, <1>6, <1>7, <1>8

\* What update_task_status does to the scheduler: READY comes from the ledger only.
LEMMA ReadyIsLoaded ==
    ASSUME TypeOK, NEW c \in Controller, NEW t \in Task, NEW to, UpdateScheduler(c, t, to)
    PROVE  /\ \A k \in Controller \ {c} : sched'[k] = sched[k]
           /\ \A u \in Task : sched'[c][u] = "READY" => sched[c][u] = "READY" \/ (u = t /\ to = "READY")
<1>1. sched' = [sched EXCEPT ![c] = [x \in Task |-> IF x = t THEN to
                    ELSE IF to = "FAILED" /\ x \in Dependents[t] THEN "BLOCKED" ELSE sched[c][x]]]
  BY DEF UpdateScheduler
<1>2. DOMAIN sched = Controller
  BY DEF TypeOK
<1>3. sched'[c] = [x \in Task |-> IF x = t THEN to
                    ELSE IF to = "FAILED" /\ x \in Dependents[t] THEN "BLOCKED" ELSE sched[c][x]]
  BY <1>1, <1>2
<1> QED
  BY <1>1, <1>2, <1>3

LEMMA LoneLoads ==
    ASSUME Inv, LoneInv, WorkInv, NEW c \in Controller, Lonely(c), Alive(c), NEW t \in Task, Load(c, t)
    PROVE  LoneInv'
<1>1. /\ UNCHANGED <<status, run, runner, job, up, session>> /\ TypeOK /\ ctl[c].at = "initialize"
      /\ ctl[c] \in Control /\ ctl' = [ctl EXCEPT ![c].todo = @ \ {t}] /\ ctl \in [Controller -> Control]
  BY CtlTypes DEF Load, At, durable, Inv, TypeOK, Control
<1>2. ctl'[c].at = "initialize" /\ \A k \in Controller \ {c} : ctl'[k] = ctl[k]
  BY <1>1 DEF Control
<1>3. \A u \in Task : sched'[c][u] = "READY" => sched[c][u] = "READY" \/ (u = t /\ status[t] = "READY")
  BY <1>1, ReadyIsLoaded DEF Load
<1>4. session[c][t] # None /\ status[t] = "READY" => ~AtWork(c, t)
  <2>1. session[c][t] # None => session[c][t].run \in Epoch
    BY <1>1 DEF TypeOK
  <2> QED
    BY <2>1 DEF AtWork, Polled, WorkInv
<1>5. \A u \in Task : session[c][u] = None \/ (sched'[c][u] = "READY" => sched[c][u] = "READY" \/ ~AtWork(c, u))
  BY <1>3, <1>4
<1>6. LoneSessions(c)'
  BY <1>1, <1>5, LoneSessionsStay
<1>7. LonePlace(c)'
  BY <1>1, <1>2 DEF LonePlace, Alive
<1> QED
  BY <1>1, <1>2, <1>6, <1>7, LoneMoves

LEMMA LoneCollects ==
    ASSUME Inv, LoneInv, NEW c \in Controller, Lonely(c), NEW t \in Task,
           Collect(c, t) \/ BlockDownstream(c, t)
    PROVE  LoneInv'
<1>1. /\ UNCHANGED <<run, job, up, session>> /\ TypeOK /\ Alive(c) /\ ctl[c].at \in {"poll", "closing"}
      /\ ctl[c] \in Control /\ ctl \in [Controller -> Control]
  BY CtlTypes DEF Collect, BlockDownstream, At, memory, Inv, TypeOK, Control
<1>2. \A u \in Task : status'[u] = "RUNNING" => status[u] = "RUNNING"
  <2>1. UNCHANGED status \/ \E to : to # "RUNNING" /\ Commit(t, to)
    BY DEF Collect, BlockDownstream, Outcome
  <2> QED
    BY <1>1, <2>1 DEF Commit, TypeOK
<1>3. /\ \A k \in Controller \ {c} : sched'[k] = sched[k]
      /\ \A u \in Task : sched'[c][u] = "READY" => sched[c][u] = "READY"
  <2>1. UNCHANGED sched \/ \E to : to # "READY" /\ UpdateScheduler(c, t, to)
    BY DEF Collect, BlockDownstream, memory, Outcome
  <2> QED
    BY <1>1, <2>1, ReadyIsLoaded
<1>4. /\ ctl'[c].at \in {"poll", "closing"}
      /\ ctl'[c].todo \subseteq ctl[c].todo
      /\ ctl[c].todo \cup ctl[c].finished \subseteq ctl'[c].todo \cup ctl'[c].finished
      /\ \A k \in Controller \ {c} : ctl'[k] = ctl[k]
  <2>1. CASE Collect(c, t)
    <3>1. ASSUME ctl' = [ctl EXCEPT ![c] =
                     [@ EXCEPT !.todo = ctl[c].todo \ {t}, !.finished = ctl[c].finished \cup {t}]]
          PROVE  <1>4!:
      <4>1. /\ ctl'[c].at = ctl[c].at /\ ctl'[c].todo = ctl[c].todo \ {t}
            /\ ctl'[c].finished = ctl[c].finished \cup {t} /\ \A k \in Controller \ {c} : ctl'[k] = ctl[k]
        BY <1>1, <3>1 DEF Control
      <4> QED
        BY <1>1, <4>1
    <3>2. ASSUME NEW down,
                 ctl' = [ctl EXCEPT ![c] = [@ EXCEPT !.at = "closing", !.task = t, !.down = down]]
          PROVE  <1>4!:
      <4>1. /\ ctl'[c].at = "closing" /\ ctl'[c].todo = ctl[c].todo
            /\ ctl'[c].finished = ctl[c].finished /\ \A k \in Controller \ {c} : ctl'[k] = ctl[k]
        BY <1>1, <3>2 DEF Control
      <4> QED
        BY <4>1
    <3>3. CASE Outcome(Polled(c, t)) = "BLOCKED"
      BY <2>1, <3>1, <3>3 DEF Collect
    <3>4. CASE Outcome(Polled(c, t)) # "BLOCKED"
      BY <2>1, <3>2, <3>4 DEF Collect
    <3> QED
      BY <3>3, <3>4
  <2>2. CASE BlockDownstream(c, t)
    <3>1. ctl' = [ctl EXCEPT ![c].down = @ \ {t}]
      BY <2>2 DEF BlockDownstream
    <3>2. /\ ctl'[c].at = ctl[c].at /\ ctl'[c].todo = ctl[c].todo /\ ctl'[c].finished = ctl[c].finished
          /\ \A k \in Controller \ {c} : ctl'[k] = ctl[k]
      BY <1>1, <3>1 DEF Control
    <3> QED
      BY <1>1, <3>2
  <2> QED
    BY <2>1, <2>2
<1>5. /\ ctl[c].todo \subseteq Sessions(c)
      /\ \A u \in Sessions(c) \ (ctl[c].todo \cup ctl[c].finished) : sched[c][u] # "READY"
  BY <1>1 DEF LoneInv, LonePlace
<1>6. Sessions(c)' = Sessions(c) /\ Sessions(c) \subseteq Task /\ Alive(c)'
  BY <1>1 DEF Sessions, Alive
<1>7. LonePlace(c)'
  BY <1>3, <1>4, <1>5, <1>6 DEF LonePlace
<1>8. LoneSessions(c)'
  BY <1>1, <1>2, <1>3, LoneSessionsStay
<1> QED
  BY <1>1, <1>4, <1>7, <1>8, LoneMoves

\* What is left to wait for was active when it was polled, and is not offered again.
LEMMA LonePicks ==
    ASSUME Inv, LoneInv, NEW c \in Controller, Lonely(c), EndPoll(c)
    PROVE  LoneInv'
<1>1. /\ UNCHANGED <<status, run, job, up, sched>> /\ TypeOK /\ Alive(c) /\ ctl[c].at = "poll"
      /\ ctl[c].todo = {} /\ session' = [session EXCEPT ![c] = Remaining(c)] /\ DOMAIN ctl = Controller
  BY DEF EndPoll, At, durable, Inv, TypeOK
<1>2. PICK S \in DispatchableSets(c) :
         ctl' = [ctl EXCEPT ![c] = [NotRunningCode EXCEPT !.at = "dispatch", !.todo = S]]
  BY DEF EndPoll
<1>3. \A t \in S : sched[c][t] = "READY"
  BY DEF DispatchableSets
<1>4. /\ ctl'[c].at = "dispatch" /\ ctl'[c].todo = S /\ \A k \in Controller \ {c} : ctl'[k] = ctl[k]
  BY <1>1, <1>2 DEF NotRunningCode
<1>5. /\ \A k \in Controller \ {c} : session'[k] = session[k]
      /\ \A t \in Task : session'[c][t] = IF t \in ctl[c].finished THEN None ELSE session[c][t]
  BY <1>1 DEF Remaining, TypeOK
<1>6. \A t \in Sessions(c)' : t \in Sessions(c) \ ctl[c].finished
  BY <1>5 DEF Sessions
<1>7. \A t \in Sessions(c) \ ctl[c].finished : sched[c][t] # "READY"
  BY <1>1 DEF LoneInv, LonePlace
<1>8. S \cap Sessions(c)' = {}
  BY <1>3, <1>6, <1>7
<1>9. LonePlace(c)'
  BY <1>1, <1>4, <1>8 DEF LonePlace, Alive
<1>10. LoneSessions(c)'
  BY <1>1, <1>5, LoneSessionsStay
<1> QED
  BY <1>1, <1>4, <1>5, <1>9, <1>10, LoneMoves

LEMMA LoneAcquires ==
    ASSUME Inv, LoneInv, NEW c \in Controller, Lonely(c), NEW t \in Task, Acquire(c, t)
    PROVE  LoneInv'
<1>1. /\ UNCHANGED <<status, run, job, up, session>> /\ TypeOK /\ Alive(c) /\ ctl[c].at = "dispatch"
      /\ t \in ctl[c].todo /\ sched' = [sched EXCEPT ![c][t] = "RUNNING"]
      /\ ctl[c] \in Control /\ ctl \in [Controller -> Control]
  BY CtlTypes DEF Acquire, At, Inv, TypeOK, Control
<1>2. PICK e : ctl' = [ctl EXCEPT ![c] = [@ EXCEPT !.at = "claim", !.task = t, !.epoch = e]]
  BY DEF Acquire
<1>3. /\ ctl'[c].at = "claim" /\ ctl'[c].todo = ctl[c].todo /\ ctl'[c].task = t
      /\ \A k \in Controller \ {c} : ctl'[k] = ctl[k]
  BY <1>1, <1>2 DEF Control
<1>4. /\ \A k \in Controller \ {c} : sched'[k] = sched[k]
      /\ sched'[c][t] = "RUNNING" /\ \A u \in Task \ {t} : sched'[c][u] = sched[c][u]
  BY <1>1 DEF TypeOK
<1>5. Sessions(c)' = Sessions(c) /\ ctl[c].todo \cap Sessions(c) = {} /\ Alive(c)'
  BY <1>1 DEF Sessions, LoneInv, LonePlace, Alive
<1>6. LonePlace(c)'
  BY <1>1, <1>3, <1>4, <1>5 DEF LonePlace
<1>7. LoneSessions(c)'
  BY <1>1, <1>4, LoneSessionsStay
<1> QED
  BY <1>1, <1>3, <1>6, <1>7, LoneMoves

LEMMA LoneClaims ==
    ASSUME Inv, LoneInv, NEW c \in Controller, Lonely(c), Claim(c)
    PROVE  LoneInv'
<1> DEFINE t == ctl[c].task
<1>1. /\ UNCHANGED <<job, up, session, sched>> /\ TypeOK /\ Alive(c) /\ ctl[c].at = "claim" /\ t \in Task
      /\ Commit(t, "RUNNING") /\ run' = [run EXCEPT ![t] = ctl[c].epoch] /\ runner' = [runner EXCEPT ![t] = c]
      /\ ctl' = [ctl EXCEPT ![c].at = "start"] /\ ctl[c] \in Control /\ ctl \in [Controller -> Control]
  BY CtlTypes DEF Claim, At, memory, Inv, CtlInv, TypeOK, Control
<1>2. /\ ctl'[c].at = "start" /\ ctl'[c].todo = ctl[c].todo /\ ctl'[c].task = t
      /\ \A k \in Controller \ {c} : ctl'[k] = ctl[k]
  BY <1>1 DEF Control
<1>3. /\ status'[t] = "RUNNING" /\ runner'[t] = c
      /\ \A u \in Task \ {t} : status'[u] = status[u] /\ run'[u] = run[u]
  BY <1>1 DEF Commit, TypeOK
<1>4. ctl[c].todo \cap Sessions(c) = {} /\ t \in ctl[c].todo /\ sched[c][t] # "READY"
  BY <1>1 DEF LoneInv, LonePlace
<1>5. session'[c][t] = None
  BY <1>1, <1>4 DEF Sessions
<1>6. Sessions(c)' = Sessions(c) /\ Alive(c)'
  BY <1>1 DEF Sessions, Alive
<1> HIDE DEF t
<1>7. LonePlace(c)'
  BY <1>1, <1>2, <1>3, <1>4, <1>6 DEF LonePlace
<1>8. LoneSessions(c)'
  BY <1>1, <1>3, <1>5, LoneSessionsStay
<1> QED
  BY <1>1, <1>2, <1>7, <1>8, LoneMoves

LEMMA LoneBegins ==
    ASSUME Inv, LoneInv, NEW c \in Controller, Lonely(c), StartTask(c)
    PROVE  LoneInv'
<1>0. PICK t \in Task, e \in Epoch : t = ctl[c].task /\ e = ctl[c].epoch
  BY DEF StartTask, At, Inv, CtlInv
<1> DEFINE found == [run |-> e, epoch |-> e]
<1>1. /\ UNCHANGED <<status, run, runner, up, sched>> /\ TypeOK /\ Alive(c) /\ ctl[c].at = "start"
      /\ job' = [job EXCEPT ![t][e] = "active"]
      /\ session' = [session EXCEPT ![c][t] = found] /\ DOMAIN ctl = Controller
      /\ ctl' = [ctl EXCEPT ![c] = [NotRunningCode EXCEPT !.at = "dispatch", !.todo = ctl[c].todo \ {t}]]
  BY <1>0 DEF StartTask, At, Inv, TypeOK
<1>2. /\ ctl'[c].at = "dispatch" /\ ctl'[c].todo = ctl[c].todo \ {t}
      /\ \A k \in Controller \ {c} : ctl'[k] = ctl[k]
  BY <1>1 DEF NotRunningCode
<1>3. ctl[c].todo \cap Sessions(c) = {} /\ t \in ctl[c].todo /\ sched[c][t] # "READY" /\ runner[t] = c
  BY <1>0, <1>1 DEF LoneInv, LonePlace
<1>4. run[t] = e
  BY <1>0, <1>1, <1>3 DEF Inv, CtlInv
<1>5. /\ \A k \in Controller \ {c} : session'[k] = session[k]
      /\ session'[c][t] = found /\ \A u \in Task \ {t} : session'[c][u] = session[c][u]
      /\ job'[t][e] = "active" /\ \A u \in Task \ {t} : job'[u] = job[u]
  BY <1>1 DEF TypeOK
<1>6. found.run = e
  OBVIOUS
<1> HIDE DEF found
<1>7. Sessions(c)' \subseteq Sessions(c) \cup {t} /\ Alive(c)'
  BY <1>1, <1>5 DEF Sessions, Alive
<1>8. LonePlace(c)'
  BY <1>2, <1>3, <1>7 DEF LonePlace
<1>9. LoneSessions(c)'
  <2>1. Polled(c, t)' = "active"
    BY <1>5, <1>6 DEF Polled
  <2>2. ASSUME NEW u \in Sessions(c)', u # t
        PROVE  /\ Polled(c, u)' # "none"
               /\ AtWork(c, u)' => session'[c][u].run = run'[u] /\ sched'[c][u] # "READY"
    <3>1. u \in Sessions(c) /\ u \in Task \ {t}
      BY <1>7, <2>2 DEF Sessions
    <3>2. Polled(c, u)' = Polled(c, u) /\ (AtWork(c, u)' <=> AtWork(c, u))
      BY <1>1, <1>5, <3>1 DEF Polled, AtWork
    <3> QED
      BY <1>1, <1>5, <3>1, <3>2 DEF LoneInv, LoneSessions
  <2> QED
    BY <1>1, <1>3, <1>4, <1>5, <1>6, <1>7, <2>1, <2>2 DEF LoneSessions
<1> QED
  BY <1>1, <1>2, <1>5, <1>8, <1>9, LoneMoves

LEMMA LoneFails ==
    ASSUME Inv, LoneInv, NEW c \in Controller, Lonely(c), StartTaskRaises(c)
    PROVE  LoneInv'
<1> DEFINE t == ctl[c].task
<1>1. /\ UNCHANGED <<status, run, runner, up, sched, session>> /\ TypeOK /\ Alive(c) /\ ctl[c].at = "start"
      /\ t \in Task /\ ctl' = [ctl EXCEPT ![c].at = "report"]
      /\ ctl[c] \in Control /\ ctl \in [Controller -> Control]
  BY CtlTypes DEF StartTaskRaises, At, memory, Inv, CtlInv, TypeOK, Control
<1>2. /\ ctl'[c].at = "report" /\ ctl'[c].todo = ctl[c].todo /\ ctl'[c].task = t
      /\ \A k \in Controller \ {c} : ctl'[k] = ctl[k]
  BY <1>1 DEF Control
<1>3. /\ ctl[c].todo \cap Sessions(c) = {} /\ t \in ctl[c].todo /\ sched[c][t] # "READY"
      /\ runner[t] = c /\ status[t] \in {"RUNNING", "CANCELLED"}
  BY <1>1 DEF LoneInv, LonePlace
<1>4. \A u \in Task \ {t} : job'[u] = job[u]
  BY <1>1 DEF StartTaskRaises, TypeOK
<1>5. session'[c][t] = None /\ Sessions(c)' = Sessions(c) /\ Alive(c)'
  BY <1>1, <1>3 DEF Sessions, Alive
<1> HIDE DEF t
<1>6. LonePlace(c)'
  BY <1>1, <1>2, <1>3, <1>5 DEF LonePlace
<1>7. LoneSessions(c)'
  BY <1>1, <1>4, <1>5, LoneSessionsStay
<1> QED
  BY <1>1, <1>2, <1>6, <1>7, LoneMoves

LEMMA LoneReports ==
    ASSUME Inv, LoneInv, NEW c \in Controller, Lonely(c), ReportUncertain(c)
    PROVE  LoneInv'
<1> DEFINE t == ctl[c].task
<1>1. UNCHANGED <<run, job, up, session>> /\ TypeOK /\ t \in Task /\ RaiseTo(c)
  BY DEF ReportUncertain, At, Inv, CtlInv
<1>2. \/ UNCHANGED <<status, sched>>
      \/ Commit(t, "BLOCKED") /\ UpdateScheduler(c, t, "BLOCKED")
  BY DEF ReportUncertain, Uncertain
<1>3. \A u \in Task : status'[u] = "RUNNING" => status[u] = "RUNNING"
  BY <1>1, <1>2 DEF Commit, TypeOK
<1>4. \A u \in Task : sched'[c][u] = "READY" => sched[c][u] = "READY"
  BY <1>1, <1>2, ReadyIsLoaded
<1>5. ctl'[c] = NotRunningCode /\ NotRunningCode.at = "idle" /\ \A k \in Controller \ {c} : ctl'[k] = ctl[k]
  BY <1>1, RaiseTypes, IdleType
<1>6. LonePlace(c)'
  BY <1>5 DEF LonePlace
<1>7. LoneSessions(c)'
  BY <1>1, <1>3, <1>4, LoneSessionsStay
<1> QED
  BY <1>1, <1>5, <1>6, <1>7, LoneMoves

\* People, runs and the cancel command: they set no task RUNNING, and a RUNNING one only CANCELLED.
LEMMA LoneOthers ==
    ASSUME Inv, LoneInv, UNCHANGED <<ctl, up, session, sched, run, runner>>,
           \A t \in Task : /\ status'[t] = "RUNNING" => status[t] = "RUNNING"
                           /\ status[t] \in {"RUNNING", "CANCELLED"} => status'[t] \in {"RUNNING", "CANCELLED"}
                           /\ \A e \in Epoch : /\ job[t][e] # "none" => job'[t][e] # "none"
                                               /\ job'[t][e] = "active" => job[t][e] = "active"
    PROVE  LoneInv'
<1> SUFFICES ASSUME NEW c \in Controller PROVE LoneSessions(c)' /\ LonePlace(c)'
  BY DEF LoneInv
<1>1. LoneSessions(c)'
  BY LoneSessionsStay
<1>2. LonePlace(c) /\ Sessions(c)' = Sessions(c) /\ (Alive(c)' <=> Alive(c))
  BY DEF LoneInv, Sessions, Alive
<1>3. ctl[c].at \in {"start", "report"} => ctl[c].task \in Task
  BY DEF Inv, CtlInv
<1> QED
  BY <1>1, <1>2, <1>3 DEF LonePlace

LEMMA LoneController ==
    ASSUME Inv, LoneInv, WorkInv, adapter = "contract", NEW c \in Controller, Lonely(c), Alive(c),
           ControllerStep(c) \/ Reinitialize(c)
    PROVE  LoneInv'
<1>1. CASE \E t \in Task : InitializeRaises(c, t)
  BY <1>1, LoneDies DEF InitializeRaises
<1>2. CASE \/ ClaimRaises(c) \/ EndDispatch(c)
           \/ \E t \in Task : CollectRaises(c, t) \/ BlockDownstreamRaises(c, t) \/ ContextRefused(c, t)
  <2>1. RaiseTo(c) /\ UNCHANGED <<status, run, job, up, sched, session>>
    BY <1>2 DEF ClaimRaises, EndDispatch, CollectRaises, BlockDownstreamRaises, ContextRefused, durable, memory
  <2> QED
    BY <2>1, LoneRaises
<1>3. ASSUME NEW t \in Task, Recover(c, t) PROVE FALSE
  BY <1>3 DEF Recover, MayRecover
<1>4. ASSUME NEW t \in Task, Load(c, t) \/ Collect(c, t) \/ BlockDownstream(c, t) \/ Acquire(c, t)
      PROVE  LoneInv'
  BY <1>4, LoneLoads, LoneCollects, LoneAcquires
<1>5. CASE \/ Reinitialize(c) \/ EndInitialize(c) \/ BeginStep(c) \/ ReleaseFinished(c)
           \/ \E t \in Task : PollActive(c, t) \/ AcquireRefused(c, t)
  BY <1>5, LoneWaits
<1>6. CASE EndPoll(c) \/ Claim(c) \/ StartTask(c) \/ StartTaskRaises(c) \/ ReportUncertain(c)
  BY <1>6, LonePicks, LoneClaims, LoneBegins, LoneFails, LoneReports
<1> QED
  BY <1>1, <1>2, <1>3, <1>4, <1>5, <1>6 DEF ControllerStep

LEMMA LoneNext ==
    ASSUME MaxLive <= 1
    PROVE  Inv /\ ResourceInv /\ WorkInv /\ LoneInv /\ adapter = "contract" /\ [Next]_vars => LoneInv'
<1> SUFFICES ASSUME Inv, ResourceInv, WorkInv, LoneInv, adapter = "contract", [Next]_vars PROVE LoneInv'
  OBVIOUS
<1>1. ASSUME NEW c \in Controller, Alive(c) PROVE Lonely(c)
  BY <1>1 DEF ResourceInv, Lonely
<1>2. ASSUME NEW c \in Controller, ControllerStep(c) \/ Reinitialize(c) \/ Crash(c) PROVE LoneInv'
  <2>1. Alive(c)
    BY <1>2 DEF ControllerStep, Reinitialize, Crash, Load, Recover, InitializeRaises, PollActive, Collect,
                CollectRaises, BlockDownstream, BlockDownstreamRaises, ContextRefused, Acquire, AcquireRefused,
                EndInitialize, BeginStep, ReleaseFinished, EndPoll, Claim, ClaimRaises, StartTask,
                StartTaskRaises, ReportUncertain, EndDispatch, At
  <2> QED
    BY <1>1, <1>2, <2>1, LoneController, LoneDies DEF Crash
<1>3. ASSUME NEW c \in Controller, Start(c) PROVE LoneInv'
  BY <1>3, NobodyRuns, LoneStarts DEF Lonely
<1>4. CASE CancelKill
  <2>1. CASE Alive(op.pid)
    <3>1. op.pid \in Controller
      BY <1>4 DEF CancelKill, Inv, OpInv
    <3> QED
      BY <1>1, <1>4, <2>1, <3>1, LoneDies DEF CancelKill
  <2>2. CASE ~Alive(op.pid)
    BY <1>4, <2>2, LoneOthers DEF CancelKill, durable, memory
  <2> QED
    BY <2>1, <2>2
<1>5. ASSUME NEW t \in Task, NEW to \in Status, HumanDecides(t, to) PROVE LoneInv'
  <2>1. /\ to # "RUNNING" /\ status[t] \notin {"RUNNING", "CANCELLED"} /\ Commit(t, to)
        /\ UNCHANGED <<ctl, up, session, sched, run, runner, job>>
    BY <1>5, HumanAssumption DEF HumanDecides, memory, ALLOWED_TRANSITIONS
  <2>2. status'[t] = to /\ \A u \in Task \ {t} : status'[u] = status[u]
    BY <2>1 DEF Inv, TypeOK, Commit
  <2> QED
    BY <2>1, <2>2, LoneOthers
<1>6. ASSUME NEW t \in Task, NEW e \in Epoch, JobEnds(t, e) PROVE LoneInv'
  <2>1. PICK result \in {"success", "failed", "blocked"} : job' = [job EXCEPT ![t][e] = result]
    BY <1>6 DEF JobEnds
  <2>2. /\ job \in [Task -> [Epoch -> JobStatus]]
        /\ UNCHANGED <<ctl, up, session, sched, run, runner, status>>
    BY <1>6 DEF JobEnds, Inv, TypeOK, memory
  <2>3. \A u \in Task, f \in Epoch : /\ job[u][f] # "none" => job'[u][f] # "none"
                                     /\ job'[u][f] = "active" => job[u][f] = "active"
    BY <2>1, <2>2
  <2> QED
    BY <2>2, <2>3, LoneOthers
<1>7. CASE CancelCommit
  <2>1. /\ status' = [status EXCEPT ![op.task] = "CANCELLED"]
        /\ UNCHANGED <<ctl, up, session, sched, run, runner, job>>
    BY <1>7 DEF CancelCommit, memory
  <2>2. \A u \in Task : status'[u] \in {status[u], "CANCELLED"}
    BY <2>1 DEF Inv, TypeOK
  <2> QED
    BY <2>1, <2>2, LoneOthers
<1>8. CASE UNCHANGED vars \/ CancelLookup \/ CancelRelease \/ CancelFails \/ \E t \in Task : CancelRead(t)
  BY <1>8, LoneOthers DEF vars, durable, memory, CancelLookup, CancelRelease, CancelFails, CancelRead
<1> QED
  BY <1>2, <1>3, <1>4, <1>5, <1>6, <1>7, <1>8 DEF Next

LEMMA LoneKnows == Inv /\ LoneInv => \A c \in Controller : KnowsRun(c)
<1> SUFFICES ASSUME Inv, LoneInv, NEW c \in Controller PROVE KnowsRun(c)
  OBVIOUS
<1>1. LoneSessions(c) /\ LonePlace(c) /\ CtlInv(c)
  BY DEF Inv, LoneInv
<1>2. ctl[c].at = "poll" => \A t \in ctl[c].todo : t \in Sessions(c)
  BY <1>1 DEF LonePlace
<1> QED
  BY <1>1, <1>2 DEF LonePlace, LoneSessions, AtWork, CtlInv, KnowsRun

LEMMA OneIsAtWork == WorkInv => OneWorkerPerTask
<1> SUFFICES ASSUME WorkInv, NEW t \in Task
             PROVE  Cardinality({e \in Epoch : job[t][e] = "active"}) <= 1
  BY DEF OneWorkerPerTask
<1> DEFINE S == {e \in Epoch : job[t][e] = "active"}
<1>1. CASE S = {}
  BY <1>1, FS_EmptySet
<1>2. ASSUME NEW e \in S PROVE Cardinality(S) <= 1
  <2>1. S = {e}
    BY DEF WorkInv
  <2> HIDE DEF S
  <2>2. Cardinality(S) = 1
    BY <2>1, FS_Singleton
  <2> QED
    BY <2>2
<1> QED
  BY <1>1, <1>2

\* OneWorkerPerTask, whatever the adapter: two workers of a task are never at work at once, across
\* crashes, retries and starts with an unknown outcome, for any plan and any use of the cancel command
\* while one controller at a time is alive; and under any number of controllers where no failure can
\* block a dependent and nobody cancels. The container adapter's claim sees to it alone; under another
\* adapter it is that an old session is polled before its task is dispatched again.
THEOREM OneWorkerAtATime ==
    ASSUME MaxLive <= 1 \/ (~Cancels /\ \A t \in Task : Dependents[t] = {})
    PROVE  Spec => []OneWorkerPerTask
<1> DEFINE Match == AllMatch /\ op.at = "none"
           Knows == \A c \in Controller : KnowsRun(c)
<1>1. Init => Match /\ WorkInv /\ LoneInv
  <2>1. Init => Match /\ WorkInv
    BY DEF Init, AllMatch, MatchInv, Open, NotRunningCode, NoCancel, WorkInv
  <2>2. Init => LoneInv
    BY DEF Init, LoneInv, LoneSessions, LonePlace, Sessions, NotRunningCode
  <2> QED
    BY <2>1, <2>2
<1>2. adapter = "contract" /\ [Next]_vars => (adapter = "contract")'
  BY AdapterStays
<1>3. Inv /\ WorkInv /\ Knows /\ adapter = "contract" /\ [Next]_vars => WorkInv'
  BY WorkNext
<1>4. WorkInv => OneWorkerPerTask
  BY OneIsAtWork
<1>5. Init => adapter = "contract" \/ adapter = "container"
  BY SwitchAssumption DEF Init
<1>6. CASE MaxLive <= 1
  <2>1. Inv /\ ResourceInv /\ [Next]_vars => ResourceInv'
    BY <1>6, ResourceNext
  <2>2. Inv /\ ResourceInv /\ WorkInv /\ LoneInv /\ adapter = "contract" /\ [Next]_vars => LoneInv'
    BY <1>6, LoneNext
  <2>3. Inv /\ LoneInv => Knows
    BY LoneKnows
  <2> HIDE DEF Match, Knows
  <2>4. Spec /\ adapter = "contract" => []OneWorkerPerTask
    BY <1>1, <1>2, <1>3, <1>4, <2>1, <2>2, <2>3, ResourceInit, InvAlways, PTL DEF Spec
  <2> QED
    BY <1>5, <2>4, OneWorkerForEver, PTL DEF Spec
<1>7. CASE ~Cancels /\ \A t \in Task : Dependents[t] = {}
  <2>1. Inv /\ Match /\ adapter = "contract" /\ [Next]_vars => Match'
    BY <1>7, MatchNext
  <2>2. Inv /\ Match => Knows
    BY MatchKnows
  <2> HIDE DEF Match, Knows
  <2>3. Spec /\ adapter = "contract" => []OneWorkerPerTask
    BY <1>1, <1>2, <1>3, <1>4, <2>1, <2>2, InvAlways, PTL DEF Spec
  <2> QED
    BY <1>5, <2>3, OneWorkerForEver, PTL DEF Spec
<1> QED
  BY <1>6, <1>7

-----------------------------------------------------------------------------
(* What the loop asks of its adapter *)

\* Under an adapter that gives every start a new run, an epoch that was granted and not used yet
\* names no run.
UnusedInv ==
    adapter = "contract" =>
        /\ \A t \in Task, e \in Epoch : job[t][e] # "none" => e <= epochs[t]
        /\ \A c \in Controller : ctl[c].at \in {"claim", "start"} => job[ctl[c].task][ctl[c].epoch] = "none"

\* Nobody is granted anything.
GrantsStay ==
    \A c \in Controller : ctl'[c].at \in {"claim", "start"} =>
        /\ ctl[c].at \in {"claim", "start"}
        /\ ctl'[c].task = ctl[c].task /\ ctl'[c].epoch = ctl[c].epoch

\* The run of t under e is the only one that changes.
OneRun(t, e, answer) ==
    /\ \/ job[t][e] = "none" /\ answer \in {"active", "blocked"}
       \/ job[t][e] = "active" /\ answer \in {"success", "failed", "blocked"}
    /\ job' = [job EXCEPT ![t][e] = answer]

RunsGoOn == UNCHANGED job \/ \E t \in Task, e \in Epoch, answer \in JobStatus : OneRun(t, e, answer)

LEMMA UnusedStays ==
    ASSUME Inv, UnusedInv, GrantsStay, UNCHANGED <<adapter, job, epochs>>
    PROVE  UnusedInv'
<1>1. \A c \in Controller : ctl'[c].at \in {"claim", "start"} =>
         job'[ctl'[c].task][ctl'[c].epoch] = job[ctl[c].task][ctl[c].epoch]
  BY DEF GrantsStay
<1> QED
  BY <1>1 DEF UnusedInv, GrantsStay

\* An answer of a run that was begun changes.
LEMMA UnusedEnds ==
    ASSUME Inv, UnusedInv, GrantsStay, UNCHANGED <<adapter, epochs>>,
           NEW t \in Task, NEW e \in Epoch, NEW answer \in JobStatus, job[t][e] # "none",
           job' = [job EXCEPT ![t][e] = answer], answer # "none"
    PROVE  UnusedInv'
<1>1. \A u \in Task, f \in Epoch : /\ job'[u][f] # "none" => job[u][f] # "none"
                                   /\ job[u][f] = "none" => job'[u][f] = "none"
  BY DEF Inv, TypeOK
<1>2. \A c \in Controller : ctl[c].at \in {"claim", "start"} => ctl[c].task \in Task /\ ctl[c].epoch \in Epoch
  BY DEF Inv, CtlInv
<1> QED
  BY <1>1, <1>2 DEF UnusedInv, GrantsStay

\* c begins the run it was granted.
LEMMA UnusedBegins ==
    ASSUME Inv, ContractInv, UnusedInv, NEW c \in Controller, ctl[c].at = "start", UNCHANGED <<adapter, epochs>>,
           ctl'[c].at \notin {"claim", "start"}, \A k \in Controller \ {c} : ctl'[k] = ctl[k],
           NEW answer, job' = [job EXCEPT ![ctl[c].task][ctl[c].epoch] = answer]
    PROVE  UnusedInv'
<1> SUFFICES ASSUME adapter = "contract" PROVE UnusedInv'
  BY DEF UnusedInv
<1>1. PICK t \in Task, e \in Epoch : ctl[c].task = t /\ ctl[c].epoch = e
  BY DEF Inv, CtlInv
<1>2. Holds(c, t, e) /\ e <= epochs[t]
  BY <1>1 DEF Holds, ContractInv
<1>3. \A u \in Task, f \in Epoch : u # t \/ f # e => job'[u][f] = job[u][f]
  BY <1>1 DEF Inv, TypeOK
<1>4. \A u \in Task, f \in Epoch : job'[u][f] # "none" => f <= epochs'[u]
  BY <1>2, <1>3 DEF UnusedInv
<1>5. ASSUME NEW k \in Controller, ctl'[k].at \in {"claim", "start"}
      PROVE  job'[ctl'[k].task][ctl'[k].epoch] = "none"
  <2>1. k # c /\ ctl'[k] = ctl[k] /\ ctl[k].at \in {"claim", "start"}
    BY <1>5
  <2>2. PICK u \in Task, f \in Epoch : ctl[k].task = u /\ ctl[k].epoch = f
    BY <2>1 DEF Inv, CtlInv
  <2>3. Holds(k, u, f) /\ job[u][f] = "none"
    BY <2>1, <2>2 DEF Holds, UnusedInv
  <2>4. u # t \/ f # e
    BY <1>2, <2>1, <2>3 DEF ContractInv
  <2> QED
    BY <1>3, <2>1, <2>2, <2>3, <2>4
<1> QED
  BY <1>4, <1>5 DEF UnusedInv

\* A new epoch is one that names no run.
LEMMA UnusedAcquire ==
    ASSUME Inv, ContractInv, UnusedInv, NEW c \in Controller, NEW t \in Task, Acquire(c, t)
    PROVE  UnusedInv'
<1> SUFFICES ASSUME adapter = "contract" PROVE UnusedInv'
  BY DEF UnusedInv, Acquire
<1> DEFINE epoch == epochs[t] + 1
<1>0. /\ TypeOK /\ epochs[t] \in Nat /\ UNCHANGED <<adapter, job>>
      /\ lease[t] # None => lease[t].epoch = epochs[t]
  BY LimitAssumption DEF Inv, TypeOK, Acquire, ContractInv
<1>1. /\ TypeOK /\ epochs[t] \in Nat /\ UNCHANGED <<adapter, job>> /\ epoch <= MaxEpoch
      /\ epochs' = [epochs EXCEPT ![t] = epoch]
      /\ ctl' = [ctl EXCEPT ![c] = [@ EXCEPT !.at = "claim", !.task = t, !.epoch = epoch]]
  BY <1>0 DEF Acquire
<1>2. /\ ctl'[c].at = "claim" /\ ctl'[c].task = t /\ ctl'[c].epoch = epoch
      /\ \A k \in Controller \ {c} : ctl'[k] = ctl[k]
  BY <1>1 DEF TypeOK
<1>3. epoch \in Epoch
  BY <1>1, LimitAssumption DEF Epoch
<1>4. job[t][epoch] = "none"
  BY <1>1, <1>3 DEF UnusedInv
<1>5. ASSUME NEW u \in Task, NEW e \in Epoch, e <= epochs[u] PROVE e <= epochs'[u]
  <2>1. CASE u = t
    <3>1. e \in Nat /\ epochs'[u] = epochs[u] + 1
      BY <1>1, <2>1 DEF Epoch, TypeOK
    <3> QED
      BY <1>1, <1>5, <2>1, <3>1
  <2>2. CASE u # t
    BY <1>1, <1>5, <2>2 DEF TypeOK
  <2> QED
    BY <2>1, <2>2
<1> HIDE DEF epoch
<1> QED
  BY <1>1, <1>2, <1>4, <1>5 DEF UnusedInv

\* The run a start begins is new.
LEMMA StartsNew ==
    ASSUME Inv, UnusedInv, NEW c \in Controller, ctl[c].at = "start", MayRun(ctl[c].task)
    PROVE  /\ ctl[c].task \in Task /\ ctl[c].epoch \in Epoch
           /\ job[ctl[c].task][ctl[c].epoch] = "none"
<1>1. ctl[c].task \in Task /\ ctl[c].epoch \in Epoch /\ adapter \in {"container", "contract"}
  BY SwitchAssumption DEF Inv, CtlInv, TypeOK
<1> QED
  BY <1>1 DEF MayRun, UnusedInv

\* A start begins a run, or has not reached the adapter's own record.
LEMMA StartBegins ==
    ASSUME Inv, ContractInv, UnusedInv, NEW c \in Controller, StartTask(c) \/ StartTaskRaises(c)
    PROVE  UnusedInv' /\ RunsGoOn
<1>0. ctl[c].at = "start" /\ UNCHANGED <<adapter, epochs>> /\ TypeOK
  BY DEF StartTask, StartTaskRaises, At, Inv
<1>1. ctl'[c].at \notin {"claim", "start"} /\ \A k \in Controller \ {c} : ctl'[k] = ctl[k]
  <2>1. ctl \in [Controller -> Control] /\ ctl[c] \in Control
    BY <1>0, CtlTypes DEF TypeOK, Control
  <2>2. CASE StartTask(c)
    BY <2>1, <2>2 DEF StartTask, NotRunningCode, Control
  <2>3. CASE StartTaskRaises(c)
    BY <2>1, <2>3 DEF StartTaskRaises, Control
  <2> QED
    BY <2>2, <2>3
<1>2. CASE UNCHANGED job
  <2>1. GrantsStay
    BY <1>1 DEF GrantsStay
  <2> QED
    BY <1>0, <1>2, <2>1, UnusedStays DEF RunsGoOn
<1>3. ASSUME NEW answer \in {"active", "blocked"}, MayRun(ctl[c].task),
             job' = [job EXCEPT ![ctl[c].task][ctl[c].epoch] = answer]
      PROVE  UnusedInv' /\ RunsGoOn
  <2>1. UnusedInv'
    BY <1>0, <1>1, <1>3, UnusedBegins
  <2>2. ctl[c].task \in Task /\ ctl[c].epoch \in Epoch /\ job[ctl[c].task][ctl[c].epoch] = "none"
    BY <1>0, <1>3, StartsNew
  <2>3. answer \in JobStatus /\ OneRun(ctl[c].task, ctl[c].epoch, answer)
    <3>1. answer \in JobStatus
      BY DEF JobStatus
    <3> QED
      BY <1>3, <2>2, <3>1 DEF OneRun
  <2> QED
    BY <2>1, <2>2, <2>3 DEF RunsGoOn
<1> QED
  BY <1>2, <1>3 DEF StartTask, StartTaskRaises

LEMMA RecoveredRun ==
    ASSUME Inv, UnusedInv, NEW c \in Controller, NEW t \in Task, Recover(c, t)
    PROVE  UnusedInv' /\ RunsGoOn
<1>1. PICK e \in Epoch :
        /\ job[t][e] # "none"
        /\ job' = [job EXCEPT ![t][e] = IF @ = "active" THEN "blocked" ELSE @]
  BY DEF Recover, MayRecover
<1>2. UNCHANGED <<adapter, epochs>> /\ TypeOK /\ job \in [Task -> [Epoch -> JobStatus]]
  BY DEF Recover, Inv, TypeOK
<1>3. GrantsStay
  BY <1>2 DEF Recover, GrantsStay, TypeOK
<1>4. CASE job[t][e] = "active"
  <2>1. job' = [job EXCEPT ![t][e] = "blocked"] /\ "blocked" \in JobStatus
    BY <1>1, <1>2, <1>4 DEF JobStatus
  <2> QED
    BY <1>1, <1>2, <1>3, <1>4, <2>1, UnusedEnds DEF RunsGoOn, OneRun
<1>5. CASE job[t][e] # "active"
  <2>1. job' = job
    BY <1>1, <1>2, <1>5
  <2> QED
    BY <1>2, <1>3, <2>1, UnusedStays DEF RunsGoOn
<1> QED
  BY <1>4, <1>5

LEMMA EndedRun ==
    ASSUME Inv, UnusedInv, NEW t \in Task, NEW e \in Epoch, JobEnds(t, e)
    PROVE  UnusedInv' /\ RunsGoOn
<1>1. PICK answer \in {"success", "failed", "blocked"} : job' = [job EXCEPT ![t][e] = answer]
  BY DEF JobEnds
<1>2. answer \in JobStatus /\ OneRun(t, e, answer)
  BY <1>1 DEF JobStatus, OneRun, JobEnds
<1>3. UNCHANGED <<adapter, epochs>> /\ GrantsStay /\ job[t][e] # "none" /\ answer # "none"
  BY <1>1 DEF JobEnds, GrantsStay
<1> QED
  BY <1>1, <1>2, <1>3, UnusedEnds DEF RunsGoOn

LEMMA DieGrants ==
    ASSUME TypeOK, NEW c \in Controller, Die(c) PROVE GrantsStay
  BY DieTypes, IdleType DEF GrantsStay

LEMMA RaiseGrants ==
    ASSUME TypeOK, NEW c \in Controller, RaiseTo(c) PROVE GrantsStay
  BY RaiseTypes, IdleType DEF GrantsStay

\* The steps of a controller that leave the adapter alone.
LEMMA GrantsMove ==
    ASSUME TypeOK, NEW c \in Controller, NEW r, ctl' = [ctl EXCEPT ![c] = r],
           \/ r.at \notin {"claim", "start"}
           \/ ctl[c].at \in {"claim", "start"} /\ r.task = ctl[c].task /\ r.epoch = ctl[c].epoch
    PROVE  GrantsStay
  BY DEF GrantsStay, TypeOK

LEMMA QuietGrants ==
    ASSUME Inv, NEW c \in Controller,
           \/ \E t \in Task : Load(c, t) \/ PollActive(c, t) \/ AcquireRefused(c, t) \/ BlockDownstream(c, t)
           \/ \E t \in Task : Collect(c, t)
           \/ Start(c) \/ Reinitialize(c) \/ EndInitialize(c) \/ BeginStep(c)
           \/ ReleaseFinished(c) \/ EndPoll(c) \/ Claim(c)
    PROVE  GrantsStay /\ UNCHANGED <<adapter, job, epochs>>
<1>1. TypeOK /\ ctl[c] \in Control
  BY CtlTypes DEF Inv
<1>2. CASE Start(c) \/ Reinitialize(c) \/ EndInitialize(c) \/ BeginStep(c)
  BY <1>1, <1>2, GrantsMove DEF Start, Reinitialize, EndInitialize, BeginStep, Control, durable
<1>3. ASSUME NEW t \in Task, Load(c, t) \/ PollActive(c, t) \/ AcquireRefused(c, t) \/ BlockDownstream(c, t)
      PROVE  GrantsStay /\ UNCHANGED <<adapter, job, epochs>>
  BY <1>1, <1>3, GrantsMove DEF Load, PollActive, AcquireRefused, BlockDownstream, Control, durable, At
<1>4. ASSUME NEW t \in Task, Collect(c, t)
      PROVE  GrantsStay /\ UNCHANGED <<adapter, job, epochs>>
  <2>1. UNCHANGED <<adapter, job, epochs>>
    BY <1>4 DEF Collect
  <2>2. GrantsStay
    BY <1>1, <1>4, GrantsMove DEF Collect, Control, At
  <2> QED
    BY <2>1, <2>2
<1>5. CASE ReleaseFinished(c)
  <2>1. UNCHANGED <<adapter, job, epochs>>
    BY <1>5 DEF ReleaseFinished
  <2>2. PICK r \in {[NotRunningCode EXCEPT !.at = "poll", !.todo = ctl[c].todo \ {ctl[c].task},
                                            !.finished = ctl[c].finished \cup {ctl[c].task}]} :
           ctl' = [ctl EXCEPT ![c] = r]
    BY <1>5 DEF ReleaseFinished
  <2>3. r.at = "poll"
    BY <2>2 DEF NotRunningCode
  <2> QED
    BY <1>1, <2>1, <2>2, <2>3, GrantsMove
<1>6. CASE EndPoll(c)
  <2>1. UNCHANGED <<adapter, job, epochs>>
    BY <1>6 DEF EndPoll, durable
  <2>2. PICK S \in DispatchableSets(c) :
           ctl' = [ctl EXCEPT ![c] = [NotRunningCode EXCEPT !.at = "dispatch", !.todo = S]]
    BY <1>6 DEF EndPoll
  <2>3. [NotRunningCode EXCEPT !.at = "dispatch", !.todo = S].at = "dispatch"
    BY DEF NotRunningCode
  <2> QED
    BY <1>1, <2>1, <2>2, <2>3, GrantsMove
<1>7. CASE Claim(c)
  BY <1>1, <1>7, GrantsMove DEF Claim, Control, At
<1> QED
  BY <1>2, <1>3, <1>4, <1>5, <1>6, <1>7

LEMMA UnusedController ==
    ASSUME Inv, ContractInv, UnusedInv, NEW c \in Controller,
           Start(c) \/ Reinitialize(c) \/ ControllerStep(c) \/ Crash(c)
    PROVE  UnusedInv' /\ RunsGoOn
<1>1. ASSUME GrantsStay, UNCHANGED <<adapter, job, epochs>> PROVE UnusedInv' /\ RunsGoOn
  BY <1>1, UnusedStays DEF RunsGoOn
<1>2. ASSUME NEW t \in Task,
             \/ Load(c, t) \/ PollActive(c, t) \/ Collect(c, t) \/ BlockDownstream(c, t) \/ AcquireRefused(c, t)
      PROVE  UnusedInv' /\ RunsGoOn
  BY <1>1, <1>2, QuietGrants
<1>3. ASSUME NEW t \in Task, Recover(c, t) PROVE UnusedInv' /\ RunsGoOn
  BY <1>3, RecoveredRun
<1>4. ASSUME NEW t \in Task, Acquire(c, t) PROVE UnusedInv' /\ RunsGoOn
  BY <1>4, UnusedAcquire DEF Acquire, RunsGoOn
<1>5. CASE Crash(c) \/ \E t \in Task : InitializeRaises(c, t)
  BY <1>1, <1>5, DieGrants DEF Crash, InitializeRaises, durable, Inv
<1>6. CASE \/ ClaimRaises(c) \/ EndDispatch(c) \/ ReportUncertain(c)
           \/ \E t \in Task : CollectRaises(c, t) \/ BlockDownstreamRaises(c, t) \/ ContextRefused(c, t)
  <2>1. RaiseTo(c) /\ UNCHANGED <<adapter, job, epochs>>
    BY <1>6 DEF ClaimRaises, EndDispatch, ReportUncertain, CollectRaises, BlockDownstreamRaises, ContextRefused, durable
  <2> QED
    BY <1>1, <2>1, RaiseGrants DEF Inv
<1>7. CASE StartTask(c) \/ StartTaskRaises(c)
  BY <1>7, StartBegins
<1>8. CASE Start(c) \/ Reinitialize(c) \/ EndInitialize(c) \/ BeginStep(c) \/ ReleaseFinished(c)
           \/ EndPoll(c) \/ Claim(c)
  BY <1>1, <1>8, QuietGrants
<1> QED
  BY <1>2, <1>3, <1>4, <1>5, <1>6, <1>7, <1>8 DEF ControllerStep

LEMMA UnusedNext == Inv /\ ContractInv /\ UnusedInv /\ [Next]_vars => UnusedInv' /\ RunsGoOn
<1> SUFFICES ASSUME Inv, ContractInv, UnusedInv, [Next]_vars PROVE UnusedInv' /\ RunsGoOn
  OBVIOUS
<1>1. ASSUME GrantsStay, UNCHANGED <<adapter, job, epochs>> PROVE UnusedInv' /\ RunsGoOn
  BY <1>1, UnusedStays DEF RunsGoOn
<1>2. CASE CancelKill
  <2>1. op.pid \in Controller /\ TypeOK /\ UNCHANGED durable
    BY <1>2 DEF Inv, OpInv, CancelKill
  <2>2. GrantsStay
    BY <1>2, <2>1, DieGrants DEF CancelKill, GrantsStay
  <2> QED
    BY <1>1, <2>1, <2>2 DEF durable
<1>3. CASE \/ UNCHANGED vars \/ CancelLookup \/ CancelRelease \/ CancelCommit \/ CancelFails
           \/ \E t \in Task : CancelRead(t) \/ \E to \in Status : HumanDecides(t, to)
  <2>1. UNCHANGED <<adapter, job, epochs, ctl>>
    BY <1>3 DEF vars, durable, CancelLookup, CancelRelease, CancelCommit, CancelFails, CancelRead, HumanDecides
  <2> QED
    BY <1>1, <2>1 DEF GrantsStay
<1> QED
  BY <1>2, <1>3, UnusedController, EndedRun DEF Next

\* UsesRuns: whatever the adapter, the loop asks of it what TaskRuns promises and no more: each
\* epoch is granted once, so no run is begun over another, and no recovery changes the end of a run.
THEOREM LoopUsesRuns == Spec => UsesRuns
<1>1. Init => ContractInv /\ UnusedInv /\ Runs!Init
  BY DEF Init, ContractInv, UnusedInv, Holds, NotRunningCode, Runs!Init, Jobs
<1>2. Inv /\ RunsGoOn => [Runs!Next]_(Runs!answers)
  <2> SUFFICES ASSUME Inv, RunsGoOn PROVE Runs!Next \/ UNCHANGED Jobs
    BY DEF Runs!answers
  <2>1. CASE UNCHANGED job
    BY <2>1 DEF Jobs
  <2>2. ASSUME NEW t \in Task, NEW e \in Epoch, NEW answer \in JobStatus, OneRun(t, e, answer)
        PROVE  Runs!Next
    <3>1. Jobs[<<t, e>>] = job[t][e] /\ <<t, e>> \in Task \X Epoch
      BY DEF Jobs
    <3>2. \A u \in Task, f \in Epoch : job'[u][f] = IF u = t /\ f = e THEN answer ELSE job[u][f]
      BY <2>2 DEF OneRun, Inv, TypeOK
    <3>3. Jobs' = [Jobs EXCEPT ![<<t, e>>] = answer]
      <4>1. Jobs' = [r \in Task \X Epoch |-> IF r = <<t, e>> THEN answer ELSE Jobs[r]]
        <5>1. Jobs' = [r \in Task \X Epoch |-> job'[r[1]][r[2]]]
          BY DEF Jobs
        <5>2. ASSUME NEW r \in Task \X Epoch
              PROVE  job'[r[1]][r[2]] = IF r = <<t, e>> THEN answer ELSE Jobs[r]
          BY <3>2 DEF Jobs
        <5> QED
          BY <5>1, <5>2
      <4>2. Jobs = [r \in Task \X Epoch |-> Jobs[r]]
        BY DEF Jobs
      <4> QED
        BY <4>1, <4>2
    <3>4. Runs!Begin(<<t, e>>) \/ Runs!End(<<t, e>>)
      BY <2>2, <3>1, <3>3 DEF OneRun, Runs!Begin, Runs!End, Runs!Ends
    <3> QED
      BY <3>1, <3>4 DEF Runs!Next
  <2> QED
    BY <2>1, <2>2 DEF RunsGoOn
<1>3. Inv /\ ContractInv /\ UnusedInv /\ [Next]_vars => UnusedInv' /\ RunsGoOn
  BY UnusedNext
<1> QED
  BY <1>1, <1>2, <1>3, ContractNext, InvInit, InvNext, PTL DEF Spec, UsesRuns, Runs!Spec
-----------------------------------------------------------------------------
(* The lease of a task that runs *)

\* Nobody gets at the lease of a task that the ledger calls RUNNING.
LeasesAreKept == \A t \in Task : status[t] = "RUNNING" => lease[t] # None /\ lease[t].epoch = run[t]

\* A controller that is the only one alive knows the lease it was granted, and neither releases nor
\* asks for the lease of a RUNNING task.
SoloInv(c) ==
    /\ ctl[c].at # "idle" => Alive(c)
    /\ ctl[c].at = "claim" => lease[ctl[c].task] # None /\ lease[ctl[c].task].epoch = ctl[c].epoch
    /\ ctl[c].at = "closing" => status[ctl[c].task] # "RUNNING"
    /\ \A t \in Planned(c) : status[t] = "RUNNING" => ctl[c].at # "dispatch" /\ t = ctl[c].task

AllSolo == LeasesAreKept /\ \A c \in Controller : SoloInv(c)

\* Only one controller has anything to keep to.
LEMMA SoloMoves ==
    ASSUME AllSolo, NEW c \in Controller, \A k \in Controller \ {c} : ~Alive(k),
           \A k \in Controller \ {c} : /\ ctl'[k] = ctl[k] /\ up'[k] = up[k]
                                       /\ session'[k] = session[k],
           LeasesAreKept', SoloInv(c)'
    PROVE  AllSolo'
<1> SUFFICES ASSUME NEW k \in Controller \ {c} PROVE SoloInv(k)'
  BY DEF AllSolo
<1>1. SoloInv(k) /\ ctl[k].at = "idle" /\ ctl'[k] = ctl[k] /\ session'[k] = session[k]
  BY DEF AllSolo, SoloInv
<1> QED
  BY <1>1 DEF SoloInv, Planned

\* The leases stay, and no task becomes RUNNING.
LEMMA LeasesStay ==
    ASSUME AllSolo, UNCHANGED <<lease, run>>, Running' \subseteq Running
    PROVE  LeasesAreKept'
  BY DEF AllSolo, LeasesAreKept, Running

LEMMA SoloOthers ==
    ASSUME Inv, AllSolo, UNCHANGED <<lease, run, ctl, up, session>>, Running' \subseteq Running
    PROVE  AllSolo'
<1> SUFFICES ASSUME NEW c \in Controller PROVE SoloInv(c)'
  BY LeasesStay DEF AllSolo
<1>1. SoloInv(c) /\ ctl[c].todo \subseteq Task /\ Planned(c) \subseteq Task
  BY CtlTypes DEF Inv, AllSolo, Control, Planned
<1>2. \A t \in Task : status'[t] = "RUNNING" => status[t] = "RUNNING"
  BY DEF Running
<1>3. Planned(c)' = Planned(c) /\ ctl'[c] = ctl[c]
  BY DEF Planned
<1>4. ctl[c].at = "closing" => ctl[c].task \in Task
  BY DEF Inv, CtlInv
<1> QED
  BY <1>1, <1>2, <1>3, <1>4 DEF SoloInv, Alive

\* A controller goes on in its code at a place where it has picked nothing.
LEMMA SoloGoes ==
    ASSUME AllSolo, NEW c \in Controller, \A k \in Controller \ {c} : ~Alive(k),
           NEW r, ctl' = [ctl EXCEPT ![c] = r], DOMAIN ctl = Controller,
           \A k \in Controller \ {c} : up'[k] = up[k],
           r.at \in {"idle", "initialize", "poll"}, up'[c] = "up",
           UNCHANGED <<lease, run, session>>, Running' \subseteq Running
    PROVE  AllSolo'
<1>1. ctl'[c] = r /\ \A k \in Controller \ {c} : ctl'[k] = ctl[k]
  OBVIOUS
<1>2. Planned(c)' = {}
  BY <1>1 DEF Planned
<1>3. SoloInv(c)'
  BY <1>1, <1>2 DEF SoloInv, Alive
<1> QED
  BY <1>1, <1>3, LeasesStay, SoloMoves

LEMMA SoloRaises ==
    ASSUME Inv, AllSolo, NEW c \in Controller, \A k \in Controller \ {c} : ~Alive(k), Alive(c), RaiseTo(c),
           UNCHANGED <<lease, run, session, up>>, Running' \subseteq Running
    PROVE  AllSolo'
<1>1. ctl' = [ctl EXCEPT ![c] = NotRunningCode] /\ DOMAIN ctl = Controller
  BY DEF RaiseTo, Inv, TypeOK
<1> QED
  BY <1>1, IdlePlanned, SoloGoes DEF Alive

LEMMA SoloDies ==
    ASSUME Inv, AllSolo, NEW c \in Controller, \A k \in Controller \ {c} : ~Alive(k), Die(c),
           UNCHANGED <<lease, run, status>>
    PROVE  AllSolo'
<1>1. /\ ctl'[c] = NotRunningCode
      /\ \A k \in Controller \ {c} : ctl'[k] = ctl[k] /\ up'[k] = up[k] /\ session'[k] = session[k]
  BY DieTypes DEF Inv
<1>2. \A t \in Task : session'[c][t] = None
  BY DEF Die, Inv, TypeOK
<1>3. SoloInv(c)'
  BY <1>1, <1>2, IdlePlanned DEF SoloInv, Planned
<1> QED
  BY <1>1, <1>3, LeasesStay, SoloMoves DEF Running

LEMMA SoloWaits ==
    ASSUME Inv, AllSolo, NEW c \in Controller, \A k \in Controller \ {c} : ~Alive(k),
           \/ Start(c) \/ Reinitialize(c) \/ EndInitialize(c) \/ BeginStep(c)
           \/ \E t \in Task : Load(c, t) \/ PollActive(c, t)
    PROVE  AllSolo'
<1>1. ctl[c] \in Control /\ DOMAIN ctl = Controller /\ TypeOK
  BY CtlTypes DEF Inv, TypeOK
<1>2. UNCHANGED <<lease, run, session, status>> /\ Running' \subseteq Running
  BY DEF Start, Reinitialize, EndInitialize, BeginStep, Load, PollActive, durable, memory, Running
<1>3. up'[c] = "up" /\ \A k \in Controller \ {c} : up'[k] = up[k]
  BY <1>1 DEF Start, Reinitialize, EndInitialize, BeginStep, Load, PollActive, At, Alive, TypeOK
<1>4. CASE Start(c) \/ Reinitialize(c)
  BY <1>1, <1>2, <1>3, <1>4, SoloGoes DEF Start, Reinitialize, Control
<1>5. CASE EndInitialize(c) \/ BeginStep(c)
  BY <1>1, <1>2, <1>3, <1>5, SoloGoes DEF EndInitialize, BeginStep, Control
<1>6. ASSUME NEW t \in Task, Load(c, t) \/ PollActive(c, t) PROVE AllSolo'
  BY <1>1, <1>2, <1>3, <1>6, SoloGoes DEF Load, PollActive, Control, At
<1> QED
  BY <1>4, <1>5, <1>6

LEMMA SoloRecovers ==
    ASSUME Inv, AllSolo, NEW c \in Controller, \A k \in Controller \ {c} : ~Alive(k),
           NEW t \in Task, Recover(c, t)
    PROVE  AllSolo'
<1>1. ctl[c] \in Control /\ TypeOK
  BY CtlTypes DEF Inv
<1>2. /\ UNCHANGED <<lease, run, up, status>> /\ ctl[c].at = "initialize" /\ up[c] = "up"
      /\ ctl' = [ctl EXCEPT ![c] = [ctl[c] EXCEPT !.todo = ctl[c].todo \ {t}]]
      /\ \E e \in Epoch : session' = [session EXCEPT ![c][t] = [run |-> e, epoch |-> lease[t].epoch]]
  BY DEF Recover, At, Alive
<1>3. ctl'[c].at = "initialize" /\ \A k \in Controller \ {c} : ctl'[k] = ctl[k]
  BY <1>1, <1>2 DEF TypeOK, Control
<1>4. \A k \in Controller \ {c} : session'[k] = session[k]
  BY <1>1, <1>2 DEF TypeOK
<1>5. Planned(c)' = {}
  BY <1>3 DEF Planned
<1>6. SoloInv(c)'
  BY <1>2, <1>3, <1>5 DEF SoloInv, Alive
<1>7. LeasesAreKept'
  BY <1>2, LeasesStay DEF Running
<1> QED
  BY <1>2, <1>3, <1>4, <1>6, <1>7, SoloMoves

\* The end of a run: from now on the ledger does not call the task RUNNING.
LEMMA SoloCollects ==
    ASSUME Inv, AllSolo, NEW c \in Controller, \A k \in Controller \ {c} : ~Alive(k),
           NEW t \in Task, Collect(c, t) \/ BlockDownstream(c, t)
    PROVE  AllSolo'
<1>1. TypeOK /\ ctl[c] \in Control /\ DOMAIN ctl = Controller /\ SoloInv(c)
  BY CtlTypes DEF Inv, TypeOK, AllSolo
<1>2. UNCHANGED <<lease, run, session, up>> /\ up[c] = "up"
  BY DEF Collect, BlockDownstream, At, Alive, memory
<1>3. CASE Collect(c, t)
  <2> DEFINE to == Outcome(Polled(c, t))
             done == [ctl[c] EXCEPT !.todo = ctl[c].todo \ {t}, !.finished = ctl[c].finished \cup {t}]
             closing == [ctl[c] EXCEPT !.at = "closing", !.task = t,
                                       !.down = IF to = "FAILED" THEN Dependents[t] ELSE {}]
  <2>1. Commit(t, to) /\ to # "RUNNING" /\ ctl[c].at = "poll"
    BY <1>3 DEF Collect, Outcome, At
  <2>2. status'[t] # "RUNNING" /\ Running' \subseteq Running
    BY <1>1, <2>1 DEF Commit, TypeOK, Running
  <2>3. CASE ctl' = [ctl EXCEPT ![c] = done]
    <3>1. done.at = "poll"
      BY <1>1, <2>1 DEF Control
    <3> HIDE DEF done
    <3> QED
      BY <1>1, <1>2, <2>2, <2>3, <3>1, SoloGoes
  <2>4. CASE ctl' = [ctl EXCEPT ![c] = closing]
    <3>1. closing.at = "closing" /\ closing.task = t
      BY <1>1 DEF Control
    <3> HIDE DEF closing
    <3>2. /\ ctl'[c].at = "closing" /\ ctl'[c].task = t
          /\ \A k \in Controller \ {c} : ctl'[k] = ctl[k]
      BY <1>1, <2>4, <3>1
    <3>3. SoloInv(c)'
      BY <1>1, <1>2, <2>2, <3>2 DEF SoloInv, Planned, Alive
    <3> QED
      BY <1>2, <2>2, <3>2, <3>3, LeasesStay, SoloMoves
  <2>5. ctl' = [ctl EXCEPT ![c] = done] \/ ctl' = [ctl EXCEPT ![c] = closing]
    <3>1. CASE to = "BLOCKED"
      BY <1>3, <3>1 DEF Collect
    <3>2. CASE to # "BLOCKED"
      BY <1>3, <3>2 DEF Collect
    <3> QED
      BY <3>1, <3>2
  <2> QED
    BY <2>3, <2>4, <2>5
<1>4. CASE BlockDownstream(c, t)
  <2>1. UNCHANGED status \/ Commit(t, "BLOCKED")
    BY <1>4 DEF BlockDownstream
  <2>2. Running' \subseteq Running
    BY <1>1, <2>1 DEF Commit, TypeOK, Running
  <2>3. ctl[c].at = "closing" /\ ctl' = [ctl EXCEPT ![c] = [ctl[c] EXCEPT !.down = ctl[c].down \ {t}]]
    BY <1>4 DEF BlockDownstream, At
  <2>4. /\ ctl'[c].at = "closing" /\ ctl'[c].task = ctl[c].task /\ ctl[c].task \in Task
        /\ \A k \in Controller \ {c} : ctl'[k] = ctl[k]
    BY <1>1, <2>3 DEF Control, Inv, CtlInv
  <2>5. SoloInv(c)'
    BY <1>1, <1>2, <2>2, <2>3, <2>4 DEF SoloInv, Planned, Alive, Running
  <2> QED
    BY <1>2, <2>2, <2>4, <2>5, LeasesStay, SoloMoves
<1> QED
  BY <1>3, <1>4

\* The lease that is released is of a task that is not RUNNING.
LEMMA SoloReleases ==
    ASSUME Inv, AllSolo, NEW c \in Controller, \A k \in Controller \ {c} : ~Alive(k), ReleaseFinished(c)
    PROVE  AllSolo'
<1> DEFINE t == ctl[c].task
           next == [NotRunningCode EXCEPT !.at = "poll", !.todo = ctl[c].todo \ {t},
                                          !.finished = ctl[c].finished \cup {t}]
<1>1. /\ TypeOK /\ SoloInv(c) /\ t \in Task /\ status[t] # "RUNNING" /\ up[c] = "up"
      /\ UNCHANGED <<status, run, session, up>>
  BY DEF Inv, AllSolo, ReleaseFinished, At, Alive, SoloInv, CtlInv, memory
<1>2. \A u \in Task \ {t} : lease'[u] = lease[u]
  BY <1>1 DEF ReleaseFinished, Released, TypeOK
<1>3. LeasesAreKept'
  BY <1>1, <1>2 DEF LeasesAreKept, AllSolo
<1>4. ctl' = [ctl EXCEPT ![c] = next] /\ DOMAIN ctl = Controller
  BY <1>1 DEF ReleaseFinished, TypeOK
<1>5. next.at = "poll"
  BY DEF NotRunningCode
<1> HIDE DEF next
<1>6. ctl'[c].at = "poll" /\ \A k \in Controller \ {c} : ctl'[k] = ctl[k]
  BY <1>4, <1>5
<1>7. SoloInv(c)'
  BY <1>1, <1>6 DEF SoloInv, Planned, Alive
<1> QED
  BY <1>1, <1>3, <1>6, <1>7, SoloMoves

\* What is picked is not counted, and all that is RUNNING is.
LEMMA SoloPicks ==
    ASSUME Inv, ResourceInv, AllSolo, NEW c \in Controller, \A k \in Controller \ {c} : ~Alive(k), EndPoll(c)
    PROVE  AllSolo'
<1>1. /\ TypeOK /\ SoloInv(c) /\ DOMAIN ctl = Controller /\ up[c] = "up" /\ ctl[c].at = "poll"
      /\ UNCHANGED <<status, run, lease, up>> /\ Running \subseteq Task
  BY DEF Inv, AllSolo, EndPoll, At, Alive, TypeOK, durable, Running
<1>2. Running \subseteq active[c]
  BY <1>1 DEF ResourceInv, SlotInv, Unseen, Alive
<1>3. PICK S \in DispatchableSets(c) :
         ctl' = [ctl EXCEPT ![c] = [NotRunningCode EXCEPT !.at = "dispatch", !.todo = S]]
  BY DEF EndPoll
<1>4. S \cap active[c] = {}
  BY DEF DispatchableSets
<1>5. /\ [NotRunningCode EXCEPT !.at = "dispatch", !.todo = S].at = "dispatch"
      /\ [NotRunningCode EXCEPT !.at = "dispatch", !.todo = S].todo = S
  BY DEF NotRunningCode
<1>6. /\ ctl'[c].at = "dispatch" /\ ctl'[c].todo = S
      /\ \A k \in Controller \ {c} : ctl'[k] = ctl[k]
  BY <1>1, <1>3, <1>5
<1>7. /\ \A t \in Task : session'[c][t] \in {session[c][t], None}
      /\ \A k \in Controller \ {c} : session'[k] = session[k]
  BY <1>1 DEF EndPoll, Remaining, TypeOK
<1>8. Planned(c)' = S /\ S \subseteq Task
  BY <1>6 DEF Planned, DispatchableSets
<1>9. \A t \in Planned(c)' : status'[t] # "RUNNING"
  BY <1>1, <1>2, <1>4, <1>8 DEF Running
<1>10. SoloInv(c)'
  BY <1>1, <1>6, <1>7, <1>9 DEF SoloInv, Alive
<1> QED
  BY <1>1, <1>6, <1>7, <1>10, LeasesStay, SoloMoves DEF Running

\* A lease is asked for a task that is not RUNNING.
LEMMA SoloAcquires ==
    ASSUME Inv, AllSolo, NEW c \in Controller, \A k \in Controller \ {c} : ~Alive(k),
           NEW t \in Task, Acquire(c, t) \/ AcquireRefused(c, t)
    PROVE  AllSolo'
<1>1. /\ TypeOK /\ ctl[c] \in Control /\ SoloInv(c) /\ up[c] = "up"
      /\ UNCHANGED <<status, run, session, up>> /\ ctl[c].at = "dispatch" /\ t \in ctl[c].todo
  BY CtlTypes DEF Inv, AllSolo, Acquire, AcquireRefused, At, Alive, durable, memory
<1>2. /\ Planned(c) = ctl[c].todo /\ ctl[c].todo \subseteq Task
      /\ \A u \in ctl[c].todo : status[u] # "RUNNING"
  BY <1>1 DEF Planned, SoloInv, Control
<1>3. CASE Acquire(c, t)
  <2>1. PICK e : /\ lease' = [lease EXCEPT ![t] = [epoch |-> e, pid |-> c]]
                 /\ ctl' = [ctl EXCEPT ![c] = [ctl[c] EXCEPT !.at = "claim", !.task = t, !.epoch = e]]
                 /\ e = IF lease[t] # None THEN lease[t].epoch + 1 ELSE epochs[t] + 1
                 /\ e <= MaxEpoch
    BY <1>3 DEF Acquire
  <2>2. e \in Epoch
    BY <1>1, <2>1, LimitAssumption DEF TypeOK, Epoch
  <2>3. [epoch |-> e, pid |-> c] # None
    BY <2>2, NoneAssumption
  <2>4. /\ lease'[t] = [epoch |-> e, pid |-> c] /\ \A u \in Task \ {t} : lease'[u] = lease[u]
        /\ ctl'[c].at = "claim" /\ ctl'[c].task = t /\ ctl'[c].epoch = e /\ ctl'[c].todo = ctl[c].todo
        /\ \A k \in Controller \ {c} : ctl'[k] = ctl[k]
    BY <1>1, <2>1 DEF TypeOK, Control
  <2>5. LeasesAreKept'
    BY <1>1, <1>2, <2>4 DEF LeasesAreKept, AllSolo
  <2>6. Planned(c)' = ctl[c].todo
    BY <2>4 DEF Planned
  <2>7. SoloInv(c)'
    BY <1>1, <1>2, <2>3, <2>4, <2>6 DEF SoloInv, Alive
  <2> QED
    BY <1>1, <2>4, <2>5, <2>7, SoloMoves
<1>4. CASE AcquireRefused(c, t)
  <2>1. ctl' = [ctl EXCEPT ![c] = [ctl[c] EXCEPT !.todo = ctl[c].todo \ {t}]] /\ UNCHANGED lease
    BY <1>4 DEF AcquireRefused, durable
  <2>2. /\ ctl'[c].at = "dispatch" /\ ctl'[c].todo = ctl[c].todo \ {t}
        /\ \A k \in Controller \ {c} : ctl'[k] = ctl[k]
    BY <1>1, <2>1 DEF TypeOK, Control
  <2>3. Planned(c)' = ctl[c].todo \ {t}
    BY <2>2 DEF Planned
  <2>4. SoloInv(c)'
    BY <1>1, <1>2, <2>2, <2>3 DEF SoloInv, Alive
  <2> QED
    BY <1>1, <2>1, <2>2, <2>4, LeasesStay, SoloMoves DEF Running
<1> QED
  BY <1>3, <1>4

\* The run is begun under the epoch of the lease.
LEMMA SoloClaims ==
    ASSUME Inv, AllSolo, NEW c \in Controller, \A k \in Controller \ {c} : ~Alive(k), Claim(c)
    PROVE  AllSolo'
<1> DEFINE t == ctl[c].task
<1>1. /\ TypeOK /\ ctl[c] \in Control /\ SoloInv(c) /\ up[c] = "up" /\ t \in Task
      /\ UNCHANGED <<lease, session, up>> /\ ctl[c].at = "claim" /\ Commit(t, "RUNNING")
      /\ lease[t] # None /\ lease[t].epoch = ctl[c].epoch
  BY CtlTypes DEF Inv, AllSolo, Claim, At, Alive, memory, CtlInv, SoloInv
<1>2. /\ ctl' = [ctl EXCEPT ![c] = [ctl[c] EXCEPT !.at = "start"]]
      /\ run' = [run EXCEPT ![t] = ctl[c].epoch]
  BY DEF Claim
<1>3. /\ status'[t] = "RUNNING" /\ \A u \in Task \ {t} : status'[u] = status[u]
      /\ run'[t] = ctl[c].epoch /\ \A u \in Task \ {t} : run'[u] = run[u]
  BY <1>1, <1>2 DEF TypeOK, Commit
<1>4. /\ ctl'[c].at = "start" /\ ctl'[c].task = t /\ ctl'[c].todo = ctl[c].todo
      /\ \A k \in Controller \ {c} : ctl'[k] = ctl[k]
  BY <1>1, <1>2 DEF TypeOK, Control
<1>5. LeasesAreKept'
  BY <1>1, <1>3 DEF LeasesAreKept, AllSolo
<1>6. Planned(c)' = Planned(c) /\ Planned(c) \subseteq Task
  BY <1>1, <1>4 DEF Planned, Control
<1>7. SoloInv(c)'
  BY <1>1, <1>3, <1>4, <1>6 DEF SoloInv, Alive
<1> QED
  BY <1>1, <1>4, <1>5, <1>7, SoloMoves

LEMMA SoloStarts ==
    ASSUME Inv, AllSolo, NEW c \in Controller, \A k \in Controller \ {c} : ~Alive(k),
           StartTask(c) \/ StartTaskRaises(c)
    PROVE  AllSolo'
<1> DEFINE t == ctl[c].task
           todo == ctl[c].todo
<1>1. /\ TypeOK /\ ctl[c] \in Control /\ SoloInv(c) /\ up[c] = "up" /\ t \in Task
      /\ UNCHANGED <<status, run, lease, up>> /\ ctl[c].at = "start"
      /\ ctl[c].epoch \in Epoch /\ Planned(c) = todo
  BY CtlTypes DEF Inv, AllSolo, StartTask, StartTaskRaises, At, Alive, memory, CtlInv, Planned
<1>2. CASE StartTask(c)
  <2>1. /\ ctl' = [ctl EXCEPT ![c] = [NotRunningCode EXCEPT !.at = "dispatch", !.todo = todo \ {t}]]
        /\ session' = [session EXCEPT ![c][t] = [run |-> ctl[c].epoch, epoch |-> ctl[c].epoch]]
    BY <1>2 DEF StartTask
  <2>2. /\ [NotRunningCode EXCEPT !.at = "dispatch", !.todo = todo \ {t}].at = "dispatch"
        /\ [NotRunningCode EXCEPT !.at = "dispatch", !.todo = todo \ {t}].todo = todo \ {t}
    BY DEF NotRunningCode
  <2>3. /\ ctl'[c].at = "dispatch" /\ ctl'[c].todo = todo \ {t}
        /\ \A k \in Controller \ {c} : ctl'[k] = ctl[k]
    BY <1>1, <2>1, <2>2 DEF TypeOK
  <2>4. /\ session'[c][t] = [run |-> ctl[c].epoch, epoch |-> ctl[c].epoch]
        /\ \A u \in Task \ {t} : session'[c][u] = session[c][u]
        /\ \A k \in Controller \ {c} : session'[k] = session[k]
    BY <1>1, <2>1 DEF TypeOK
  <2>5. Planned(c)' = todo \ {t}
    BY <2>3 DEF Planned
  <2>6. SoloInv(c)'
    BY <1>1, <2>3, <2>4, <2>5 DEF SoloInv, Alive
  <2> QED
    BY <1>1, <2>3, <2>4, <2>6, LeasesStay, SoloMoves DEF Running
<1>3. CASE StartTaskRaises(c)
  <2>1. ctl' = [ctl EXCEPT ![c] = [ctl[c] EXCEPT !.at = "report"]] /\ UNCHANGED session
    BY <1>3 DEF StartTaskRaises, memory
  <2>2. /\ ctl'[c].at = "report" /\ ctl'[c].task = t /\ ctl'[c].todo = todo
        /\ \A k \in Controller \ {c} : ctl'[k] = ctl[k]
    BY <1>1, <2>1 DEF TypeOK, Control
  <2>3. Planned(c)' = todo
    BY <2>2 DEF Planned
  <2>4. SoloInv(c)'
    BY <1>1, <2>1, <2>2, <2>3 DEF SoloInv, Alive
  <2> QED
    BY <1>1, <2>1, <2>2, <2>4, LeasesStay, SoloMoves DEF Running
<1> QED
  BY <1>2, <1>3

LEMMA SoloReports ==
    ASSUME Inv, AllSolo, NEW c \in Controller, \A k \in Controller \ {c} : ~Alive(k), ReportUncertain(c)
    PROVE  AllSolo'
<1>1. /\ RaiseTo(c) /\ Alive(c) /\ UNCHANGED <<lease, run, session, up>> /\ TypeOK
      /\ UNCHANGED status \/ Commit(ctl[c].task, "BLOCKED")
  BY DEF ReportUncertain, At, Uncertain, Inv
<1>2. Running' \subseteq Running
  BY <1>1 DEF Running, Commit, TypeOK
<1> QED
  BY <1>1, <1>2, SoloRaises

LEMMA SoloNext ==
    ASSUME MaxLive <= 1
    PROVE  Inv /\ ResourceInv /\ op.at = "none" /\ AllSolo /\ [Next]_vars /\ ~Cancels => AllSolo'
<1> SUFFICES ASSUME Inv, ResourceInv, op.at = "none", AllSolo, [Next]_vars, ~Cancels PROVE AllSolo'
  OBVIOUS
<1>1. ASSUME NEW c \in Controller, ControllerStep(c) \/ Reinitialize(c) \/ Crash(c) PROVE AllSolo'
  <2>1. Alive(c)
    BY <1>1 DEF ControllerStep, Reinitialize, Crash, Load, Recover, InitializeRaises, PollActive, Collect,
                CollectRaises, BlockDownstream, BlockDownstreamRaises, ContextRefused, Acquire, AcquireRefused,
                EndInitialize, BeginStep, ReleaseFinished, EndPoll, Claim, ClaimRaises, StartTask,
                StartTaskRaises, ReportUncertain, EndDispatch, At
  <2>2. \A k \in Controller \ {c} : ~Alive(k)
    BY <2>1 DEF ResourceInv
  <2>3. CASE Crash(c) \/ \E t \in Task : InitializeRaises(c, t)
    BY <2>2, <2>3, SoloDies DEF Crash, InitializeRaises, durable
  <2>4. CASE \/ ClaimRaises(c) \/ EndDispatch(c)
             \/ \E t \in Task : CollectRaises(c, t) \/ BlockDownstreamRaises(c, t) \/ ContextRefused(c, t)
    <3>1. RaiseTo(c) /\ UNCHANGED <<lease, run, session, up, status>>
      BY <2>4 DEF ClaimRaises, EndDispatch, CollectRaises, BlockDownstreamRaises, ContextRefused, durable, memory
    <3> QED
      BY <2>1, <2>2, <3>1, SoloRaises DEF Running
  <2>5. CASE \/ Reinitialize(c) \/ EndInitialize(c) \/ BeginStep(c)
             \/ \E t \in Task : Load(c, t) \/ PollActive(c, t)
    BY <2>2, <2>5, SoloWaits
  <2>6. ASSUME NEW t \in Task, \/ Recover(c, t) \/ Collect(c, t) \/ BlockDownstream(c, t)
                               \/ Acquire(c, t) \/ AcquireRefused(c, t)
        PROVE  AllSolo'
    BY <2>2, <2>6, SoloRecovers, SoloCollects, SoloAcquires
  <2>7. CASE \/ ReleaseFinished(c) \/ EndPoll(c) \/ Claim(c) \/ StartTask(c) \/ StartTaskRaises(c)
             \/ ReportUncertain(c)
    BY <2>2, <2>7, SoloReleases, SoloPicks, SoloClaims, SoloStarts, SoloReports
  <2> QED
    BY <1>1, <2>3, <2>4, <2>5, <2>6, <2>7 DEF ControllerStep
<1>2. ASSUME NEW c \in Controller, Start(c) PROVE AllSolo'
  <2>1. \A k \in Controller \ {c} : ~Alive(k)
    BY <1>2, NobodyRuns
  <2> QED
    BY <1>2, <2>1, SoloWaits
<1>3. ASSUME NEW t \in Task, NEW to \in Status, HumanDecides(t, to) PROVE AllSolo'
  <2>1. to # "RUNNING" /\ Commit(t, to) /\ UNCHANGED <<lease, run, ctl, up, session>>
    BY <1>3, HumanAssumption DEF HumanDecides, memory
  <2>2. Running' \subseteq Running
    BY <2>1 DEF Inv, TypeOK, Commit, Running
  <2> QED
    BY <2>1, <2>2, SoloOthers
<1>4. ASSUME UNCHANGED vars \/ CancelFails \/ \E t \in Task, e \in Epoch : JobEnds(t, e) PROVE AllSolo'
  <2>1. UNCHANGED <<lease, run, ctl, up, session, status>>
    BY <1>4 DEF vars, durable, memory, CancelFails, JobEnds
  <2> QED
    BY <2>1, SoloOthers DEF Running
<1>5. ASSUME (\E t \in Task : CancelRead(t)) \/ CancelLookup \/ CancelKill \/ CancelRelease \/ CancelCommit
      PROVE FALSE
  BY <1>5 DEF CancelRead, CancelLookup, CancelKill, CancelRelease, CancelCommit
<1> QED
  BY <1>1, <1>2, <1>3, <1>4, <1>5 DEF Next

\* c works on the run that the ledger calls RUNNING.
Current(c, t) == session[c][t] # None /\ session[c][t].run = run[t] /\ status[t] = "RUNNING"

\* A controller among others holds the lease it was granted until it has recorded the end of the run,
\* since its process is alive.
CoverInv(c) ==
    /\ \A t \in Task : session[c][t] # None => Alive(c) /\ session[c][t].epoch = session[c][t].run
    /\ ctl[c].at \in {"claim", "start"} =>
          Alive(c) /\ lease[ctl[c].task] = [epoch |-> ctl[c].epoch, pid |-> c]
    /\ \A t \in Task : Current(c, t) => lease[t] = [epoch |-> session[c][t].run, pid |-> c]
    /\ ctl[c].at \in {"poll", "closing"} => ctl[c].todo \subseteq Sessions(c)
    /\ ctl[c].at = "closing" => ctl[c].task \in ctl[c].todo /\ ~Current(c, ctl[c].task)

AllCover == \A c \in Controller : CoverInv(c)

LEMMA CoverKept ==
    ASSUME Inv, AllCover, NEW c \in Controller, UNCHANGED <<lease, run>>, Running' \subseteq Running,
           ctl'[c] = ctl[c], up'[c] = up[c], session'[c] = session[c]
    PROVE  CoverInv(c)'
<1>1. CoverInv(c) /\ (ctl[c].at = "closing" => ctl[c].task \in Task)
  BY DEF AllCover, Inv, CtlInv
<1>2. /\ \A t \in Task : Current(c, t)' => Current(c, t)
      /\ Sessions(c)' = Sessions(c)
  BY DEF Current, Running, Sessions
<1> QED
  BY <1>1, <1>2 DEF CoverInv, Alive

LEMMA CoverOthers ==
    ASSUME Inv, AllCover, UNCHANGED <<lease, run, ctl, up, session>>, Running' \subseteq Running
    PROVE  AllCover'
  BY CoverKept DEF AllCover

\* c moves to a place where it holds no lease without a session.
LEMMA CoverGoes ==
    ASSUME Inv, AllCover, NEW c \in Controller, UNCHANGED <<lease, run>>, Running' \subseteq Running,
           \A k \in Controller \ {c} : ctl'[k] = ctl[k] /\ up'[k] = up[k] /\ session'[k] = session[k],
           \A t \in Task : session'[c][t] \in {session[c][t], None},
           up'[c] = "up" \/ \A t \in Task : session'[c][t] = None,
           ctl'[c].at \notin {"claim", "start"},
           ctl'[c].at \in {"poll", "closing"} => ctl'[c].todo \subseteq Sessions(c)',
           ctl'[c].at = "closing" => ctl'[c].task \in ctl'[c].todo /\ status'[ctl'[c].task] # "RUNNING"
    PROVE  AllCover'
<1>1. CoverInv(c)
  BY DEF AllCover
<1>2. \A t \in Task : Current(c, t)' => Current(c, t) /\ session'[c][t] = session[c][t]
  BY DEF Current, Running
<1>3. ctl'[c].at = "closing" => ~Current(c, ctl[c].task)'
  BY DEF Current
<1>4. CoverInv(c)'
  BY <1>1, <1>2, <1>3 DEF CoverInv, Alive
<1> QED
  BY <1>4, CoverKept DEF AllCover

LEMMA CoverRaises ==
    ASSUME Inv, AllCover, NEW c \in Controller, Alive(c), RaiseTo(c),
           UNCHANGED <<lease, run, session, up>>, Running' \subseteq Running
    PROVE  AllCover'
<1>1. up'[c] = "up" /\ \A k \in Controller \ {c} : ctl'[k] = ctl[k]
  BY RaiseTypes DEF Alive, Inv
<1>2. ctl'[c].at = "idle"
  BY RaiseTypes, IdleType DEF Inv
<1> QED
  BY <1>1, <1>2, CoverGoes

LEMMA CoverDies ==
    ASSUME Inv, AllCover, NEW c \in Controller, Die(c), UNCHANGED <<lease, run, status>>
    PROVE  AllCover'
<1>1. /\ ctl'[c].at = "idle"
      /\ \A k \in Controller \ {c} : ctl'[k] = ctl[k] /\ up'[k] = up[k] /\ session'[k] = session[k]
  BY DieTypes, IdleType DEF Inv
<1>2. \A t \in Task : session'[c][t] = None
  BY DEF Die, Inv, TypeOK
<1> QED
  BY <1>1, <1>2, CoverGoes DEF Running

LEMMA CoverWaits ==
    ASSUME Inv, AllCover, NEW c \in Controller,
           \/ Start(c) \/ Reinitialize(c) \/ EndInitialize(c) \/ BeginStep(c)
           \/ \E t \in Task : Load(c, t) \/ PollActive(c, t) \/ AcquireRefused(c, t)
    PROVE  AllCover'
<1>1. ctl[c] \in Control /\ DOMAIN ctl = Controller /\ TypeOK
  BY CtlTypes DEF Inv, TypeOK
<1>2. UNCHANGED <<lease, run, session, status>> /\ Running' \subseteq Running
  BY DEF Start, Reinitialize, EndInitialize, BeginStep, Load, PollActive, AcquireRefused, durable, memory, Running
<1>3. up'[c] = "up" /\ \A k \in Controller \ {c} : up'[k] = up[k]
  BY <1>1 DEF Start, Reinitialize, EndInitialize, BeginStep, Load, PollActive, AcquireRefused, At, Alive, TypeOK
<1>4. ASSUME NEW r, ctl' = [ctl EXCEPT ![c] = r], r.at \in {"idle", "initialize", "poll", "dispatch"},
             r.at = "poll" => r.todo \subseteq Sessions(c)
      PROVE  AllCover'
  <2>1. /\ ctl'[c] = r /\ \A k \in Controller \ {c} : ctl'[k] = ctl[k]
        /\ Sessions(c)' = Sessions(c)
    BY <1>1, <1>2, <1>4 DEF Sessions
  <2> QED
    BY <1>2, <1>3, <1>4, <2>1, CoverGoes
<1>5. CASE Start(c) \/ Reinitialize(c)
  BY <1>1, <1>4, <1>5 DEF Start, Reinitialize, Control
<1>6. CASE EndInitialize(c) \/ BeginStep(c)
  BY <1>1, <1>4, <1>6 DEF EndInitialize, BeginStep, Control
<1>7. ASSUME NEW t \in Task, Load(c, t) \/ PollActive(c, t) \/ AcquireRefused(c, t) PROVE AllCover'
  <2>1. CoverInv(c)
    BY DEF AllCover
  <2> QED
    BY <1>1, <1>4, <1>7, <2>1 DEF Load, PollActive, AcquireRefused, Control, At, CoverInv
<1> QED
  BY <1>5, <1>6, <1>7

LEMMA CoverCollects ==
    ASSUME Inv, AllCover, NEW c \in Controller, NEW t \in Task, Collect(c, t) \/ BlockDownstream(c, t)
    PROVE  AllCover'
<1>1. TypeOK /\ ctl[c] \in Control /\ DOMAIN ctl = Controller /\ CoverInv(c)
  BY CtlTypes DEF Inv, TypeOK, AllCover
<1>2. UNCHANGED <<lease, run, session, up>> /\ up[c] = "up"
  BY DEF Collect, BlockDownstream, At, Alive, memory
<1>3. CASE Collect(c, t)
  <2> DEFINE to == Outcome(Polled(c, t))
             done == [ctl[c] EXCEPT !.todo = ctl[c].todo \ {t}, !.finished = ctl[c].finished \cup {t}]
             closing == [ctl[c] EXCEPT !.at = "closing", !.task = t,
                                       !.down = IF to = "FAILED" THEN Dependents[t] ELSE {}]
  <2>1. Commit(t, to) /\ to # "RUNNING" /\ ctl[c].at = "poll"
    BY <1>3 DEF Collect, Outcome, At
  <2>2. status'[t] # "RUNNING" /\ Running' \subseteq Running
    BY <1>1, <2>1 DEF Commit, TypeOK, Running
  <2>3. ctl' = [ctl EXCEPT ![c] = done] \/ ctl' = [ctl EXCEPT ![c] = closing]
    <3>1. CASE to = "BLOCKED"
      BY <1>3, <3>1 DEF Collect
    <3>2. CASE to # "BLOCKED"
      BY <1>3, <3>2 DEF Collect
    <3> QED
      BY <3>1, <3>2
  <2>4. /\ done.at = "poll" /\ done.todo = ctl[c].todo \ {t}
        /\ closing.at = "closing" /\ closing.task = t /\ closing.todo = ctl[c].todo
    BY <1>1, <2>1 DEF Control
  <2> HIDE DEF done, closing
  <2>5. /\ ctl'[c].at = "poll" \/ (ctl'[c].at = "closing" /\ ctl'[c].task = t)
        /\ ctl'[c].todo \subseteq ctl[c].todo /\ (ctl'[c].at = "closing" => ctl'[c].todo = ctl[c].todo)
        /\ \A k \in Controller \ {c} : ctl'[k] = ctl[k]
    BY <1>1, <2>3, <2>4
  <2>6. Sessions(c)' = Sessions(c) /\ ctl[c].todo \subseteq Sessions(c) /\ t \in ctl[c].todo
    BY <1>1, <1>2, <1>3, <2>1 DEF Sessions, CoverInv, Collect
  <2> QED
    BY <1>2, <2>2, <2>5, <2>6, CoverGoes
<1>4. CASE BlockDownstream(c, t)
  <2>1. UNCHANGED status \/ Commit(t, "BLOCKED")
    BY <1>4 DEF BlockDownstream
  <2>2. Running' \subseteq Running
    BY <1>1, <2>1 DEF Commit, TypeOK, Running
  <2>3. ctl[c].at = "closing" /\ ctl' = [ctl EXCEPT ![c] = [ctl[c] EXCEPT !.down = ctl[c].down \ {t}]]
    BY <1>4 DEF BlockDownstream, At
  <2>4. /\ ctl'[c].at = "closing" /\ ctl'[c].task = ctl[c].task /\ ctl[c].task \in Task
        /\ ctl'[c].todo = ctl[c].todo
        /\ \A k \in Controller \ {c} : ctl'[k] = ctl[k]
    BY <1>1, <2>3 DEF Control, Inv, CtlInv
  <2>5. (\A u \in Task : Current(c, u)' => Current(c, u)) /\ Sessions(c)' = Sessions(c)
    BY <1>2, <2>2 DEF Current, Running, Sessions
  <2>6. CoverInv(c)'
    BY <1>1, <1>2, <2>3, <2>4, <2>5 DEF CoverInv, Alive
  <2> QED
    BY <1>2, <2>2, <2>4, <2>6, CoverKept DEF AllCover
<1> QED
  BY <1>3, <1>4

\* The epoch that is released is no longer that of a run the ledger calls RUNNING, and nobody else
\* was granted it.
LEMMA CoverReleases ==
    ASSUME Inv, ContractInv, adapter = "contract", AllCover, NEW c \in Controller, ReleaseFinished(c)
    PROVE  AllCover'
<1> DEFINE t == ctl[c].task
           e == session[c][t].run
           next == [NotRunningCode EXCEPT !.at = "poll", !.todo = ctl[c].todo \ {t},
                                          !.finished = ctl[c].finished \cup {t}]
<1>1. /\ TypeOK /\ CoverInv(c) /\ t \in Task /\ ctl[c].at = "closing" /\ Alive(c)
      /\ UNCHANGED <<status, run, session, up>>
  BY DEF Inv, AllCover, ReleaseFinished, At, CtlInv, memory
<1>2. /\ session[c][t] # None /\ e \in Epoch /\ session[c][t].epoch = e /\ ~Current(c, t)
      /\ ctl[c].todo \subseteq Sessions(c)
  BY <1>1 DEF CoverInv, Sessions, TypeOK
<1>3. lease' = IF lease[t] # None /\ lease[t].epoch = e THEN [lease EXCEPT ![t] = None] ELSE lease
  BY <1>2 DEF ReleaseFinished, Released
<1>4. \A u \in Task : lease'[u] = lease[u] \/ (u = t /\ lease[t].epoch = e)
  BY <1>1, <1>3 DEF TypeOK
<1>5. next.at = "poll" /\ next.todo = ctl[c].todo \ {t}
  BY DEF NotRunningCode
<1>6. ctl' = [ctl EXCEPT ![c] = next] /\ DOMAIN ctl = Controller
  BY <1>1 DEF ReleaseFinished, TypeOK
<1> HIDE DEF next
<1>7. /\ ctl'[c].at = "poll" /\ ctl'[c].todo = ctl[c].todo \ {t}
      /\ \A k \in Controller \ {c} : ctl'[k] = ctl[k]
  BY <1>5, <1>6
<1>8. Holds(c, t, e)
  BY <1>2 DEF Holds
<1>9. ASSUME NEW k \in Controller PROVE CoverInv(k)'
  <2>1. CoverInv(k)
    BY DEF AllCover
  <2>2. (\A u \in Task : Current(k, u)' <=> Current(k, u)) /\ Sessions(k)' = Sessions(k)
    BY <1>1 DEF Current, Sessions
  <2>3. ASSUME NEW u \in Task, Current(k, u) PROVE lease'[u] = lease[u]
    <3> SUFFICES ASSUME u = t, lease[t].epoch = e PROVE FALSE
      BY <1>4
    <3>1. lease[t] = [epoch |-> session[k][t].run, pid |-> k]
      BY <2>1, <2>3 DEF CoverInv
    <3>2. Holds(k, t, e)
      BY <2>3, <3>1 DEF Holds, Current
    <3>3. k = c
      BY <1>1, <1>2, <1>8, <3>2 DEF ContractInv
    <3> QED
      BY <1>2, <2>3, <3>3
  <2>4. ASSUME ctl[k].at \in {"claim", "start"} PROVE lease'[ctl[k].task] = lease[ctl[k].task]
    <3> SUFFICES ASSUME ctl[k].task = t, lease[t].epoch = e PROVE FALSE
      BY <1>4, <2>4 DEF Inv, CtlInv
    <3>1. lease[t] = [epoch |-> ctl[k].epoch, pid |-> k]
      BY <2>1, <2>4 DEF CoverInv
    <3>2. Holds(k, t, e)
      BY <2>4, <3>1 DEF Holds
    <3>3. k = c
      BY <1>1, <1>2, <1>8, <3>2 DEF ContractInv
    <3> QED
      BY <1>1, <2>4, <3>3
  <2>5. CASE k = c
    BY <1>1, <1>2, <1>7, <2>1, <2>2, <2>3, <2>5 DEF CoverInv, Alive
  <2>6. CASE k # c
    <3>1. ctl'[k] = ctl[k]
      BY <1>7, <2>6
    <3>2. ctl[k].at = "closing" => ctl[k].task \in Task
      BY DEF Inv, CtlInv
    <3> QED
      BY <1>1, <2>1, <2>2, <2>3, <2>4, <3>1, <3>2 DEF CoverInv, Alive
  <2> QED
    BY <2>5, <2>6
<1> QED
  BY <1>9 DEF AllCover

LEMMA CoverPicks ==
    ASSUME Inv, AllCover, NEW c \in Controller, EndPoll(c)
    PROVE  AllCover'
<1>1. /\ TypeOK /\ DOMAIN ctl = Controller /\ up[c] = "up" /\ UNCHANGED <<status, run, lease, up>>
  BY DEF Inv, EndPoll, At, Alive, TypeOK, durable
<1>2. PICK S : ctl' = [ctl EXCEPT ![c] = [NotRunningCode EXCEPT !.at = "dispatch", !.todo = S]]
  BY DEF EndPoll
<1>3. [NotRunningCode EXCEPT !.at = "dispatch", !.todo = S].at = "dispatch"
  BY DEF NotRunningCode
<1>4. ctl'[c].at = "dispatch" /\ \A k \in Controller \ {c} : ctl'[k] = ctl[k]
  BY <1>1, <1>2, <1>3
<1>5. /\ \A t \in Task : session'[c][t] \in {session[c][t], None}
      /\ \A k \in Controller \ {c} : session'[k] = session[k]
  BY <1>1 DEF EndPoll, Remaining, TypeOK
<1> QED
  BY <1>1, <1>4, <1>5, CoverGoes DEF Running

\* A lease of a live controller is not granted to another.
LEMMA CoverAcquires ==
    ASSUME Inv, AllCover, NEW c \in Controller, NEW t \in Task, Acquire(c, t)
    PROVE  AllCover'
<1>1. /\ TypeOK /\ ctl[c] \in Control /\ up[c] = "up" /\ Alive(c)
      /\ UNCHANGED <<status, run, session, up>> /\ ctl[c].at = "dispatch"
      /\ lease[t] # None => ~Alive(lease[t].pid)
  BY CtlTypes DEF Inv, Acquire, At, Alive
<1>2. PICK e : /\ lease' = [lease EXCEPT ![t] = [epoch |-> e, pid |-> c]]
               /\ ctl' = [ctl EXCEPT ![c] = [ctl[c] EXCEPT !.at = "claim", !.task = t, !.epoch = e]]
  BY DEF Acquire
<1>3. /\ lease'[t] = [epoch |-> e, pid |-> c] /\ \A u \in Task \ {t} : lease'[u] = lease[u]
      /\ ctl'[c].at = "claim" /\ ctl'[c].task = t /\ ctl'[c].epoch = e
      /\ \A k \in Controller \ {c} : ctl'[k] = ctl[k]
  BY <1>1, <1>2 DEF TypeOK, Control
<1>4. ASSUME NEW k \in Controller PROVE CoverInv(k)'
  <2>1. CoverInv(k)
    BY DEF AllCover
  <2>2. (\A u \in Task : Current(k, u)' <=> Current(k, u)) /\ Sessions(k)' = Sessions(k)
    BY <1>1 DEF Current, Sessions
  <2>3. ASSUME NEW u \in Task, Current(k, u) PROVE lease'[u] = lease[u]
    <3>1. Alive(k) /\ lease[u] = [epoch |-> session[k][u].run, pid |-> k] /\ lease[u].pid = k
      BY <2>1, <2>3 DEF CoverInv, Current
    <3>2. lease[u] # None
      BY <2>3, <3>1, NoneAssumption DEF Current, Inv, TypeOK
    <3> QED
      BY <1>1, <1>3, <3>1, <3>2
  <2>4. ASSUME ctl[k].at \in {"claim", "start"} PROVE lease'[ctl[k].task] = lease[ctl[k].task]
    <3>1. Alive(k) /\ lease[ctl[k].task].pid = k /\ ctl[k].task \in Task /\ ctl[k].epoch \in Epoch
      BY <2>1, <2>4 DEF CoverInv, Inv, CtlInv
    <3>2. lease[ctl[k].task] # None
      BY <2>1, <2>4, <3>1, NoneAssumption DEF CoverInv
    <3> QED
      BY <1>1, <1>3, <3>1, <3>2
  <2>5. CASE k = c
    BY <1>1, <1>3, <2>1, <2>2, <2>3, <2>5 DEF CoverInv, Alive
  <2>6. CASE k # c
    <3>1. ctl'[k] = ctl[k]
      BY <1>3, <2>6
    <3>2. ctl[k].at = "closing" => ctl[k].task \in Task
      BY DEF Inv, CtlInv
    <3> QED
      BY <1>1, <2>1, <2>2, <2>3, <2>4, <3>1, <3>2 DEF CoverInv, Alive
  <2> QED
    BY <2>5, <2>6
<1> QED
  BY <1>4 DEF AllCover

\* Nobody else knows the epoch under which the task becomes RUNNING.
LEMMA CoverClaims ==
    ASSUME Inv, ContractInv, adapter = "contract", AllCover, NEW c \in Controller, Claim(c)
    PROVE  AllCover'
<1> DEFINE t == ctl[c].task
           e == ctl[c].epoch
<1>1. /\ TypeOK /\ ctl[c] \in Control /\ CoverInv(c) /\ t \in Task /\ e \in Epoch
      /\ UNCHANGED <<lease, session, up>> /\ ctl[c].at = "claim" /\ Commit(t, "RUNNING")
      /\ lease[t] = [epoch |-> e, pid |-> c] /\ Alive(c)
  BY CtlTypes DEF Inv, AllCover, Claim, At, memory, CtlInv, CoverInv
<1>2. /\ ctl' = [ctl EXCEPT ![c] = [ctl[c] EXCEPT !.at = "start"]]
      /\ run' = [run EXCEPT ![t] = e]
  BY DEF Claim
<1>3. /\ \A u \in Task \ {t} : status'[u] = status[u] /\ run'[u] = run[u]
      /\ run'[t] = e
  BY <1>1, <1>2 DEF TypeOK, Commit
<1>4. /\ ctl'[c].at = "start" /\ ctl'[c].task = t /\ ctl'[c].epoch = e
      /\ \A k \in Controller \ {c} : ctl'[k] = ctl[k]
  BY <1>1, <1>2 DEF TypeOK, Control
<1>5. Holds(c, t, e)
  BY <1>1 DEF Holds
<1>6. ASSUME NEW k \in Controller PROVE CoverInv(k)'
  <2>1. CoverInv(k) /\ Sessions(k)' = Sessions(k) /\ (ctl[k].at = "closing" => ctl[k].task \in Task)
    BY <1>1 DEF AllCover, Sessions, Inv, CtlInv
  <2>2. ASSUME NEW u \in Task, Current(k, u)' PROVE Current(k, u) \/ (k = c /\ u = t /\ session[k][u].run = e)
    <3>1. session[k][u] # None /\ session[k][u].run = run'[u] /\ status'[u] = "RUNNING"
      BY <1>1, <2>2 DEF Current
    <3>2. CASE u # t
      BY <1>3, <3>1, <3>2 DEF Current
    <3>3. CASE u = t
      <4>1. Holds(k, t, e)
        BY <1>3, <3>1, <3>3 DEF Holds
      <4>2. k = c
        BY <1>1, <1>5, <4>1 DEF ContractInv
      <4> QED
        BY <1>3, <3>1, <3>3, <4>2
    <3> QED
      BY <3>2, <3>3
  <2>3. \A u \in Task : Current(k, u)' => lease'[u] = [epoch |-> session'[k][u].run, pid |-> k]
    BY <1>1, <2>1, <2>2 DEF CoverInv
  <2>4. CASE k = c
    BY <1>1, <1>4, <2>1, <2>3, <2>4 DEF CoverInv, Alive
  <2>5. CASE k # c
    <3>1. ctl'[k] = ctl[k]
      BY <1>4, <2>5
    <3> QED
      BY <1>1, <2>1, <2>2, <2>3, <2>5, <3>1 DEF CoverInv, Alive
  <2> QED
    BY <2>4, <2>5
<1> QED
  BY <1>6 DEF AllCover

LEMMA CoverStarts ==
    ASSUME Inv, AllCover, NEW c \in Controller, StartTask(c) \/ StartTaskRaises(c)
    PROVE  AllCover'
<1> DEFINE t == ctl[c].task
           todo == ctl[c].todo \ {t}
<1>1. /\ TypeOK /\ ctl[c] \in Control /\ CoverInv(c) /\ UNCHANGED <<status, run, lease, up>>
      /\ Running' = Running /\ up[c] = "up" /\ t \in Task
      /\ lease[t] = [epoch |-> ctl[c].epoch, pid |-> c]
  <2>1. TypeOK /\ ctl[c] \in Control /\ CoverInv(c) /\ CtlInv(c)
    BY CtlTypes DEF Inv, AllCover
  <2>2. UNCHANGED <<status, run, lease, up>> /\ At(c, "start")
    BY DEF StartTask, StartTaskRaises, memory
  <2>3. up[c] = "up" /\ ctl[c].at = "start"
    BY <2>2 DEF At, Alive
  <2>4. t \in Task /\ lease[t] = [epoch |-> ctl[c].epoch, pid |-> c]
    BY <2>1, <2>3 DEF CoverInv, CtlInv
  <2> QED
    BY <2>1, <2>2, <2>3, <2>4 DEF Running
<1>2. CASE StartTask(c)
  <2>1. /\ ctl' = [ctl EXCEPT ![c] = [NotRunningCode EXCEPT !.at = "dispatch", !.todo = todo]]
        /\ session' = [session EXCEPT ![c][t] = [run |-> ctl[c].epoch, epoch |-> ctl[c].epoch]]
    BY <1>2 DEF StartTask
  <2>2. [NotRunningCode EXCEPT !.at = "dispatch", !.todo = todo].at = "dispatch"
    BY DEF NotRunningCode
  <2>3. ctl'[c].at = "dispatch" /\ \A k \in Controller \ {c} : ctl'[k] = ctl[k]
    BY <1>1, <2>1, <2>2 DEF TypeOK
  <2>4. /\ session'[c][t] = [run |-> ctl[c].epoch, epoch |-> ctl[c].epoch]
        /\ \A u \in Task \ {t} : session'[c][u] = session[c][u]
        /\ \A k \in Controller \ {c} : session'[k] = session[k]
    BY <1>1, <2>1 DEF TypeOK
  <2>5. ASSUME NEW u \in Task, Current(c, u)' PROVE lease'[u] = [epoch |-> session'[c][u].run, pid |-> c]
    <3>1. CASE u = t
      BY <1>1, <2>4, <3>1
    <3>2. CASE u # t
      BY <1>1, <2>4, <2>5, <3>2 DEF Current, CoverInv
    <3> QED
      BY <3>1, <3>2
  <2>6. ASSUME NEW u \in Task, session'[c][u] # None
        PROVE  Alive(c)' /\ session'[c][u].epoch = session'[c][u].run
    BY <1>1, <2>4, <2>6 DEF CoverInv, Alive
  <2>7. CoverInv(c)'
    BY <2>3, <2>5, <2>6 DEF CoverInv
  <2> QED
    BY <1>1, <2>3, <2>4, <2>7, CoverKept DEF AllCover
<1>3. CASE StartTaskRaises(c)
  <2>1. ctl' = [ctl EXCEPT ![c] = [ctl[c] EXCEPT !.at = "report"]] /\ UNCHANGED session
    BY <1>3 DEF StartTaskRaises, memory
  <2>2. ctl'[c].at = "report" /\ \A k \in Controller \ {c} : ctl'[k] = ctl[k]
    BY <1>1, <2>1 DEF TypeOK, Control
  <2> QED
    BY <1>1, <2>1, <2>2, CoverGoes
<1> QED
  BY <1>2, <1>3

LEMMA CoverReports ==
    ASSUME Inv, AllCover, NEW c \in Controller, ReportUncertain(c)
    PROVE  AllCover'
<1>1. /\ RaiseTo(c) /\ Alive(c) /\ UNCHANGED <<lease, run, session, up>> /\ TypeOK
      /\ UNCHANGED status \/ Commit(ctl[c].task, "BLOCKED")
  BY DEF ReportUncertain, At, Uncertain, Inv
<1>2. Running' \subseteq Running
  BY <1>1 DEF Running, Commit, TypeOK
<1> QED
  BY <1>1, <1>2, CoverRaises

LEMMA CoverNext ==
    ASSUME ~Cancels
    PROVE  Inv /\ op.at = "none" /\ ContractInv /\ adapter = "contract" /\ AllCover /\ [Next]_vars => AllCover'
<1> SUFFICES ASSUME Inv, op.at = "none", ContractInv, adapter = "contract", AllCover, [Next]_vars
             PROVE  AllCover'
  OBVIOUS
<1>1. ASSUME NEW c \in Controller, Start(c) \/ Reinitialize(c) \/ ControllerStep(c) \/ Crash(c) PROVE AllCover'
  <2>1. CASE Crash(c) \/ \E t \in Task : InitializeRaises(c, t)
    BY <2>1, CoverDies DEF Crash, InitializeRaises, durable
  <2>2. CASE \/ ClaimRaises(c) \/ EndDispatch(c)
             \/ \E t \in Task : CollectRaises(c, t) \/ BlockDownstreamRaises(c, t) \/ ContextRefused(c, t)
    <3>1. RaiseTo(c) /\ Alive(c) /\ UNCHANGED <<lease, run, session, up, status>>
      BY <2>2 DEF ClaimRaises, EndDispatch, CollectRaises, BlockDownstreamRaises, ContextRefused, durable,
                  memory, At
    <3> QED
      BY <3>1, CoverRaises DEF Running
  <2>3. CASE \/ Start(c) \/ Reinitialize(c) \/ EndInitialize(c) \/ BeginStep(c)
             \/ \E t \in Task : Load(c, t) \/ PollActive(c, t) \/ AcquireRefused(c, t)
    BY <2>3, CoverWaits
  <2>4. ASSUME NEW t \in Task, Collect(c, t) \/ BlockDownstream(c, t) \/ Acquire(c, t) PROVE AllCover'
    BY <2>4, CoverCollects, CoverAcquires
  <2>5. ASSUME NEW t \in Task, Recover(c, t) PROVE FALSE
    BY <2>5 DEF Recover, MayRecover
  <2>6. CASE \/ ReleaseFinished(c) \/ EndPoll(c) \/ Claim(c) \/ StartTask(c) \/ StartTaskRaises(c)
             \/ ReportUncertain(c)
    BY <2>6, CoverReleases, CoverPicks, CoverClaims, CoverStarts, CoverReports
  <2> QED
    BY <1>1, <2>1, <2>2, <2>3, <2>4, <2>5, <2>6 DEF ControllerStep
<1>2. ASSUME NEW t \in Task, NEW to \in Status, HumanDecides(t, to) PROVE AllCover'
  <2>1. to # "RUNNING" /\ Commit(t, to) /\ UNCHANGED <<lease, run, ctl, up, session>>
    BY <1>2, HumanAssumption DEF HumanDecides, memory
  <2>2. Running' \subseteq Running
    BY <2>1 DEF Inv, TypeOK, Commit, Running
  <2> QED
    BY <2>1, <2>2, CoverOthers
<1>3. ASSUME UNCHANGED vars \/ CancelFails \/ \E t \in Task, e \in Epoch : JobEnds(t, e) PROVE AllCover'
  <2>1. UNCHANGED <<lease, run, ctl, up, session, status>>
    BY <1>3 DEF vars, durable, memory, CancelFails, JobEnds
  <2> QED
    BY <2>1, CoverOthers DEF Running
<1>4. ASSUME (\E t \in Task : CancelRead(t)) \/ CancelLookup \/ CancelKill \/ CancelRelease \/ CancelCommit
      PROVE FALSE
  BY <1>4 DEF CancelRead, CancelLookup, CancelKill, CancelRelease, CancelCommit
<1> QED
  BY <1>1, <1>2, <1>3, <1>4 DEF Next

\* The lease a controller was granted stays in the table as long as the task runs that it works on
\* (finish_session and cmd_cancel are the only callers of release_lease), unless the cancel command is
\* used: with one controller at a time, and with any number of them over an adapter that does not
\* recover tasks.  A recovery keeps the dead process's lease, which a second controller may take.
THEOREM LeaseStaysWithSession ==
    ASSUME ~Cancels
    PROVE  Spec /\ (MaxLive <= 1 \/ adapter = "contract") => []LeaseCoversSession
<1> DEFINE Uncancelled == op.at = "none"
<1>1. Init => Uncancelled /\ AllSolo /\ AllCover /\ ContractInv
  BY DEF Init, NoCancel, NotRunningCode, AllSolo, LeasesAreKept, SoloInv, Planned, AllCover, CoverInv,
         Current, ContractInv, Holds
<1>2. adapter = "contract" /\ [Next]_vars => (adapter = "contract")'
  BY AdapterStays
<1>3. AllSolo => LeaseCoversSession
  BY DEF AllSolo, LeasesAreKept, SoloInv, LeaseCoversSession
<1>4. Inv /\ AllCover => LeaseCoversSession
  <2> SUFFICES ASSUME Inv, AllCover, NEW c \in Controller, NEW t \in Task, session[c][t] # None,
                      session[c][t].epoch = run[t], status[t] = "RUNNING"
               PROVE  lease[t] # None /\ lease[t].epoch = session[c][t].epoch
    BY DEF LeaseCoversSession
  <2>0. Current(c, t)
    BY DEF AllCover, CoverInv, Current
  <2>1. lease[t] = [epoch |-> session[c][t].run, pid |-> c] /\ session[c][t].epoch = session[c][t].run
    BY <2>0 DEF AllCover, CoverInv, Current
  <2>2. session[c][t].run \in Epoch
    BY DEF Inv, TypeOK, Current
  <2> QED
    BY <2>1, <2>2, NoneAssumption
<1>5. CASE MaxLive <= 1
  <2>1. Inv /\ ResourceInv /\ Uncancelled /\ AllSolo /\ [Next]_vars => AllSolo' /\ Uncancelled'
    BY <1>5, SoloNext, NobodyCancels
  <2>2. Inv /\ ResourceInv /\ [Next]_vars => ResourceInv'
    BY <1>5, ResourceNext
  <2> HIDE DEF Uncancelled
  <2>3. Spec => []LeaseCoversSession
    BY <1>1, <1>3, <2>1, <2>2, ResourceInit, InvAlways, PTL DEF Spec
  <2> QED
    BY <2>3, PTL
<1>6. CASE ~(MaxLive <= 1)
  <2>1. Inv /\ Uncancelled /\ ContractInv /\ adapter = "contract" /\ AllCover /\ [Next]_vars
          => AllCover' /\ Uncancelled'
    BY CoverNext, NobodyCancels
  <2> HIDE DEF Uncancelled
  <2>2. Spec /\ adapter = "contract" => []LeaseCoversSession
    BY <1>1, <1>2, <1>4, <2>1, ContractNext, InvAlways, PTL DEF Spec
  <2> QED
    BY <1>6, <2>2, PTL
<1> QED
  BY <1>5, <1>6

-----------------------------------------------------------------------------
(* The lease table *)

\* The row carries the last epoch granted.
RowsAreLast == \A t \in Task : lease[t] # None => lease[t].epoch = epochs[t]

\* What a step does to the table.
TableMoves ==
    \/ UNCHANGED <<lease, epochs>>
    \/ UNCHANGED <<epochs, up>> /\ \E t \in Task : lease' = [lease EXCEPT ![t] = None]
    \/ UNCHANGED up /\ \E c \in Controller, t \in Task : Acquire(c, t)

LEMMA TableMove == Inv /\ [Next]_vars => TableMoves
<1> SUFFICES ASSUME Inv, [Next]_vars PROVE TableMoves
  OBVIOUS
<1>1. ASSUME NEW c \in Controller, ControllerStep(c) PROVE TableMoves
  <2>1. ASSUME NEW t \in Task, \/ Load(c, t) \/ Recover(c, t) \/ InitializeRaises(c, t) \/ PollActive(c, t)
                               \/ Collect(c, t) \/ CollectRaises(c, t) \/ BlockDownstream(c, t)
        PROVE  UNCHANGED <<lease, epochs>>
    BY <2>1 DEF Load, Recover, InitializeRaises, PollActive, Collect, CollectRaises, BlockDownstream, durable
  <2>2. ASSUME NEW t \in Task, BlockDownstreamRaises(c, t) \/ ContextRefused(c, t) \/ AcquireRefused(c, t)
        PROVE  UNCHANGED <<lease, epochs>>
    BY <2>2 DEF BlockDownstreamRaises, ContextRefused, AcquireRefused, durable
  <2>3. CASE \/ EndInitialize(c) \/ BeginStep(c) \/ EndPoll(c) \/ Claim(c) \/ ClaimRaises(c)
             \/ StartTask(c) \/ StartTaskRaises(c) \/ ReportUncertain(c) \/ EndDispatch(c)
    <3>1. UNCHANGED <<lease, epochs>>
      BY <2>3 DEF EndInitialize, BeginStep, EndPoll, Claim, ClaimRaises, StartTask, StartTaskRaises,
                  ReportUncertain, EndDispatch, durable
    <3> QED
      BY <3>1 DEF TableMoves
  <2>4. CASE ReleaseFinished(c)
    <3>1. ctl[c].task \in Task
      BY <2>4 DEF ReleaseFinished, At, Inv, CtlInv
    <3> QED
      BY <2>4, <3>1 DEF ReleaseFinished, Released, TableMoves
  <2>5. ASSUME NEW t \in Task, Acquire(c, t) PROVE TableMoves
    BY <2>5 DEF TableMoves, Acquire
  <2> QED
    BY <1>1, <2>1, <2>2, <2>3, <2>4, <2>5 DEF ControllerStep, TableMoves
<1>2. ASSUME NEW c \in Controller, Start(c) \/ Reinitialize(c) \/ Crash(c) PROVE TableMoves
  BY <1>2 DEF Start, Reinitialize, Crash, durable, TableMoves
<1>3. ASSUME NEW t \in Task, \/ \E e \in Epoch : JobEnds(t, e)
                             \/ \E to \in Status : HumanDecides(t, to)
                             \/ CancelRead(t)
      PROVE  TableMoves
  BY <1>3 DEF JobEnds, HumanDecides, CancelRead, durable, TableMoves
<1>4. CASE CancelLookup \/ CancelKill \/ CancelCommit \/ CancelFails \/ UNCHANGED vars
  BY <1>4 DEF CancelLookup, CancelKill, CancelCommit, CancelFails, vars, durable, TableMoves
<1>5. CASE CancelRelease
  BY <1>5 DEF CancelRelease, Released, TableMoves, Inv, OpInv
<1> QED
  BY <1>1, <1>2, <1>3, <1>4, <1>5 DEF Next

\* What acquire_lease writes: the epoch after the last one granted.
LEMMA GrantedNext ==
    ASSUME TypeOK, RowsAreLast, NEW c \in Controller, NEW t \in Task, Acquire(c, t)
    PROVE  /\ epochs' = [epochs EXCEPT ![t] = epochs[t] + 1]
           /\ lease' = [lease EXCEPT ![t] = [epoch |-> epochs[t] + 1, pid |-> c]]
           /\ [epoch |-> epochs[t] + 1, pid |-> c] # None
<1> DEFINE e == IF lease[t] # None THEN lease[t].epoch + 1 ELSE epochs[t] + 1
<1>1. e = epochs[t] + 1 /\ epochs[t] \in Nat
  BY LimitAssumption DEF RowsAreLast, TypeOK
<1>2. /\ e <= MaxEpoch
      /\ lease' = [lease EXCEPT ![t] = [epoch |-> e, pid |-> c]]
      /\ epochs' = [epochs EXCEPT ![t] = e]
  BY DEF Acquire
<1> HIDE DEF e
<1>3. e \in Epoch
  BY <1>1, <1>2, LimitAssumption DEF Epoch
<1>4. [epoch |-> e, pid |-> c] # None
  BY <1>3, NoneAssumption
<1> QED
  BY <1>1, <1>2, <1>4

LEMMA RowsStayLast == ASSUME TypeOK, RowsAreLast, TableMoves PROVE RowsAreLast'
<1>1. CASE UNCHANGED <<lease, epochs>>
  BY <1>1 DEF RowsAreLast
<1>2. ASSUME NEW t \in Task, lease' = [lease EXCEPT ![t] = None], UNCHANGED epochs
      PROVE  RowsAreLast'
  <2>1. \A u \in Task : lease'[u] \in {lease[u], None}
    BY <1>2 DEF TypeOK
  <2> QED
    BY <1>2, <2>1 DEF RowsAreLast
<1>3. ASSUME NEW c \in Controller, NEW t \in Task, Acquire(c, t) PROVE RowsAreLast'
  <2>1. /\ \A u \in Task \ {t} : lease'[u] = lease[u] /\ epochs'[u] = epochs[u]
        /\ lease'[t].epoch = epochs[t] + 1 /\ epochs'[t] = epochs[t] + 1
    BY <1>3, GrantedNext DEF TypeOK
  <2> QED
    BY <2>1 DEF RowsAreLast
<1> QED
  BY <1>1, <1>2, <1>3 DEF TableMoves

LEMMA TableStep ==
    ASSUME TypeOK, RowsAreLast, TableMoves
    PROVE  [Table!Next]_(Table!table)
<1> DEFINE running == {c \in Controller : Alive(c)}
<1>1. CASE UNCHANGED <<lease, epochs>>
  <2>1. Holder' = Holder /\ running' \in SUBSET Controller
    BY <1>1 DEF Holder
  <2> QED
    BY <1>1, <2>1 DEF Table!Next, Table!Live
<1>2. ASSUME NEW t \in Task, lease' = [lease EXCEPT ![t] = None], UNCHANGED <<epochs, up>>
      PROVE  [Table!Next]_(Table!table)
  <2>1. running' = running
    BY <1>2 DEF Alive
  <2>2. Holder' = [Holder EXCEPT ![t] = {}]
    BY <1>2 DEF Holder, TypeOK
  <2> QED
    BY <1>2, <2>1, <2>2 DEF Table!Next, Table!Release
<1>3. ASSUME NEW c \in Controller, NEW t \in Task, Acquire(c, t), UNCHANGED up
      PROVE  [Table!Next]_(Table!table)
  <2>1. running' = running
    BY <1>3 DEF Alive
  <2>2. c \in running /\ Holder[t] \cap running = {}
    BY <1>3 DEF Acquire, At, Holder
  <2>3. Holder' = [Holder EXCEPT ![t] = {c}]
    <3>1. /\ \A u \in Task \ {t} : lease'[u] = lease[u]
          /\ lease'[t] # None /\ lease'[t].pid = c
      BY <1>3, GrantedNext DEF TypeOK
    <3> QED
      BY <3>1 DEF Holder
  <2>4. epochs' = [epochs EXCEPT ![t] = epochs[t] + 1]
    BY <1>3, GrantedNext
  <2> QED
    BY <2>1, <2>2, <2>3, <2>4 DEF Table!Next, Table!Grant
<1> QED
  BY <1>1, <1>2, <1>3 DEF TableMoves

\* UsesTable: the lease table this model has in place of RuntimeLease is the abstract table that one
\* implements, so leaving out clock, heartbeats and readers loses nothing the loop can see.
THEOREM LoopUsesTable == Spec => UsesTable
<1>1. Init => RowsAreLast /\ Table!Init
  BY DEF Init, RowsAreLast, Table!Init, Holder
<1>2. Inv => TypeOK
  BY DEF Inv
<1> QED
  BY <1>1, <1>2, TableMove, RowsStayLast, TableStep, InvAlways, PTL DEF Spec, UsesTable, Table!Spec
=============================================================================

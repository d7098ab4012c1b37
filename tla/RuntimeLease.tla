---------------------------- MODULE RuntimeLease ----------------------------
(***************************************************************************)
(* RuntimeLeaseManager (orchestrator/core/lease.py): one exclusive lease    *)
(* per task in a SQLite table shared by the processes of a host, and a      *)
(* second table that remembers the last epoch of every task.                *)
(*                                                                          *)
(* A process is its pid: it may end at any time and another one may get the *)
(* same pid.  acquire_lease and heartbeat read the clock, then wait for the *)
(* write lock, so they run on a clock reading that may be old; what they do *)
(* under BEGIN IMMEDIATE is one atomic action.  worker_id is a function of  *)
(* the task (loop.py:155), the same for every process, so it tells no two   *)
(* leases apart and is left out: only the epoch does.                       *)
(*                                                                          *)
(* A process acquires for itself (loop.py:156).  Whoever calls              *)
(* get_active_lease (cmd_cancel, and initialize_tasks when it recovers a    *)
(* session) may later release the lease it read.                            *)
(***************************************************************************)
EXTENDS Integers

CONSTANTS Process,      \* pids
          Task,         \* task ids
          Timeout,      \* timeout_seconds
          MaxTime,      \* bound on the clock
          MaxEpoch      \* bound on the epochs explored

ASSUME TimeAssumption == Timeout \in Nat /\ MaxTime \in Nat
ASSUME EpochAssumption == MaxEpoch \in Nat

VARIABLES
    now,        \* time.time()
    alive,      \* pids of running processes
    leases,     \* leases[t]: the row of table leases, or NoLease
    epochs,     \* epochs[t]: the row of table lease_epochs, 0 if there is none
    call,       \* call[p]: the acquire_lease or heartbeat p is in, or NoCall
    held,       \* held[p][t]: epoch p got from acquire_lease and has not released, or 0
    seen,       \* seen[p][t]: epoch p read with get_active_lease, or 0
    withdrawn   \* history variable: grants deleted by a process that had only read them

vars == <<now, alive, leases, epochs, call, held, seen, withdrawn>>

NoLease == [epoch |-> 0]
Lease == [epoch : Nat \ {0}, heartbeat_ts : Nat, pid : Process]
NoCall == [op |-> "none"]
Call == [op : {"acquire", "heartbeat"}, task : Task, now : Nat]

TypeOK ==
    /\ now \in Nat
    /\ alive \subseteq Process
    /\ leases \in [Task -> Lease \cup {NoLease}]
    /\ epochs \in [Task -> Nat]
    /\ call \in [Process -> Call \cup {NoCall}]
    /\ held \in [Process -> [Task -> Nat]]
    /\ seen \in [Process -> [Task -> Nat]]
    /\ withdrawn \subseteq Task \X Nat

Idle(p) == p \in alive /\ call[p] = NoCall
In(p, op, t) == p \in alive /\ call[p].op = op /\ call[p].task = t

-----------------------------------------------------------------------------
\* fault: an expired lease is given away even though its process still runs
MayTake_Expired(p, t) ==
    leases[t] # NoLease => leases[t].pid \notin alive \/ call[p].now - leases[t].heartbeat_ts > Timeout

\* acquire_lease raises while the process of an existing lease is alive, expired or not
MayTake(p, t) == leases[t] # NoLease => leases[t].pid \notin alive

\* fault: release_lease forgets the epochs of a task with its lease
NextEpoch_Restarts(t) == leases[t].epoch + 1

\* fault: the first grant after a release repeats the remembered epoch
NextEpoch_Repeats(t) == IF leases[t] # NoLease THEN leases[t].epoch + 1 ELSE epochs[t]

\* the epoch of the next grant: the row's, or the remembered one, plus one
NextEpoch(t) == IF leases[t] # NoLease THEN leases[t].epoch + 1 ELSE epochs[t] + 1

\* fault: the worker id alone selects the row to delete
Deletes_AnyEpoch(t, epoch) == leases[t] # NoLease

\* the row DELETE ... WHERE task_id = t AND worker_id = ... AND epoch = epoch finds
Deletes(t, epoch) == leases[t].epoch = epoch

-----------------------------------------------------------------------------
\* acquire_lease and heartbeat start by reading the clock
BeginAcquire(p, t) ==
    /\ Idle(p)
    /\ call' = [call EXCEPT ![p] = [op |-> "acquire", task |-> t, now |-> now]]
    /\ UNCHANGED <<now, alive, leases, epochs, held, seen, withdrawn>>

BeginHeartbeat(p, t) ==
    /\ Idle(p) /\ held[p][t] # 0
    /\ call' = [call EXCEPT ![p] = [op |-> "heartbeat", task |-> t, now |-> now]]
    /\ UNCHANGED <<now, alive, leases, epochs, held, seen, withdrawn>>

\* acquire_lease, granted: UPDATE or INSERT leases, and INSERT OR REPLACE lease_epochs
Acquire(p, t) ==
    /\ In(p, "acquire", t)
    /\ MayTake(p, t)
    /\ NextEpoch(t) <= MaxEpoch
    /\ leases' = [leases EXCEPT ![t] = [epoch |-> NextEpoch(t), heartbeat_ts |-> call[p].now, pid |-> p]]
    /\ epochs' = [epochs EXCEPT ![t] = NextEpoch(t)]
    /\ held' = [held EXCEPT ![p][t] = NextEpoch(t)]
    /\ call' = [call EXCEPT ![p] = NoCall]
    /\ UNCHANGED <<now, alive, seen, withdrawn>>

\* heartbeat, accepted: the epoch matches and the lease had not expired when the clock was read
Heartbeat(p, t) ==
    /\ In(p, "heartbeat", t)
    /\ leases[t] # NoLease /\ leases[t].epoch = held[p][t]
    /\ call[p].now - leases[t].heartbeat_ts <= Timeout
    /\ leases' = [leases EXCEPT ![t].heartbeat_ts = call[p].now]
    /\ call' = [call EXCEPT ![p] = NoCall]
    /\ UNCHANGED <<now, alive, epochs, held, seen, withdrawn>>

\* LeaseAcquisitionError, LeaseExpiredError, or the database stayed locked: nothing changes
CallRaises(p) ==
    /\ p \in alive /\ call[p] # NoCall
    /\ call' = [call EXCEPT ![p] = NoCall]
    /\ UNCHANGED <<now, alive, leases, epochs, held, seen, withdrawn>>

\* release_lease by the process that acquired the lease; no row with that epoch is no error
ReleaseOwn(p, t) ==
    /\ Idle(p) /\ held[p][t] # 0
    /\ leases' = IF Deletes(t, held[p][t]) THEN [leases EXCEPT ![t] = NoLease] ELSE leases
    /\ held' = [held EXCEPT ![p][t] = 0]
    /\ UNCHANGED <<now, alive, epochs, call, seen, withdrawn>>

\* get_active_lease, by a process that means to release what it finds
GetActiveLease(p, t) ==
    /\ Idle(p) /\ leases[t] # NoLease
    /\ seen' = [seen EXCEPT ![p][t] = leases[t].epoch]
    /\ UNCHANGED <<now, alive, leases, epochs, call, held, withdrawn>>

\* release_lease with the epoch of an earlier get_active_lease
ReleaseSeen(p, t) ==
    /\ Idle(p) /\ seen[p][t] # 0
    /\ leases' = IF Deletes(t, seen[p][t]) THEN [leases EXCEPT ![t] = NoLease] ELSE leases
    /\ withdrawn' = withdrawn \cup {<<t, seen[p][t]>>}
    /\ seen' = [seen EXCEPT ![p][t] = 0]
    /\ UNCHANGED <<now, alive, epochs, call, held>>

\* a process ends and forgets everything; its leases stay in the table
Exit(p) ==
    /\ p \in alive
    /\ alive' = alive \ {p}
    /\ call' = [call EXCEPT ![p] = NoCall]
    /\ held' = [held EXCEPT ![p] = [t \in Task |-> 0]]
    /\ seen' = [seen EXCEPT ![p] = [t \in Task |-> 0]]
    /\ UNCHANGED <<now, leases, epochs, withdrawn>>

\* a process starts, with a pid an ended one may have had
Start(p) ==
    /\ p \notin alive
    /\ alive' = alive \cup {p}
    /\ UNCHANGED <<now, leases, epochs, call, held, seen, withdrawn>>

Tick ==
    /\ now < MaxTime
    /\ now' = now + 1
    /\ UNCHANGED <<alive, leases, epochs, call, held, seen, withdrawn>>

Init ==
    /\ now = 0
    /\ alive = Process
    /\ leases = [t \in Task |-> NoLease]
    /\ epochs = [t \in Task |-> 0]
    /\ call = [p \in Process |-> NoCall]
    /\ held = [p \in Process |-> [t \in Task |-> 0]]
    /\ seen = [p \in Process |-> [t \in Task |-> 0]]
    /\ withdrawn = {}

Next ==
    \/ Tick
    \/ \E p \in Process : CallRaises(p) \/ Exit(p) \/ Start(p)
    \/ \E p \in Process, t \in Task :
          \/ BeginAcquire(p, t) \/ Acquire(p, t)
          \/ BeginHeartbeat(p, t) \/ Heartbeat(p, t)
          \/ ReleaseOwn(p, t)
          \/ GetActiveLease(p, t) \/ ReleaseSeen(p, t)

Spec == Init /\ [][Next]_vars

-----------------------------------------------------------------------------
\* Nobody takes a lease away from a running owner: as long as the process acquire_lease granted it
\* to runs and has not released it, the row is that process's and carries the epoch it was given,
\* unless someone who had read exactly this grant withdrew it.  Expiry, late calls, old readings
\* and other processes' releases do not matter.
OwnerKeepsLease ==
    \A p \in alive, t \in Task :
        held[p][t] # 0 /\ <<t, held[p][t]>> \notin withdrawn =>
            leases[t] # NoLease /\ leases[t].epoch = held[p][t] /\ leases[t].pid = p

\* A grant is newer than everything anybody remembers: its epoch is above the one any process holds
\* or has read, across releases, takeovers and restarts.  So an old epoch never fits a new lease.
EpochsAreFresh ==
    [][\A t \in Task :
          leases'[t] # NoLease /\ leases'[t].epoch # leases[t].epoch =>
              /\ \A p \in Process : held[p][t] < leases'[t].epoch /\ seen[p][t] < leases'[t].epoch
              /\ \A w \in withdrawn : w[1] = t => w[2] < leases'[t].epoch]_vars

\* The manager is a table of exclusive leases: expiry, renewals, late calls and readings are no more
\* than stutters of it, and NextEpoch numbers the grants without a gap.
Holder == [t \in Task |-> IF leases[t] = NoLease THEN {} ELSE {leases[t].pid}]
Table == INSTANCE LeaseTable WITH running <- alive, holder <- Holder, granted <- epochs
ImplementsTable == Table!Spec
=============================================================================

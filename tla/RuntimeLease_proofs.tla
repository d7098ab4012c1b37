------------------------- MODULE RuntimeLease_proofs -------------------------
(***************************************************************************)
(* What holds of the lease table for every number of processes and tasks,   *)
(* every timeout and every bound.  The clock appears nowhere in the proofs: *)
(* exclusion rests on the liveness check and on the epochs alone.           *)
(***************************************************************************)
EXTENDS RuntimeLease, TLAPS

\* Every epoch anybody remembers was once issued, and the row carries the last one.
EpochsIssued ==
    \A t \in Task :
        /\ leases[t] # NoLease => leases[t].epoch = epochs[t]
        /\ \A p \in Process : held[p][t] <= epochs[t] /\ seen[p][t] <= epochs[t]
        /\ \A w \in withdrawn : w[1] = t => w[2] <= epochs[t]

\* An ended process remembers nothing.
DeadForget == \A p \in Process \ alive : \A t \in Task : held[p][t] = 0

IInv == TypeOK /\ EpochsIssued /\ DeadForget /\ OwnerKeepsLease

\* Facts about the row constants used throughout.
LEMMA NoLeaseHasEpochZero == NoLease.epoch = 0 /\ \A l \in Lease : l # NoLease /\ l.epoch # 0
  BY DEF NoLease, Lease

\* The state variables keep their types: every step writes rows, calls and epochs of the right kind.
THEOREM TypeCorrect == Spec => []TypeOK
<1>1. Init => TypeOK
  BY DEF Init, TypeOK
<1>2. TypeOK /\ [Next]_vars => TypeOK'
  <2> SUFFICES ASSUME TypeOK, [Next]_vars PROVE TypeOK'
    OBVIOUS
  <2> USE DEF TypeOK
  <2>1. CASE Tick
    BY <2>1 DEF Tick
  <2>2. ASSUME NEW p \in Process, CallRaises(p) PROVE TypeOK'
    BY <2>2 DEF CallRaises
  <2>3. ASSUME NEW p \in Process, Exit(p) PROVE TypeOK'
    BY <2>3 DEF Exit
  <2>4. ASSUME NEW p \in Process, Start(p) PROVE TypeOK'
    BY <2>4 DEF Start
  <2>5. ASSUME NEW p \in Process, NEW t \in Task, BeginAcquire(p, t) PROVE TypeOK'
    BY <2>5 DEF BeginAcquire, Call
  <2>6. ASSUME NEW p \in Process, NEW t \in Task, Acquire(p, t) PROVE TypeOK'
    <3>1. call[p] \in Call
      BY <2>6 DEF Acquire, In, NoCall, Call
    <3>2. NextEpoch(t) \in Nat \ {0}
      BY NoLeaseHasEpochZero DEF NextEpoch, Lease
    <3>3. [epoch |-> NextEpoch(t), heartbeat_ts |-> call[p].now, pid |-> p] \in Lease
      BY <3>1, <3>2 DEF Call, Lease
    <3> QED
      BY <2>6, <3>2, <3>3 DEF Acquire
  <2>7. ASSUME NEW p \in Process, NEW t \in Task, BeginHeartbeat(p, t) PROVE TypeOK'
    BY <2>7 DEF BeginHeartbeat, Call
  <2>8. ASSUME NEW p \in Process, NEW t \in Task, Heartbeat(p, t) PROVE TypeOK'
    <3>1. call[p] \in Call /\ leases[t] \in Lease
      BY <2>8 DEF Heartbeat, In, NoCall, Call
    <3>2. [leases[t] EXCEPT !.heartbeat_ts = call[p].now] \in Lease
      BY <3>1 DEF Call, Lease
    <3> QED
      BY <2>8, <3>2 DEF Heartbeat
  <2>9. ASSUME NEW p \in Process, NEW t \in Task, ReleaseOwn(p, t) PROVE TypeOK'
    BY <2>9 DEF ReleaseOwn
  <2>10. ASSUME NEW p \in Process, NEW t \in Task, GetActiveLease(p, t) PROVE TypeOK'
    BY <2>10 DEF GetActiveLease, Lease
  <2>11. ASSUME NEW p \in Process, NEW t \in Task, ReleaseSeen(p, t) PROVE TypeOK'
    BY <2>11 DEF ReleaseSeen
  <2>12. CASE UNCHANGED vars
    BY <2>12 DEF vars
  <2> QED
    BY <2>1, <2>2, <2>3, <2>4, <2>5, <2>6, <2>7, <2>8, <2>9, <2>10, <2>11, <2>12 DEF Next
<1> QED
  BY <1>1, <1>2, PTL DEF Spec

\* What acquire_lease writes: the epoch after the last one issued, whether the row was there or not.
LEMMA GrantIsNextEpoch ==
  ASSUME TypeOK, EpochsIssued, NEW p \in Process, NEW t \in Task, Acquire(p, t)
  PROVE  /\ NextEpoch(t) = epochs[t] + 1
         /\ leases'[t] # NoLease /\ leases'[t].epoch = epochs[t] + 1 /\ leases'[t].pid = p
         /\ epochs' = [epochs EXCEPT ![t] = epochs[t] + 1]
         /\ held' = [held EXCEPT ![p][t] = epochs[t] + 1]
         /\ \A u \in Task : u # t => leases'[u] = leases[u]
<1>1. NextEpoch(t) = epochs[t] + 1
  BY DEF NextEpoch, EpochsIssued
<1> QED
  BY <1>1, NoLeaseHasEpochZero DEF Acquire, TypeOK, NoLease

\* The epochs stay below the remembered one: only a grant issues an epoch, and it writes both tables.
LEMMA EpochsStayIssued ==
  ASSUME TypeOK, TypeOK', EpochsIssued, [Next]_vars
  PROVE  EpochsIssued'
<1> USE DEF TypeOK, EpochsIssued
<1>1. CASE Tick
  BY <1>1 DEF Tick
<1>2. ASSUME NEW p \in Process, CallRaises(p) PROVE EpochsIssued'
  BY <1>2 DEF CallRaises
<1>3. ASSUME NEW p \in Process, Exit(p) PROVE EpochsIssued'
  BY <1>3 DEF Exit
<1>4. ASSUME NEW p \in Process, Start(p) PROVE EpochsIssued'
  BY <1>4 DEF Start
<1>5. ASSUME NEW p \in Process, NEW t \in Task, BeginAcquire(p, t) PROVE EpochsIssued'
  BY <1>5 DEF BeginAcquire
<1>6. ASSUME NEW p \in Process, NEW t \in Task, Acquire(p, t) PROVE EpochsIssued'
  <2>1. seen' = seen /\ withdrawn' = withdrawn
    BY <1>6 DEF Acquire
  <2>g. /\ leases'[t].epoch = epochs[t] + 1
        /\ epochs' = [epochs EXCEPT ![t] = epochs[t] + 1]
        /\ held' = [held EXCEPT ![p][t] = epochs[t] + 1]
        /\ \A u \in Task : u # t => leases'[u] = leases[u]
    BY <1>6, GrantIsNextEpoch
  <2>2. \A u \in Task : epochs'[u] \in Nat /\ epochs[u] <= epochs'[u]
    BY <2>g
  <2>3. \A u \in Task : leases'[u] # NoLease => leases'[u].epoch = epochs'[u]
    BY <2>g
  <2>4. \A q \in Process, u \in Task : held'[q][u] <= epochs'[u]
    <3> SUFFICES ASSUME NEW q \in Process, NEW u \in Task PROVE held'[q][u] <= epochs'[u]
      OBVIOUS
    <3>1. held[q][u] \in Nat /\ epochs[u] \in Nat /\ held[q][u] <= epochs[u]
      OBVIOUS
    <3>2. held'[q][u] = held[q][u] \/ (u = t /\ held'[q][u] = epochs[t] + 1)
      BY <2>g
    <3>3. epochs'[t] = epochs[t] + 1
      BY <2>g
    <3> QED
      BY <2>2, <3>1, <3>2, <3>3
  <2>5. \A w \in withdrawn : w[2] \in Nat
    OBVIOUS
  <2> QED
    BY <2>1, <2>2, <2>3, <2>4, <2>5
<1>7. ASSUME NEW p \in Process, NEW t \in Task, BeginHeartbeat(p, t) PROVE EpochsIssued'
  BY <1>7 DEF BeginHeartbeat
<1>8. ASSUME NEW p \in Process, NEW t \in Task, Heartbeat(p, t) PROVE EpochsIssued'
  <2>1. leases'[t].epoch = leases[t].epoch /\ \A u \in Task : u # t => leases'[u] = leases[u]
    BY <1>8, NoLeaseHasEpochZero DEF Heartbeat, Lease
  <2> QED
    BY <1>8, <2>1 DEF Heartbeat
<1>9. ASSUME NEW p \in Process, NEW t \in Task, ReleaseOwn(p, t) PROVE EpochsIssued'
  <2>1. \A u \in Task : leases'[u] = leases[u] \/ leases'[u] = NoLease
    BY <1>9 DEF ReleaseOwn
  <2>2. \A q \in Process, u \in Task : held'[q][u] = held[q][u] \/ held'[q][u] = 0
    BY <1>9 DEF ReleaseOwn
  <2> QED
    BY <1>9, <2>1, <2>2 DEF ReleaseOwn
<1>10. ASSUME NEW p \in Process, NEW t \in Task, GetActiveLease(p, t) PROVE EpochsIssued'
  <2>1. \A q \in Process, u \in Task : seen'[q][u] = seen[q][u] \/ seen'[q][u] = epochs[u]
    BY <1>10 DEF GetActiveLease
  <2> QED
    BY <1>10, <2>1 DEF GetActiveLease
<1>11. ASSUME NEW p \in Process, NEW t \in Task, ReleaseSeen(p, t) PROVE EpochsIssued'
  <2>1. \A u \in Task : leases'[u] = leases[u] \/ leases'[u] = NoLease
    BY <1>11 DEF ReleaseSeen
  <2>2. \A q \in Process, u \in Task : seen'[q][u] = seen[q][u] \/ seen'[q][u] = 0
    BY <1>11 DEF ReleaseSeen
  <2>3. \A w \in withdrawn' : w \in withdrawn \/ (w[1] = t /\ w[2] <= epochs[t])
    BY <1>11 DEF ReleaseSeen
  <2> QED
    BY <1>11, <2>1, <2>2, <2>3 DEF ReleaseSeen
<1>12. CASE UNCHANGED vars
  BY <1>12 DEF vars
<1> QED
  BY <1>1, <1>2, <1>3, <1>4, <1>5, <1>6, <1>7, <1>8, <1>9, <1>10, <1>11, <1>12 DEF Next

\* A process that ended holds nothing until it runs again.
LEMMA DeadStayForgetful ==
  ASSUME TypeOK, DeadForget, [Next]_vars
  PROVE  DeadForget'
<1> USE DEF TypeOK, DeadForget
<1>1. ASSUME NEW p \in Process, NEW t \in Task, Acquire(p, t) PROVE DeadForget'
  BY <1>1 DEF Acquire, In
<1>2. ASSUME NEW p \in Process, NEW t \in Task, ReleaseOwn(p, t) PROVE DeadForget'
  BY <1>2 DEF ReleaseOwn
<1>3. ASSUME NEW p \in Process, Exit(p) PROVE DeadForget'
  BY <1>3 DEF Exit
<1>4. ASSUME NEW p \in Process, Start(p) PROVE DeadForget'
  BY <1>4 DEF Start
<1>5. ASSUME UNCHANGED <<alive, held>> PROVE DeadForget'
  BY <1>5
<1> QED
  BY <1>1, <1>2, <1>3, <1>4, <1>5
     DEF Next, vars, Tick, CallRaises, BeginAcquire, BeginHeartbeat, Heartbeat, GetActiveLease, ReleaseSeen

\* The step case of exclusion, pointwise: whatever happens, the row of a running owner stays its own.
LEMMA OwnerStaysOwner ==
  ASSUME TypeOK, TypeOK', EpochsIssued, DeadForget, OwnerKeepsLease, [Next]_vars
  PROVE  OwnerKeepsLease'
<1> SUFFICES ASSUME NEW q \in Process, q \in alive', NEW u \in Task,
                    held'[q][u] # 0, <<u, held'[q][u]>> \notin withdrawn'
             PROVE  leases'[u] # NoLease /\ leases'[u].epoch = held'[q][u] /\ leases'[u].pid = q
  BY DEF OwnerKeepsLease, TypeOK
<1>1. withdrawn \subseteq withdrawn'
  BY DEF Next, vars, Tick, CallRaises, Exit, Start, BeginAcquire, Acquire, BeginHeartbeat, Heartbeat,
         ReleaseOwn, GetActiveLease, ReleaseSeen
<1>2. ASSUME held'[q][u] = held[q][u], q \in alive
      PROVE  leases[u] # NoLease /\ leases[u].epoch = held[q][u] /\ leases[u].pid = q
  BY <1>1, <1>2 DEF OwnerKeepsLease
<1>3. ASSUME NEW p \in Process, NEW t \in Task, Acquire(p, t)
      PROVE  leases'[u] # NoLease /\ leases'[u].epoch = held'[q][u] /\ leases'[u].pid = q
  <2>1. CASE p = q /\ t = u
    BY <1>3, <2>1, GrantIsNextEpoch DEF TypeOK
  <2>2. CASE ~(p = q /\ t = u)
    <3>1. held'[q][u] = held[q][u] /\ q \in alive
      BY <1>3, <2>2, GrantIsNextEpoch DEF TypeOK, Acquire
    <3>2. t # u
      \* q still runs, so its lease may not be taken
      BY <1>2, <1>3, <2>2, <3>1 DEF Acquire, MayTake
    <3> QED
      BY <1>2, <1>3, <3>1, <3>2, GrantIsNextEpoch
  <2> QED
    BY <2>1, <2>2
<1>4. ASSUME NEW p \in Process, NEW t \in Task, Heartbeat(p, t)
      PROVE  leases'[u] # NoLease /\ leases'[u].epoch = held'[q][u] /\ leases'[u].pid = q
  <2>1. held'[q][u] = held[q][u] /\ q \in alive
    BY <1>4 DEF Heartbeat
  <2>2. leases'[u] = leases[u] \/ leases'[u] = [leases[u] EXCEPT !.heartbeat_ts = call[p].now]
    BY <1>4 DEF Heartbeat, TypeOK
  <2>3. leases[u] \in Lease
    BY <1>2, <2>1 DEF TypeOK
  <2>4. leases'[u].epoch = leases[u].epoch /\ leases'[u].pid = leases[u].pid
    BY <2>2, <2>3 DEF Lease
  <2>5. leases'[u].epoch # 0
    BY <1>2, <2>1, <2>3, <2>4, NoLeaseHasEpochZero
  <2> QED
    BY <1>2, <2>1, <2>4, <2>5 DEF NoLease
<1>5. ASSUME NEW p \in Process, NEW t \in Task, ReleaseOwn(p, t)
      PROVE  leases'[u] # NoLease /\ leases'[u].epoch = held'[q][u] /\ leases'[u].pid = q
  <2>1. held'[q][u] = held[q][u] /\ q \in alive /\ ~(p = q /\ t = u)
    BY <1>5 DEF ReleaseOwn, TypeOK
  <2>2. leases'[u] = leases[u]
    \* if the row with p's epoch were the one deleted, p and q would own the same grant
    <3>1. ASSUME t = u, Deletes(t, held[p][t]) PROVE FALSE
      <4>1. held[p][u] = held[q][u] /\ p \in alive
        BY <1>2, <1>5, <2>1, <3>1 DEF Deletes, ReleaseOwn, Idle
      <4>2. <<u, held[p][u]>> \notin withdrawn /\ held[p][u] # 0
        BY <1>1, <2>1, <4>1
      <4>3. leases[u].pid = p
        BY <4>1, <4>2 DEF OwnerKeepsLease
      <4> QED
        BY <1>2, <2>1, <3>1, <4>3
    <3> QED
      BY <1>5, <3>1 DEF ReleaseOwn, TypeOK
  <2> QED
    BY <1>2, <2>1, <2>2
<1>6. ASSUME NEW p \in Process, NEW t \in Task, ReleaseSeen(p, t)
      PROVE  leases'[u] # NoLease /\ leases'[u].epoch = held'[q][u] /\ leases'[u].pid = q
  <2>1. held'[q][u] = held[q][u] /\ q \in alive
    BY <1>6 DEF ReleaseSeen
  <2>2. leases'[u] = leases[u]
    <3>1. ASSUME t = u, Deletes(t, seen[p][t]) PROVE FALSE
      BY <1>2, <1>6, <2>1, <3>1 DEF Deletes, ReleaseSeen
    <3> QED
      BY <1>6, <3>1 DEF ReleaseSeen, TypeOK
  <2> QED
    BY <1>2, <2>1, <2>2
<1>7. ASSUME NEW p \in Process, Exit(p)
      PROVE  leases'[u] # NoLease /\ leases'[u].epoch = held'[q][u] /\ leases'[u].pid = q
  <2>1. held'[q][u] = held[q][u] /\ q \in alive
    BY <1>7 DEF Exit, TypeOK
  <2> QED
    BY <1>2, <1>7, <2>1 DEF Exit
<1>8. ASSUME NEW p \in Process, Start(p)
      PROVE  leases'[u] # NoLease /\ leases'[u].epoch = held'[q][u] /\ leases'[u].pid = q
  <2>1. held'[q][u] = held[q][u] /\ q \in alive
    BY <1>8 DEF Start, DeadForget
  <2> QED
    BY <1>2, <1>8, <2>1 DEF Start
<1>9. ASSUME UNCHANGED <<alive, leases, held>>
      PROVE  leases'[u] # NoLease /\ leases'[u].epoch = held'[q][u] /\ leases'[u].pid = q
  BY <1>2, <1>9
<1> QED
  BY <1>3, <1>4, <1>5, <1>6, <1>7, <1>8, <1>9
     DEF Next, vars, Tick, CallRaises, BeginAcquire, BeginHeartbeat, GetActiveLease

\* The inductive invariant: exclusion needs the epochs to be issued once and the dead to forget.
LEMMA IInvHolds == Spec => []IInv
<1>1. Init => EpochsIssued /\ DeadForget /\ OwnerKeepsLease
  BY DEF Init, EpochsIssued, DeadForget, OwnerKeepsLease, NoLease
<1>2. TypeOK /\ TypeOK' /\ EpochsIssued /\ DeadForget /\ OwnerKeepsLease /\ [Next]_vars
      => EpochsIssued' /\ DeadForget' /\ OwnerKeepsLease'
  BY EpochsStayIssued, DeadStayForgetful, OwnerStaysOwner
<1> QED
  BY <1>1, <1>2, TypeCorrect, PTL DEF Spec, IInv

\* Nobody takes a lease away from a running owner, short of withdrawing exactly its grant:
\* acquire_lease's liveness check under BEGIN IMMEDIATE and the epoch in release_lease suffice.
THEOREM ExclusiveOwnership == Spec => []OwnerKeepsLease
<1>1. IInv => OwnerKeepsLease
  BY DEF IInv
<1> QED
  BY <1>1, IInvHolds, PTL

\* Two running processes both believe they own a task only if the grant of one was withdrawn.
THEOREM OneOwner ==
  Spec => [](\A p, q \in alive : \A t \in Task :
                p # q /\ held[p][t] # 0 /\ held[q][t] # 0 =>
                   <<t, held[p][t]>> \in withdrawn \/ <<t, held[q][t]>> \in withdrawn)
<1>1. IInv => \A p, q \in alive : \A t \in Task :
                p # q /\ held[p][t] # 0 /\ held[q][t] # 0 =>
                   <<t, held[p][t]>> \in withdrawn \/ <<t, held[q][t]>> \in withdrawn
  BY DEF IInv, OwnerKeepsLease
<1> QED
  BY <1>1, IInvHolds, PTL

\* Every grant carries an epoch above all those anybody still remembers, because lease_epochs
\* outlives the rows release_lease deletes.
THEOREM FreshEpochs == Spec => EpochsAreFresh
<1> DEFINE Fresh == \A t \in Task :
          leases'[t] # NoLease /\ leases'[t].epoch # leases[t].epoch =>
              /\ \A p \in Process : held[p][t] < leases'[t].epoch /\ seen[p][t] < leases'[t].epoch
              /\ \A w \in withdrawn : w[1] = t => w[2] < leases'[t].epoch
<1>1. IInv /\ [Next]_vars => Fresh
  <2> SUFFICES ASSUME TypeOK, EpochsIssued, [Next]_vars, NEW u \in Task,
                      leases'[u] # NoLease, leases'[u].epoch # leases[u].epoch
               PROVE  /\ \A p \in Process : held[p][u] < leases'[u].epoch /\ seen[p][u] < leases'[u].epoch
                      /\ \A w \in withdrawn : w[1] = u => w[2] < leases'[u].epoch
    BY DEF IInv
  <2>1. PICK p \in Process, t \in Task : Acquire(p, t)
    <3>1. ASSUME NEW p \in Process, NEW t \in Task, Heartbeat(p, t) PROVE FALSE
      <4>1. leases'[u] = leases[u] \/ (leases[u] \in Lease /\ leases'[u] = [leases[u] EXCEPT !.heartbeat_ts = call[p].now])
        BY <3>1 DEF Heartbeat, TypeOK
      <4> QED
        BY <4>1 DEF Lease
    <3>2. ASSUME NEW p \in Process, NEW t \in Task, ReleaseOwn(p, t) \/ ReleaseSeen(p, t) PROVE FALSE
      BY <3>2 DEF ReleaseOwn, ReleaseSeen, TypeOK
    <3> QED
      BY <3>1, <3>2 DEF Next, vars, Tick, CallRaises, Exit, Start, BeginAcquire, BeginHeartbeat, GetActiveLease
  <2>2. t = u /\ leases'[u].epoch = epochs[u] + 1
    BY <2>1, GrantIsNextEpoch
  <2>3. epochs[u] \in Nat /\ \A w \in withdrawn : w[2] \in Nat
    BY DEF TypeOK
  <2> QED
    BY <2>2, <2>3 DEF EpochsIssued, TypeOK
<1> HIDE DEF Fresh
<1>2. Spec => [][Fresh]_vars
  BY <1>1, IInvHolds, PTL DEF Spec
<1> QED
  BY <1>2 DEF EpochsAreFresh, Fresh

-----------------------------------------------------------------------------
(* The abstract table *)

LEMMA TableStart == Init => Table!Init
  BY DEF Init, Table!Init, Holder

\* A step that writes no row but heartbeats, nor starts or ends a process, is a stutter.
LEMMA TableStutters ==
  ASSUME TypeOK, UNCHANGED <<alive, epochs>>,
         \A t \in Task : \/ leases'[t] = leases[t]
                         \/ leases[t] \in Lease /\ leases'[t] \in Lease /\ leases'[t].pid = leases[t].pid
  PROVE  UNCHANGED Table!table
<1>1. \A t \in Task : (IF leases'[t] = NoLease THEN {} ELSE {leases'[t].pid})
                      = (IF leases[t] = NoLease THEN {} ELSE {leases[t].pid})
  BY NoLeaseHasEpochZero
<1>2. Holder' = Holder
  BY <1>1 DEF Holder
<1> QED
  BY <1>2 DEF Table!table

LEMMA TableGrants ==
  ASSUME TypeOK, EpochsIssued, NEW p \in Process, NEW t \in Task, Acquire(p, t)
  PROVE  Table!Grant(p, t)
<1>1. /\ leases'[t] # NoLease /\ leases'[t].pid = p
      /\ \A u \in Task : u # t => leases'[u] = leases[u]
      /\ epochs' = [epochs EXCEPT ![t] = epochs[t] + 1]
  BY GrantIsNextEpoch
<1>2. p \in alive /\ UNCHANGED alive
  BY DEF Acquire, In
<1>3. Holder[t] \cap alive = {}
  BY DEF Holder, Acquire, MayTake
<1>4. Holder' = [Holder EXCEPT ![t] = {p}]
  BY <1>1 DEF Holder
<1> QED
  BY <1>1, <1>2, <1>3, <1>4 DEF Table!Grant

LEMMA TableReleases ==
  ASSUME TypeOK, NEW t \in Task, leases' = [leases EXCEPT ![t] = NoLease], UNCHANGED <<alive, epochs>>
  PROVE  Table!Release(t)
<1>1. Holder' = [Holder EXCEPT ![t] = {}]
  BY DEF Holder, TypeOK
<1> QED
  BY <1>1 DEF Table!Release

LEMMA TableSteps ==
  ASSUME TypeOK, TypeOK', EpochsIssued, [Next]_vars
  PROVE  [Table!Next]_(Table!table)
<1>1. ASSUME UNCHANGED <<alive, leases, epochs>> PROVE UNCHANGED Table!table
  BY <1>1, TableStutters
<1>2. ASSUME NEW p \in Process, Exit(p) \/ Start(p) PROVE Table!Live
  <2>1. UNCHANGED <<leases, epochs>> /\ alive' \in SUBSET Process
    BY <1>2 DEF Exit, Start, TypeOK
  <2> QED
    BY <2>1 DEF Table!Live, Holder
<1>3. ASSUME NEW p \in Process, NEW t \in Task, Heartbeat(p, t) PROVE UNCHANGED Table!table
  <2>1. leases[t] \in Lease /\ UNCHANGED <<alive, epochs>>
    BY <1>3 DEF Heartbeat, TypeOK
  <2>2. leases' = [leases EXCEPT ![t].heartbeat_ts = call[p].now]
    BY <1>3 DEF Heartbeat
  <2>3. leases'[t].pid = leases[t].pid /\ leases'[t].epoch = leases[t].epoch
    BY <2>1, <2>2 DEF TypeOK, Lease
  <2>4. leases'[t] \in Lease
    BY <2>1, <2>3, NoLeaseHasEpochZero DEF TypeOK
  <2>5. \A u \in Task : u # t => leases'[u] = leases[u]
    BY <2>2 DEF TypeOK
  <2> QED
    BY <2>1, <2>3, <2>4, <2>5, TableStutters
<1>4. ASSUME NEW p \in Process, NEW t \in Task, ReleaseOwn(p, t) \/ ReleaseSeen(p, t)
      PROVE  Table!Release(t) \/ UNCHANGED Table!table
  BY <1>1, <1>4, TableReleases DEF ReleaseOwn, ReleaseSeen
<1>5. ASSUME NEW p \in Process, NEW t \in Task, Acquire(p, t) PROVE Table!Grant(p, t)
  BY <1>5, TableGrants
<1>6. CASE \/ Tick \/ UNCHANGED vars \/ \E p \in Process : CallRaises(p)
           \/ \E p \in Process, t \in Task : BeginAcquire(p, t) \/ BeginHeartbeat(p, t) \/ GetActiveLease(p, t)
  BY <1>1, <1>6 DEF Tick, vars, CallRaises, BeginAcquire, BeginHeartbeat, GetActiveLease
<1> QED
  BY <1>2, <1>3, <1>4, <1>5, <1>6 DEF Next, Table!Next

\* ImplementsTable: RuntimeLeaseManager is the abstract table of exclusive leases.  That the next epoch
\* follows the last one granted, whether its row is there or was deleted, is EpochsIssued.
THEOREM LeaseImplementsTable == Spec => ImplementsTable
<1>1. IInv => TypeOK /\ EpochsIssued
  BY DEF IInv
<1> QED
  BY <1>1, TableStart, TableSteps, IInvHolds, PTL DEF Spec, ImplementsTable, Table!Spec
=============================================================================

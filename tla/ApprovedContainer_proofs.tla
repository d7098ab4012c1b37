---------------------- MODULE ApprovedContainer_proofs ----------------------
(***************************************************************************)
(* Proofs about the approved execution, for any number of controllers,     *)
(* databases, tasks and tokens. A run has one owner, the controller whose  *)
(* INSERT succeeded, and a recovery does not begin before the owner is     *)
(* gone. So whoever is about to make or start the container is the only    *)
(* one who ever is (CtlInv), and what is true of a run while nobody is is  *)
(* true whatever the daemon carries out late (RunInv).                     *)
(* In a careful database nobody acts on a run that has its end             *)
(* (RecoversAlone, Underway), so that every write of a status is a step of *)
(* TaskRuns.                                                               *)
(***************************************************************************)
EXTENDS ApprovedContainer, TLAPS

-----------------------------------------------------------------------------
(* The invariant *)

\* The token of the run: issued for its task, consumed by it and by no other.
Approved(r) ==
    /\ Bound[execution[r].token] = TaskOf(r) /\ execution[r].token \in consumed
    /\ spent[execution[r].token] = {r}

Cleaned(r) ==
    \/ journal[r] # None /\ journal[r].cleanup = "CONFIRMED"
    \/ journal[r] # None /\ r \notin inputs
    \/ Saved(r)

Measured(r) ==
    execution[r] # None =>
        /\ execution[r].status = "SUCCESS" => exit[r] = 0
        /\ execution[r].status = "FAILED" => exit[r] = 1

RunInv(r) ==
    /\ execution[r] = None => journal[r] = None /\ starts[r] = 0 /\ <<"start", r>> \notin inflight
    /\ journal[r] = None => container[r] = "absent" /\ <<"create", r>> \notin inflight
    /\ journal[r] # None => /\ Approved(r)
                            /\ journal[r].id => container[r] # "absent"
    /\ <<"create", r>> \in inflight => container[r] = "absent"
    /\ <<"start", r>> \in inflight => starts[r] = 0
    /\ starts[r] <= 1
    /\ container[r] = "running" => starts[r] = 1
    /\ exit[r] # None => starts[r] = 1 /\ container[r] \in {"exited", "removed"}
    /\ Cleaned(r) => container[r] = "removed"
    /\ Measured(r)

Owns(c, r) == execution[r] # None /\ execution[r].owner = c

BeforeJournal == {"snapshot", "consume", "admit", "prepare"}
BeforeStart == BeforeJournal \cup {"create", "identify", "start"}
AfterCreate == {"identify", "start", "wait", "remember", "remove", "verify", "confirm", "discard", "publish"}

\* What a controller at its place knows of its run.
CtlInv(c) ==
    LET r == ctl[c].run
        at == ctl[c].at
    IN  /\ IF at = "idle" THEN ctl[c].outcome = None ELSE c \in alive /\ r \in Run
        /\ at = "check" => ctl[c].recovers /\ execution[r] # None
        /\ at \in StartPlace \cup {"publish"} => ~ctl[c].recovers
        /\ at \notin {"idle", "reserve"} /\ ~ctl[c].recovers => Owns(c, r) /\ ~Saved(r)
        /\ at \in StartPlace => ctl[c].token \in TokenId
        /\ at \in StartPlace \ {"reserve"} => execution[r].token = ctl[c].token
        /\ ctl[c].recovers /\ at \in ReconcilePlace \cup {"block"}
              => execution[r] # None /\ execution[r].owner \notin alive
        /\ at \in BeforeJournal => journal[r] = None
        /\ at \in BeforeStart => starts[r] = 0 /\ <<"start", r>> \notin inflight
        /\ at \in {"admit", "prepare"} => Approved(r)
        /\ at \in {"create", "identify", "start", "wait"} \cup ReconcilePlace => journal[r] # None
        /\ at = "create" => container[r] = "absent" /\ <<"create", r>> \notin inflight
        /\ at \in AfterCreate => container[r] # "absent"
        /\ at \in {"confirm", "discard", "publish"} => container[r] = "removed"
        /\ at \in {"remember", "remove", "verify", "confirm"}
              => /\ ctl[c].record # None
                 /\ ctl[c].record.cleanup = "CONFIRMED" => container[r] = "removed"
        /\ ctl[c].outcome # None => ctl[c].outcome = exit[r]
        /\ at = "publish" => ctl[c].outcome # None

TokenInv == \A k \in TokenId \ consumed : spent[k] = {}

Inv ==
    /\ TypeOK /\ TokenInv
    /\ \A r \in Run : RunInv(r)
    /\ \A c \in Controller : CtlInv(c)

-----------------------------------------------------------------------------
(* Control *)

Place == {"idle", "check", "publish", "block"} \cup StartPlace \cup ReconcilePlace

LEMMA IdleType == Idle \in Control /\ Idle.at = "idle" /\ Idle.outcome = None
  BY DEF Idle, Control

\* c is at place, and all it carries with it stays.
Moved(c, place) ==
    /\ ctl' \in [Controller -> Control]
    /\ ctl'[c].at = place /\ ctl'[c].run = ctl[c].run /\ ctl'[c].token = ctl[c].token
    /\ ctl'[c].outcome = ctl[c].outcome /\ ctl'[c].recovers = ctl[c].recovers
    /\ ctl'[c].record = ctl[c].record
    /\ \A d \in Controller \ {c} : ctl'[d] = ctl[d]

Left(c) ==
    /\ ctl' \in [Controller -> Control] /\ ctl'[c] = Idle
    /\ \A d \in Controller \ {c} : ctl'[d] = ctl[d]

LEMMA GotoMoves ==
    ASSUME TypeOK, NEW c \in Controller, NEW place \in Place, Goto(c, place)
    PROVE  Moved(c, place)
<1>1. ctl[c] \in Control
  BY DEF TypeOK
<1>2. [ctl[c] EXCEPT !.at = place] \in Control
  BY <1>1 DEF Control, Place
<1> QED
  BY <1>1, <1>2 DEF Goto, Moved, TypeOK, Control

LEMMA IdleLeaves ==
    ASSUME TypeOK, NEW c \in Controller, ctl' = [ctl EXCEPT ![c] = Idle]
    PROVE  Left(c)
  BY IdleType DEF Left, TypeOK

LEMMA RaiseMoves ==
    ASSUME TypeOK, NEW c \in Controller, Raise(c)
    PROVE  \/ ctl[c].recovers /\ Left(c)
           \/ ~ctl[c].recovers /\ Moved(c, "block")
<1>1. CASE ctl[c].recovers /\ ctl' = [ctl EXCEPT ![c] = Idle]
  BY <1>1, IdleLeaves
<1>2. CASE ~ctl[c].recovers /\ Goto(c, "block")
  BY <1>2, GotoMoves DEF Place
<1> QED
  BY <1>1, <1>2 DEF Raise

-----------------------------------------------------------------------------
(* What a step leaves of a run *)

TokensKeep == \A k \in TokenId : k \in consumed => k \in consumed' /\ spent'[k] = spent[k]

Same(q) ==
    /\ execution'[q] = execution[q] /\ journal'[q] = journal[q] /\ (q \in inputs' <=> q \in inputs)
    /\ container'[q] = container[q] /\ exit'[q] = exit[q] /\ starts'[q] = starts[q]
    /\ \A kind \in {"create", "start"} : <<kind, q>> \in inflight' <=> <<kind, q>> \in inflight

\* What no step undoes.
Keeps(r) ==
    /\ execution[r] # None => /\ execution'[r] # None
                              /\ execution'[r].owner = execution[r].owner
                              /\ execution'[r].token = execution[r].token
    /\ journal[r] # None => journal'[r] # None
    /\ container[r] # "absent" => container'[r] # "absent"
    /\ container[r] = "removed" => container'[r] = "removed"
    /\ exit[r] # None => exit'[r] = exit[r]

\* What only the owner undoes.
Quiet(r) ==
    /\ journal[r] = None => journal'[r] = None
    /\ starts[r] = 0 /\ <<"start", r>> \notin inflight => starts'[r] = 0 /\ <<"start", r>> \notin inflight'
    /\ container[r] = "absent" /\ <<"create", r>> \notin inflight
          => container'[r] = "absent" /\ <<"create", r>> \notin inflight'
    /\ ~Saved(r) => ~Saved(r)'

LEMMA ApprovedStays ==
    ASSUME TypeOK, TokensKeep, NEW r \in Run, Approved(r), execution'[r].token = execution[r].token
    PROVE  Approved(r)'
  BY DEF Approved, TokensKeep, TypeOK

LEMMA SameRun ==
    ASSUME TypeOK, TokensKeep, NEW r \in Run, RunInv(r), Same(r)
    PROVE  RunInv(r)' /\ Keeps(r) /\ Quiet(r)
<1>1. Approved(r) => Approved(r)'
  BY ApprovedStays DEF Same
<1>2. Cleaned(r)' <=> Cleaned(r)
  BY DEF Same, Cleaned, Saved
<1>3. Measured(r)' <=> Measured(r)
  BY DEF Same, Measured
<1>4. RunInv(r)'
  BY <1>1, <1>2, <1>3 DEF Same, RunInv
<1>5. Keeps(r)
  BY DEF Same, Keeps
<1>6. Quiet(r)
  BY DEF Same, Quiet, Saved
<1> QED
  BY <1>4, <1>5, <1>6

\* A controller that does nothing keeps what it knows: of its run by Keeps and, if it is the
\* owner, by Quiet.
LEMMA OthersKnow ==
    ASSUME TypeOK, TokensKeep, alive' \subseteq alive, NEW d \in Controller, CtlInv(d), ctl'[d] = ctl[d],
           d \in alive => d \in alive',
           ctl[d].at # "idle" => Keeps(ctl[d].run),
           ctl[d].at # "idle" /\ Owns(d, ctl[d].run) => Quiet(ctl[d].run)
    PROVE  CtlInv(d)'
<1> DEFINE r == ctl[d].run
           at == ctl[d].at
<1>1. CASE at = "idle"
  BY <1>1 DEF CtlInv, StartPlace, ReconcilePlace, BeforeJournal, BeforeStart, AfterCreate
<1>2. CASE at # "idle"
  <2>1. r \in Run /\ d \in alive' /\ Keeps(r)
    BY <1>2 DEF CtlInv
  <2>2. at \in {"admit", "prepare"} => Approved(r)'
    BY <2>1, ApprovedStays DEF CtlInv, Keeps, StartPlace, Owns
  <2>3. at \notin {"idle", "reserve"} /\ ~ctl[d].recovers => Owns(d, r)' /\ ~Saved(r)'
    BY <2>1 DEF CtlInv, Keeps, Quiet, Owns
  <2>4. at \in BeforeStart => Owns(d, r) /\ Quiet(r)
    BY <1>2 DEF CtlInv, StartPlace, BeforeStart, BeforeJournal
  <2> QED
    BY <1>2, <2>1, <2>2, <2>3, <2>4
    DEF CtlInv, Keeps, Quiet, Owns, StartPlace, ReconcilePlace, BeforeJournal, BeforeStart, AfterCreate
<1> QED
  BY <1>1, <1>2

\* How a step of the run r keeps the invariant.
LEMMA InvStep ==
    ASSUME Inv, TypeOK', TokenInv', alive' \subseteq alive, TokensKeep,
           NEW r \in Run, RunInv(r)', Keeps(r), \A q \in Run \ {r} : Same(q),
           \A d \in Controller :
              \/ CtlInv(d)'
              \/ /\ ctl'[d] = ctl[d] /\ (d \in alive => d \in alive')
                 /\ Quiet(r) \/ ~Owns(d, r)
    PROVE  Inv'
<1>1. \A q \in Run : RunInv(q)' /\ Keeps(q) /\ (q # r => Quiet(q))
  BY SameRun DEF Inv
<1>2. ASSUME NEW d \in Controller PROVE CtlInv(d)'
  <2>1. CASE /\ ctl'[d] = ctl[d] /\ (d \in alive => d \in alive')
             /\ Quiet(r) \/ ~Owns(d, r)
    <3>1. CtlInv(d)
      BY DEF Inv
    <3>2. ctl[d].at # "idle" => ctl[d].run \in Run
      BY <3>1 DEF CtlInv
    <3>3. /\ ctl[d].at # "idle" => Keeps(ctl[d].run)
          /\ ctl[d].at # "idle" /\ Owns(d, ctl[d].run) => Quiet(ctl[d].run)
      BY <1>1, <2>1, <3>2
    <3> QED
      BY <2>1, <3>1, <3>3, OthersKnow DEF Inv
  <2> QED
    BY <2>1
<1> QED
  BY <1>1, <1>2 DEF Inv

\* A step that leaves all runs alone.
LEMMA QuietStep ==
    ASSUME Inv, TypeOK', TokenInv', alive' \subseteq alive, TokensKeep, \A q \in Run : Same(q),
           \A d \in Controller : CtlInv(d)' \/ (ctl'[d] = ctl[d] /\ (d \in alive => d \in alive'))
    PROVE  Inv'
<1>1. \A q \in Run : RunInv(q)' /\ Keeps(q) /\ Quiet(q)
  BY SameRun DEF Inv
<1>2. ASSUME NEW d \in Controller, ctl'[d] = ctl[d], d \in alive => d \in alive' PROVE CtlInv(d)'
  <2>1. CtlInv(d)
    BY DEF Inv
  <2>2. ctl[d].at # "idle" => ctl[d].run \in Run
    BY <2>1 DEF CtlInv
  <2>3. ctl[d].at # "idle" => Keeps(ctl[d].run) /\ Quiet(ctl[d].run)
    BY <1>1, <2>2
  <2> QED
    BY <1>2, <2>1, <2>3, OthersKnow DEF Inv
<1> QED
  BY <1>1, <1>2 DEF Inv

LEMMA IdleStep ==
    ASSUME Inv, TypeOK', TokenInv', TokensKeep,
           UNCHANGED <<execution, journal, inputs, daemon, alive>>,
           \A d \in Controller : CtlInv(d)' \/ ctl'[d] = ctl[d]
    PROVE  Inv'
<1>1. \A q \in Run : Same(q)
  BY DEF Same, daemon
<1> QED
  BY <1>1, QuietStep

\* A step of the controller c in its run.
LEMMA ControllerStep ==
    ASSUME Inv, TypeOK', TokenInv', alive' = alive, TokensKeep,
           NEW c \in Controller, \A d \in Controller \ {c} : ctl'[d] = ctl[d], CtlInv(c)',
           NEW r \in Run, RunInv(r)', Keeps(r), \A q \in Run \ {r} : Same(q),
           Quiet(r) \/ Owns(c, r) \/ execution[r] = None
    PROVE  Inv'
<1>1. \A d \in Controller \ {c} : Quiet(r) \/ ~Owns(d, r)
  BY DEF Owns
<1> QED
  BY <1>1, InvStep

\* A controller that is in a call is in a run.
LEMMA AtRun ==
    ASSUME Inv, NEW c \in Controller, ctl[c].at # "idle"
    PROVE  /\ ctl[c].run \in Run /\ TypeOK /\ CtlInv(c) /\ ctl[c] \in Control
           /\ RunInv(ctl[c].run)
<1>1. CtlInv(c) /\ TypeOK
  BY DEF Inv
<1>2. ctl[c].run \in Run
  BY <1>1 DEF CtlInv
<1> QED
  BY <1>1, <1>2 DEF Inv, TypeOK

\* A controller that ends its call knows nothing.
LEMMA IdleKnows ==
    ASSUME NEW c \in Controller, ctl'[c] = Idle PROVE CtlInv(c)'
  BY DEF CtlInv, Idle, StartPlace, ReconcilePlace, BeforeJournal, BeforeStart, AfterCreate

-----------------------------------------------------------------------------
(* Requests to the daemon *)

Request == {"create", "start", "remove"}

LEMMA EffectFacts ==
    ASSUME TypeOK, NEW r \in Run, NEW kind \in Request, Effect(kind, r)
    PROVE  /\ container' \in [Run -> {"absent", "created", "running", "exited", "removed"}]
           /\ starts' \in [Run -> Nat] /\ exit' = exit
           /\ \A q \in Run \ {r} : container'[q] = container[q] /\ starts'[q] = starts[q]
           /\ \/ /\ kind = "create" /\ ~Exists(r)
                 /\ container'[r] = "created" /\ starts'[r] = starts[r]
              \/ /\ kind = "start" /\ container[r] \in {"created", "exited"}
                 /\ container'[r] = "running" /\ starts'[r] = starts[r] + 1
              \/ /\ kind = "remove" /\ Exists(r)
                 /\ container'[r] = "removed" /\ starts'[r] = starts[r]
              \/ /\ ~Accepts(kind, r)
                 /\ container'[r] = container[r] /\ starts'[r] = starts[r]
  BY DEF Effect, Accepts, Becomes, TypeOK

\* A request is carried out, now or late, by the daemon.
LEMMA EffectRun ==
    ASSUME Inv, NEW r \in Run, NEW kind \in Request, Effect(kind, r), TokensKeep,
           UNCHANGED <<execution, journal, inputs>>, journal[r] # None,
           kind = "create" => container[r] = "absent",
           kind = "start" => starts[r] = 0,
           \A k \in {"create", "start"} : <<k, r>> \in inflight' => <<k, r>> \in inflight /\ k # kind
    PROVE  RunInv(r)' /\ Keeps(r)
<1>1. RunInv(r) /\ TypeOK
  BY DEF Inv
<1>2. Approved(r)'
  BY <1>1, ApprovedStays DEF RunInv
<1>3. Keeps(r)
  BY <1>1, EffectFacts DEF Keeps, Accepts, Exists
<1>4. exit[r] # None => container'[r] \in {"exited", "removed"} /\ starts'[r] = 1
  BY <1>1, EffectFacts DEF RunInv, Accepts, Exists
<1>5. /\ container'[r] = "running" => starts'[r] = 1
      /\ starts'[r] <= 1
      /\ <<"start", r>> \in inflight' => starts'[r] = 0
  BY <1>1, EffectFacts DEF RunInv, Accepts, Exists, TypeOK
<1>6. <<"create", r>> \in inflight' => container'[r] = "absent"
  BY <1>1, EffectFacts DEF RunInv, Accepts, Exists
<1>7. Cleaned(r)' => container'[r] = "removed"
  BY <1>1, <1>3 DEF Keeps, RunInv, Cleaned, Saved
<1>8. Measured(r)'
  BY <1>1, EffectFacts DEF RunInv, Measured
<1>9. execution[r] # None
  BY <1>1 DEF RunInv
<1> QED
  BY <1>1, <1>2, <1>3, <1>4, <1>5, <1>6, <1>7, <1>8, <1>9, EffectFacts DEF RunInv, Keeps

\* Requests of c that nobody waits for any more.
LEMMA LostRun ==
    ASSUME Inv, NEW c \in Controller, ctl[c].at # "idle", NEW r \in Run, r = ctl[c].run,
           inflight \subseteq inflight', inflight' \ inflight \subseteq {<<ctl[c].at, r>>},
           UNCHANGED <<execution, journal, inputs, container, exit, starts>>, TokensKeep
    PROVE  RunInv(r)' /\ Keeps(r) /\ \A q \in Run \ {r} : Same(q)
<1>1. RunInv(r) /\ TypeOK /\ CtlInv(c)
  BY DEF Inv
<1>2. Approved(r) => Approved(r)'
  BY <1>1, ApprovedStays
<1>3. <<"create", r>> \in inflight' => container[r] = "absent" /\ journal[r] # None
  BY <1>1 DEF CtlInv, RunInv
<1>4. <<"start", r>> \in inflight' => starts[r] = 0 /\ execution[r] # None
  BY <1>1 DEF CtlInv, RunInv, BeforeStart, StartPlace, Owns
<1>5. (Cleaned(r)' <=> Cleaned(r)) /\ (Measured(r)' <=> Measured(r))
  BY DEF Cleaned, Saved, Measured
<1>6. RunInv(r)'
  BY <1>1, <1>2, <1>3, <1>4, <1>5 DEF RunInv
<1>7. \A q \in Run \ {r} : Same(q)
  BY DEF Same
<1> QED
  BY <1>6, <1>7 DEF Keeps

\* A request sent, answered or not.
LEMMA FailsRun ==
    ASSUME Inv, NEW c \in Controller, NEW kind \in Request, ctl[c].at = kind, NEW r \in Run, r = ctl[c].run,
           Fails(kind, r), UNCHANGED <<execution, journal, inputs>>, TokensKeep
    PROVE  /\ RunInv(r)' /\ Keeps(r) /\ \A q \in Run \ {r} : Same(q)
           /\ container' \in [Run -> {"absent", "created", "running", "exited", "removed"}]
           /\ starts' \in [Run -> Nat] /\ exit' = exit /\ inflight' \subseteq Request \X Run
<1>1. TypeOK /\ CtlInv(c) /\ RunInv(r)
  BY DEF Inv
<1>2. CASE UNCHANGED <<container, exit, starts>> /\ inflight' \in {inflight, inflight \cup {<<kind, r>>}}
  <2>0. /\ inflight \subseteq inflight' /\ inflight' \ inflight \subseteq {<<ctl[c].at, r>>}
        /\ ctl[c].at # "idle"
    BY <1>2 DEF Request
  <2>1. RunInv(r)' /\ Keeps(r) /\ \A q \in Run \ {r} : Same(q)
    BY <1>2, <2>0, LostRun
  <2> QED
    BY <1>1, <1>2, <2>1 DEF TypeOK, Request
<1>3. CASE Effect(kind, r) /\ UNCHANGED inflight
  <2>1. /\ journal[r] # None
        /\ kind = "create" => container[r] = "absent" /\ <<"create", r>> \notin inflight
        /\ kind = "start" => starts[r] = 0 /\ <<"start", r>> \notin inflight
    BY <1>1 DEF CtlInv, BeforeStart, ReconcilePlace, Request
  <2>2. RunInv(r)' /\ Keeps(r)
    BY <1>3, <2>1, EffectRun
  <2>3. \A q \in Run \ {r} : Same(q)
    BY <1>1, <1>3, EffectFacts DEF Same
  <2> QED
    BY <1>1, <1>3, <2>2, <2>3, EffectFacts DEF TypeOK, Request
<1> QED
  BY <1>2, <1>3 DEF Fails, daemon

-----------------------------------------------------------------------------
(* One lemma for each part of the next-state relation *)

LEMMA ApprovalStep ==
    ASSUME Inv, NEW k \in TokenId, Issue(k) \/ Expire(k) \/ RevokeToken(k)
    PROVE  Inv'
<1>1. TypeOK'
  BY DEF Inv, TypeOK, Issue, Expire, RevokeToken, MayRevoke, daemon
<1>2. /\ consumed' = consumed /\ spent' = spent /\ ctl' = ctl
      /\ UNCHANGED <<execution, journal, inputs, daemon, alive>>
  BY DEF Issue, Expire, RevokeToken
<1>3. TokenInv' /\ TokensKeep
  BY <1>2 DEF Inv, TokenInv, TokensKeep
<1> QED
  BY <1>1, <1>2, <1>3, IdleStep

LEMMA BeginStartStep ==
    ASSUME Inv, NEW c \in Controller, NEW r \in Run, NEW k \in TokenId, BeginStart(c, r, k)
    PROVE  Inv'
<1> DEFINE begun == [Idle EXCEPT !.at = "reserve", !.run = r, !.token = k]
<1>1. begun \in Control
  BY DEF Idle, Control, StartPlace
<1>2. /\ ctl'[c] = begun /\ ctl' \in [Controller -> Control]
      /\ \A d \in Controller \ {c} : ctl'[d] = ctl[d]
  BY <1>1 DEF BeginStart, Inv, TypeOK
<1>3. TypeOK'
  BY <1>2 DEF Inv, TypeOK, BeginStart, approvals, daemon
<1>4. TokenInv' /\ TokensKeep
  BY DEF Inv, TokenInv, TokensKeep, BeginStart, approvals
<1>5. CtlInv(c)'
  BY <1>2 DEF CtlInv, BeginStart, At, Idle, StartPlace, ReconcilePlace, BeforeJournal, BeforeStart, AfterCreate
<1> QED
  BY <1>2, <1>3, <1>4, <1>5, IdleStep DEF BeginStart

\* The INSERT decides who owns the run.
LEMMA ReserveStep ==
    ASSUME Inv, NEW c \in Controller, NEW r \in Run, r = ctl[c].run, Reserve(c)
    PROVE  Inv'
<1> DEFINE row == [token |-> ctl[c].token, status |-> "RESERVED", owner |-> c]
<1>0. TypeOK /\ CtlInv(c) /\ RunInv(r) /\ ctl[c] \in Control /\ ctl[c].token \in TokenId
  <2>1. TypeOK /\ CtlInv(c) /\ RunInv(r) /\ ctl[c] \in Control
    BY AtRun DEF Reserve, At
  <2> QED
    BY <2>1 DEF CtlInv, Reserve, At, StartPlace
<1>1. TokenInv' /\ TokensKeep
  BY DEF Inv, TokenInv, TokensKeep, Reserve, approvals
<1>2. CASE execution[r] = None /\ execution' = [execution EXCEPT ![r] = row] /\ Goto(c, "snapshot")
  <2>1. row \in Execution /\ row # None
    BY <1>0, NoneAssumption DEF Execution, RunStatus
  <2>2. execution'[r] = row /\ execution' \in [Run -> Execution \cup {None}]
    BY <1>0, <1>2, <2>1 DEF TypeOK
  <2>3. Moved(c, "snapshot")
    BY <1>0, <1>2, GotoMoves DEF Place, StartPlace
  <2>4. TypeOK'
    BY <1>0, <2>2, <2>3 DEF TypeOK, Reserve, Moved, approvals, daemon
  <2>5. \A q \in Run \ {r} : Same(q)
    BY <1>0, <1>2 DEF Same, Reserve, TypeOK, daemon
  <2>6. journal[r] = None /\ starts[r] = 0 /\ <<"start", r>> \notin inflight
    BY <1>0, <1>2 DEF RunInv
  <2>7. UNCHANGED <<journal, container, exit, starts, inflight, inputs, alive>>
    BY DEF Reserve, daemon
  <2>8. /\ execution'[r] # None /\ execution'[r].owner = c /\ execution'[r].token = ctl[c].token
        /\ execution'[r].status = "RESERVED"
    BY <2>1, <2>2
  <2> HIDE DEF row
  <2>9. RunInv(r)' /\ Keeps(r)
    BY <1>0, <1>2, <2>6, <2>7, <2>8 DEF RunInv, Keeps, Cleaned, Saved, Measured
  <2>10. CtlInv(c)'
    BY <1>0, <2>3, <2>6, <2>7, <2>8
    DEF CtlInv, Moved, Reserve, At, Owns, Saved, StartPlace, ReconcilePlace, BeforeJournal, BeforeStart, AfterCreate
  <2>11. \A d \in Controller \ {c} : ctl'[d] = ctl[d]
    BY <2>3 DEF Moved
  <2> QED
    BY <1>1, <1>2, <2>4, <2>5, <2>7, <2>9, <2>10, <2>11, ControllerStep
<1>3. CASE ctl' = [ctl EXCEPT ![c] = Idle] /\ UNCHANGED execution
  <2>1. Left(c)
    BY <1>0, <1>3, IdleLeaves
  <2>2. TypeOK'
    BY <1>0, <1>3, <2>1 DEF TypeOK, Reserve, Left, approvals, daemon
  <2>3. CtlInv(c)' /\ \A d \in Controller \ {c} : ctl'[d] = ctl[d]
    BY <2>1, IdleKnows DEF Left
  <2> QED
    BY <1>1, <1>3, <2>2, <2>3, IdleStep DEF Reserve
<1> QED
  BY <1>2, <1>3 DEF Reserve

\* A step that only moves the controller.
LEMMA MoveStep ==
    ASSUME Inv, NEW c \in Controller, ctl' \in [Controller -> Control],
           \A d \in Controller \ {c} : ctl'[d] = ctl[d], CtlInv(c)',
           UNCHANGED <<approvals, execution, journal, inputs, daemon, alive, cancelled>>
    PROVE  Inv'
<1>1. TypeOK'
  BY DEF Inv, TypeOK, approvals, daemon
<1>2. TokenInv' /\ TokensKeep
  BY DEF Inv, TokenInv, TokensKeep, approvals
<1> QED
  BY <1>1, <1>2, IdleStep

\* An exception: the call ends, or goes on to record BLOCKED.
LEMMA RaiseKnows ==
    ASSUME TypeOK, NEW c \in Controller, CtlInv(c), ctl[c].at \notin {"idle", "reserve"}, Raise(c),
           UNCHANGED <<execution, exit, alive>>
    PROVE  CtlInv(c)' /\ ctl' \in [Controller -> Control] /\ \A d \in Controller \ {c} : ctl'[d] = ctl[d]
<1>1. CASE Left(c)
  BY <1>1, IdleKnows DEF Left
<1>2. CASE ~ctl[c].recovers /\ Moved(c, "block")
  <2>1. CtlInv(c)'
    BY <1>2 DEF CtlInv, Moved, Owns, Saved, StartPlace, ReconcilePlace, BeforeJournal, BeforeStart, AfterCreate
  <2> QED
    BY <1>2, <2>1 DEF Moved
<1> QED
  BY <1>1, <1>2, RaiseMoves

LEMMA RaiseStep ==
    ASSUME Inv, NEW c \in Controller, ctl[c].at \notin {"idle", "reserve"}, Raise(c),
           UNCHANGED <<approvals, execution, journal, inputs, daemon, alive, cancelled>>
    PROVE  Inv'
<1>1. CtlInv(c)' /\ ctl' \in [Controller -> Control] /\ \A d \in Controller \ {c} : ctl'[d] = ctl[d]
  BY RaiseKnows DEF Inv, daemon
<1> QED
  BY <1>1, MoveStep

LEMMA SnapshotStep == ASSUME Inv, NEW c \in Controller, Snapshot(c) PROVE Inv'
<1>0. TypeOK /\ CtlInv(c)
  BY DEF Inv
<1>1. CASE Goto(c, "consume")
  <2>1. Moved(c, "consume")
    BY <1>0, <1>1, GotoMoves DEF Place, StartPlace
  <2>2. CtlInv(c)'
    BY <1>0, <2>1 DEF CtlInv, Snapshot, At, Moved, daemon, Owns, Saved, StartPlace, ReconcilePlace,
                      BeforeJournal, BeforeStart, AfterCreate
  <2> QED
    BY <2>1, <2>2, MoveStep DEF Moved, Snapshot
<1>2. CASE ctl' = [ctl EXCEPT ![c] = Idle]
  BY <1>0, <1>2, IdleLeaves, IdleKnows, MoveStep DEF Left, Snapshot
<1> QED
  BY <1>1, <1>2 DEF Snapshot

\* The token is bound to the task and was not consumed: from here on it is this run's.
LEMMA ConsumeStep ==
    ASSUME Inv, NEW c \in Controller, NEW r \in Run, r = ctl[c].run, Consume(c)
    PROVE  Inv'
<1> DEFINE k == ctl[c].token
<1>0. TypeOK /\ CtlInv(c) /\ RunInv(r) /\ ctl[c] \in Control
  BY AtRun DEF Consume, At
<1>1. k \in TokenId /\ execution[r] # None /\ execution[r].token = k
  BY <1>0 DEF CtlInv, Consume, At, StartPlace, Owns
<1>2. CASE /\ MayConsume(k, TaskOf(r)) /\ consumed' = consumed \cup {k}
           /\ spent' = [spent EXCEPT ![k] = @ \cup {r}] /\ Goto(c, "admit")
  <2>1. k \notin consumed /\ Bound[k] = TaskOf(r) /\ spent[k] = {} /\ k \in issued \ revoked
    BY <1>1, <1>2 DEF MayConsume, Inv, TokenInv
  <2>2. Moved(c, "admit")
    BY <1>0, <1>2, GotoMoves DEF Place, StartPlace
  <2>3. TypeOK'
    BY <1>0, <1>1, <1>2, <2>1, <2>2 DEF TypeOK, Consume, Moved, daemon
  <2>4. TokenInv' /\ TokensKeep
    BY <1>0, <1>1, <1>2, <2>1 DEF Inv, TokenInv, TokensKeep, TypeOK
  <2>5. Approved(r)'
    BY <1>0, <1>1, <1>2, <2>1 DEF Approved, Consume, TypeOK
  <2>6. UNCHANGED <<execution, journal, inputs, daemon, alive>>
    BY DEF Consume
  <2>7. CtlInv(c)'
    BY <1>0, <2>2, <2>5, <2>6 DEF CtlInv, Consume, At, Moved, daemon, Owns, Saved, StartPlace, ReconcilePlace,
                      BeforeJournal, BeforeStart, AfterCreate
  <2> QED
    BY <2>2, <2>3, <2>4, <2>6, <2>7, IdleStep DEF Moved
<1>3. CASE Raise(c) /\ UNCHANGED <<consumed, spent>>
  BY <1>3, RaiseStep DEF Consume, At, approvals
<1> QED
  BY <1>2, <1>3 DEF Consume

\* The owner's UPDATE of its row.
LEMMA StatusFacts ==
    ASSUME TypeOK, NEW r \in Run, execution[r] # None, NEW status \in RunStatus, SetStatus(r, status)
    PROVE  /\ execution' \in [Run -> Execution \cup {None}]
           /\ execution'[r] # None /\ execution'[r].status = status
           /\ execution'[r].owner = execution[r].owner /\ execution'[r].token = execution[r].token
           /\ \A q \in Run \ {r} : execution'[q] = execution[q]
<1>1. execution[r] \in Execution
  BY DEF TypeOK
<1>2. LET row == [execution[r] EXCEPT !.status = status] IN
      /\ row \in Execution /\ row.status = status
      /\ row.owner = execution[r].owner /\ row.token = execution[r].token
  BY <1>1 DEF Execution
<1>3. execution'[r] = [execution[r] EXCEPT !.status = status]
  BY DEF SetStatus, TypeOK
<1>4. execution'[r] \in Execution
  BY <1>2, <1>3
<1>5. execution'[r] # None
  BY <1>4, NoneAssumption
<1>6. execution' \in [Run -> Execution \cup {None}] /\ \A q \in Run \ {r} : execution'[q] = execution[q]
  BY <1>4 DEF SetStatus, TypeOK
<1> QED
  BY <1>2, <1>3, <1>5, <1>6

LEMMA AdmitStep ==
    ASSUME Inv, NEW c \in Controller, NEW r \in Run, r = ctl[c].run, Admit(c)
    PROVE  Inv'
<1>0. TypeOK /\ CtlInv(c) /\ RunInv(r) /\ ctl[c] \in Control
  BY AtRun DEF Admit, At
<1>1. Owns(c, r) /\ execution[r] # None /\ journal[r] = None /\ Approved(r)
  BY <1>0 DEF CtlInv, Admit, At, StartPlace, Owns, BeforeJournal
<1>2. /\ execution' \in [Run -> Execution \cup {None}]
      /\ execution'[r] # None /\ execution'[r].status = "ADMITTED"
      /\ execution'[r].owner = execution[r].owner /\ execution'[r].token = execution[r].token
      /\ \A q \in Run \ {r} : execution'[q] = execution[q]
  BY <1>0, <1>1, StatusFacts DEF Admit, RunStatus
<1>3. Moved(c, "prepare")
  BY <1>0, GotoMoves DEF Admit, Place, StartPlace
<1>4. UNCHANGED <<approvals, journal, inputs, container, exit, starts, inflight, alive, cancelled>>
  BY DEF Admit, daemon
<1>5. TypeOK'
  BY <1>0, <1>2, <1>3, <1>4 DEF TypeOK, Moved, approvals
<1>6. TokenInv' /\ TokensKeep
  BY <1>4 DEF Inv, TokenInv, TokensKeep, approvals
<1>7. Approved(r)'
  BY <1>0, <1>1, <1>2, <1>6, ApprovedStays
<1>8. RunInv(r)' /\ Keeps(r)
  BY <1>0, <1>1, <1>2, <1>4 DEF RunInv, Keeps, Cleaned, Saved, Measured
<1>9. CtlInv(c)'
  BY <1>0, <1>1, <1>2, <1>3, <1>4, <1>7
  DEF CtlInv, Moved, Admit, At, Owns, Saved, StartPlace, ReconcilePlace, BeforeJournal, BeforeStart, AfterCreate
<1>10. \A q \in Run \ {r} : Same(q)
  BY <1>2, <1>4 DEF Same
<1> QED
  BY <1>1, <1>3, <1>4, <1>5, <1>6, <1>8, <1>9, <1>10, ControllerStep DEF Moved

\* Before the intent there is neither a container nor a request to make one.
LEMMA PrepareStep ==
    ASSUME Inv, NEW c \in Controller, NEW r \in Run, r = ctl[c].run, Prepare(c)
    PROVE  Inv'
<1>0. TypeOK /\ CtlInv(c) /\ RunInv(r) /\ ctl[c] \in Control
  BY AtRun DEF Prepare, At
<1>1. CASE Raise(c) /\ UNCHANGED <<journal, inputs>>
  BY <1>1, RaiseStep DEF Prepare, At
<1>2. CASE Goto(c, "create") /\ Save(r, Intent(r)) /\ inputs' = inputs \cup {r}
  <2>1. /\ Owns(c, r) /\ execution[r] # None /\ journal[r] = None /\ Approved(r)
        /\ container[r] = "absent" /\ <<"create", r>> \notin inflight
    BY <1>0 DEF CtlInv, RunInv, Prepare, At, StartPlace, Owns, BeforeJournal
  <2>2. Moved(c, "create")
    BY <1>0, <1>2, GotoMoves DEF Place, StartPlace
  <2>3. Intent(r) \in Journal /\ Intent(r) # None /\ ~Intent(r).id /\ Intent(r).cleanup = "PENDING"
    <3>1. Intent(r) \in Journal
      BY DEF Intent, Journal
    <3>2. Intent(r).id = FALSE /\ Intent(r).cleanup = "PENDING"
      BY DEF Intent
    <3> QED
      BY <3>1, <3>2, NoneAssumption
  <2>4. /\ journal' \in [Run -> Journal \cup {None}] /\ journal'[r] = Intent(r)
        /\ \A q \in Run \ {r} : journal'[q] = journal[q]
    BY <1>0, <1>2, <2>3 DEF Save, TypeOK
  <2>5. UNCHANGED <<approvals, execution, container, exit, starts, inflight, alive, cancelled>>
    BY DEF Prepare, daemon
  <2>6. TypeOK'
    BY <1>0, <1>2, <2>2, <2>4, <2>5 DEF TypeOK, Moved, approvals
  <2>7. TokenInv' /\ TokensKeep /\ Approved(r)'
    BY <2>1, <2>5 DEF Inv, TokenInv, TokensKeep, approvals, Approved
  <2>8. ~Saved(r) /\ ~Saved(r)'
    BY <1>0, <2>5 DEF CtlInv, Prepare, At, StartPlace, Saved
  <2>9. RunInv(r)' /\ Keeps(r)
    BY <1>0, <1>2, <2>1, <2>3, <2>4, <2>5, <2>7, <2>8 DEF RunInv, Keeps, Cleaned, Measured
  <2>10. CtlInv(c)'
    BY <1>0, <2>1, <2>2, <2>3, <2>4, <2>5, <2>8
    DEF CtlInv, Moved, Prepare, At, Owns, StartPlace, ReconcilePlace, BeforeJournal, BeforeStart, AfterCreate
  <2>11. \A q \in Run \ {r} : Same(q)
    BY <1>2, <2>4, <2>5 DEF Same
  <2> QED
    BY <2>1, <2>2, <2>5, <2>6, <2>7, <2>9, <2>10, <2>11, ControllerStep DEF Moved
<1> QED
  BY <1>1, <1>2 DEF Prepare

-----------------------------------------------------------------------------
(* The container *)

LEMMA CreateStep ==
    ASSUME Inv, NEW c \in Controller, NEW r \in Run, r = ctl[c].run, Create(c)
    PROVE  Inv'
<1>0. TypeOK /\ CtlInv(c) /\ RunInv(r) /\ ctl[c] \in Control
  BY AtRun DEF Create, At
<1>1. /\ Owns(c, r) /\ execution[r] # None /\ journal[r] # None /\ container[r] = "absent"
      /\ starts[r] = 0 /\ <<"start", r>> \notin inflight /\ <<"create", r>> \notin inflight
      /\ ~Saved(r) /\ ~ctl[c].recovers
  BY <1>0 DEF CtlInv, Create, At, StartPlace, Owns, BeforeStart
<1>2. Fails("create", r)
  BY DEF Create, Fails
<1>3. UNCHANGED <<approvals, execution, journal, inputs, alive, cancelled>>
  BY DEF Create
<1>4. TokenInv' /\ TokensKeep
  BY <1>3 DEF Inv, TokenInv, TokensKeep, approvals
<1>5. /\ RunInv(r)' /\ Keeps(r) /\ \A q \in Run \ {r} : Same(q)
      /\ container' \in [Run -> {"absent", "created", "running", "exited", "removed"}]
      /\ starts' \in [Run -> Nat] /\ exit' = exit /\ inflight' \subseteq Request \X Run
  BY <1>2, <1>3, <1>4, FailsRun DEF Create, At, Request
<1>6. CASE ~Exists(r) /\ Effect("create", r) /\ Goto(c, "identify") /\ UNCHANGED inflight
  <2>1. container'[r] = "created" /\ starts'[r] = 0
    BY <1>0, <1>1, <1>6, EffectFacts DEF Request, Accepts
  <2>2. Moved(c, "identify")
    BY <1>0, <1>6, GotoMoves DEF Place, StartPlace
  <2>3. TypeOK'
    BY <1>0, <1>3, <1>5, <2>2 DEF TypeOK, Moved, approvals, Request
  <2>4. CtlInv(c)'
    BY <1>0, <1>1, <1>3, <1>5, <1>6, <2>1, <2>2
    DEF CtlInv, Moved, Create, At, Owns, Saved, StartPlace, ReconcilePlace, BeforeJournal, BeforeStart, AfterCreate
  <2> QED
    BY <1>1, <1>3, <1>4, <1>5, <2>2, <2>3, <2>4, ControllerStep DEF Moved
<1>7. CASE Goto(c, "find")
  <2>1. Moved(c, "find")
    BY <1>0, <1>7, GotoMoves DEF Place, ReconcilePlace
  <2>2. TypeOK'
    BY <1>0, <1>3, <1>5, <2>1 DEF TypeOK, Moved, approvals, Request
  <2>3. CtlInv(c)'
    BY <1>0, <1>1, <1>3, <1>5, <2>1
    DEF CtlInv, Moved, Create, At, Owns, Saved, StartPlace, ReconcilePlace, BeforeJournal, BeforeStart, AfterCreate
  <2> QED
    BY <1>1, <1>3, <1>4, <1>5, <2>1, <2>2, <2>3, ControllerStep DEF Moved
<1> QED
  BY <1>6, <1>7 DEF Create

LEMMA StartContainerStep ==
    ASSUME Inv, NEW c \in Controller, NEW r \in Run, r = ctl[c].run, StartContainer(c)
    PROVE  Inv'
<1>0. TypeOK /\ CtlInv(c) /\ RunInv(r) /\ ctl[c] \in Control
  BY AtRun DEF StartContainer, At
<1>1. Owns(c, r) /\ journal[r] # None /\ container[r] # "absent" /\ ~Saved(r) /\ ~ctl[c].recovers
  BY <1>0 DEF CtlInv, StartContainer, At, StartPlace, AfterCreate
<1>2. Fails("start", r) /\ (Goto(c, "wait") \/ Goto(c, "find"))
  BY DEF StartContainer, Fails, AfterLostStart
<1>3. UNCHANGED <<approvals, execution, journal, inputs, alive, cancelled>>
  BY DEF StartContainer
<1>4. TokenInv' /\ TokensKeep
  BY <1>3 DEF Inv, TokenInv, TokensKeep, approvals
<1>5. /\ RunInv(r)' /\ Keeps(r) /\ \A q \in Run \ {r} : Same(q)
      /\ container' \in [Run -> {"absent", "created", "running", "exited", "removed"}]
      /\ starts' \in [Run -> Nat] /\ exit' = exit /\ inflight' \subseteq Request \X Run
  BY <1>2, <1>3, <1>4, FailsRun DEF StartContainer, At, Request
<1>6. PICK place \in {"wait", "find"} : Moved(c, place)
  BY <1>0, <1>2, GotoMoves DEF Place, StartPlace, ReconcilePlace
<1>7. TypeOK'
  BY <1>0, <1>3, <1>5, <1>6 DEF TypeOK, Moved, approvals, Request
<1>8. CtlInv(c)'
  BY <1>0, <1>1, <1>3, <1>5, <1>6
  DEF CtlInv, Moved, StartContainer, At, Owns, Saved, Keeps, StartPlace, ReconcilePlace, BeforeJournal, BeforeStart,
      AfterCreate
<1> QED
  BY <1>1, <1>3, <1>4, <1>5, <1>6, <1>7, <1>8, ControllerStep DEF Moved

\* A write of the journal by one who knows that the container was made.
LEMMA SaveRun ==
    ASSUME Inv, NEW r \in Run, NEW record \in Journal, Save(r, record), journal[r] # None,
           UNCHANGED <<execution, container, exit, starts, inflight, inputs>>, TokensKeep,
           container[r] # "absent",
           record.cleanup = "CONFIRMED" => container[r] = "removed"
    PROVE  /\ journal' \in [Run -> Journal \cup {None}] /\ journal'[r] = record /\ record # None
           /\ RunInv(r)' /\ Keeps(r) /\ Quiet(r) /\ \A q \in Run \ {r} : Same(q)
<1>1. RunInv(r) /\ TypeOK
  BY DEF Inv
<1>2. record # None
  BY NoneAssumption
<1>3. /\ journal' \in [Run -> Journal \cup {None}] /\ journal'[r] = record
      /\ \A q \in Run \ {r} : journal'[q] = journal[q]
  BY <1>1 DEF Save, TypeOK
<1>4. Approved(r)'
  BY <1>1, ApprovedStays DEF RunInv
<1>5. Cleaned(r)' => container[r] = "removed"
  BY <1>1, <1>3 DEF RunInv, Cleaned, Saved
<1>6. Measured(r)'
  BY <1>1 DEF RunInv, Measured
<1>7. RunInv(r)'
  BY <1>1, <1>2, <1>3, <1>4, <1>5, <1>6 DEF RunInv
<1>8. Keeps(r) /\ Quiet(r) /\ \A q \in Run \ {r} : Same(q)
  BY <1>2, <1>3 DEF Keeps, Quiet, Saved, Same
<1> QED
  BY <1>2, <1>3, <1>7, <1>8

LEMMA IdentifyStep ==
    ASSUME Inv, NEW c \in Controller, NEW r \in Run, r = ctl[c].run, Identify(c)
    PROVE  Inv'
<1> DEFINE record == [journal[r] EXCEPT !.id = TRUE]
<1>0. TypeOK /\ CtlInv(c) /\ RunInv(r) /\ ctl[c] \in Control
  BY AtRun DEF Identify, At
<1>1. /\ Owns(c, r) /\ journal[r] # None /\ container[r] # "absent" /\ ~Saved(r) /\ ~ctl[c].recovers
      /\ starts[r] = 0 /\ <<"start", r>> \notin inflight
  BY <1>0 DEF CtlInv, Identify, At, StartPlace, AfterCreate, BeforeStart
<1>2. record \in Journal /\ (record.cleanup = "CONFIRMED" => container[r] = "removed")
  <2>1. journal[r] \in Journal
    BY <1>0, <1>1 DEF TypeOK
  <2>2. record \in Journal /\ record.cleanup = journal[r].cleanup
    BY <2>1 DEF Journal
  <2> QED
    BY <1>0, <1>1, <2>2 DEF RunInv, Cleaned
<1>3. Save(r, record) /\ UNCHANGED <<approvals, execution, inputs, container, exit, starts, inflight, alive, cancelled>>
  BY DEF Identify, daemon
<1>4. TokenInv' /\ TokensKeep
  BY <1>3 DEF Inv, TokenInv, TokensKeep, approvals
<1> HIDE DEF record
<1>5. /\ journal' \in [Run -> Journal \cup {None}] /\ journal'[r] = record /\ record # None
      /\ RunInv(r)' /\ Keeps(r) /\ Quiet(r) /\ \A q \in Run \ {r} : Same(q)
  BY <1>1, <1>2, <1>3, <1>4, SaveRun
<1>6. PICK place \in {"start", "find"} : Moved(c, place)
  BY <1>0, GotoMoves DEF Identify, Place, StartPlace, ReconcilePlace
<1>7. TypeOK'
  BY <1>0, <1>3, <1>5, <1>6 DEF TypeOK, Moved, approvals
<1>8. CtlInv(c)'
  BY <1>0, <1>1, <1>3, <1>5, <1>6
  DEF CtlInv, Moved, Identify, At, Owns, Saved, StartPlace, ReconcilePlace, BeforeJournal, BeforeStart, AfterCreate
<1> QED
  BY <1>3, <1>4, <1>5, <1>6, <1>7, <1>8, ControllerStep DEF Moved

LEMMA WaitStep == ASSUME Inv, NEW c \in Controller, Wait(c) PROVE Inv'
<1>0. TypeOK /\ CtlInv(c) /\ ctl[c] \in Control /\ ctl[c].run \in Run
  BY AtRun DEF Wait, At
<1>1. CASE ctl' = [ctl EXCEPT ![c].at = "find", ![c].outcome = ExitEvidence(ctl[c].run)]
  <2>1. [ctl[c] EXCEPT !.at = "find", !.outcome = exit[ctl[c].run]] \in Control
    BY <1>0 DEF TypeOK, Control, ReconcilePlace
  <2>2. /\ ctl' \in [Controller -> Control] /\ \A d \in Controller \ {c} : ctl'[d] = ctl[d]
        /\ ctl'[c].at = "find" /\ ctl'[c].run = ctl[c].run /\ ctl'[c].recovers = ctl[c].recovers
        /\ ctl'[c].outcome = exit[ctl[c].run]
    BY <1>0, <1>1, <2>1 DEF ExitEvidence, TypeOK, Control
  <2>3. CtlInv(c)'
    BY <1>0, <2>2 DEF CtlInv, Wait, At, daemon, Owns, Saved, StartPlace, ReconcilePlace, BeforeJournal, BeforeStart,
                      AfterCreate
  <2> QED
    BY <2>2, <2>3, MoveStep DEF Wait
<1>2. CASE Goto(c, "find")
  <2>1. Moved(c, "find")
    BY <1>0, <1>2, GotoMoves DEF Place, ReconcilePlace
  <2>2. CtlInv(c)'
    BY <1>0, <2>1 DEF CtlInv, Moved, Wait, At, daemon, Owns, Saved, StartPlace, ReconcilePlace, BeforeJournal,
                      BeforeStart, AfterCreate
  <2> QED
    BY <2>1, <2>2, MoveStep DEF Wait, Moved
<1> QED
  BY <1>1, <1>2 DEF Wait

-----------------------------------------------------------------------------
(* Reconciliation *)

LEMMA FindStep ==
    ASSUME Inv, NEW c \in Controller, NEW r \in Run, r = ctl[c].run, Find(c)
    PROVE  Inv'
<1>0. TypeOK /\ CtlInv(c) /\ RunInv(r) /\ ctl[c] \in Control
  BY AtRun DEF Find, At
<1>1. CASE Raise(c)
  BY <1>1, RaiseStep DEF Find, At
<1>2. CASE /\ journal[r] # None /\ MayConclude(journal[r], Exists(r))
           /\ ctl' = [ctl EXCEPT ![c].at = IF Exists(r) THEN "remember" ELSE "verify",
                                 ![c].record = journal[r]]
  <2>1. container[r] # "absent" /\ (journal[r].cleanup = "CONFIRMED" => container[r] = "removed")
    BY <1>0, <1>2 DEF MayConclude, Exists, RunInv, Cleaned
  <2>2. PICK place \in {"remember", "verify"} :
           /\ [ctl[c] EXCEPT !.at = place, !.record = journal[r]] \in Control
           /\ ctl' = [ctl EXCEPT ![c] = [ctl[c] EXCEPT !.at = place, !.record = journal[r]]]
    <3>1. ASSUME NEW place \in {"remember", "verify"}
          PROVE  [ctl[c] EXCEPT !.at = place, !.record = journal[r]] \in Control
      BY <1>0 DEF TypeOK, Control, ReconcilePlace
    <3> QED
      BY <1>2, <3>1
  <2>3. /\ ctl' \in [Controller -> Control] /\ \A d \in Controller \ {c} : ctl'[d] = ctl[d]
        /\ ctl'[c].at = place /\ ctl'[c].run = r /\ ctl'[c].recovers = ctl[c].recovers
        /\ ctl'[c].outcome = ctl[c].outcome /\ ctl'[c].record = journal[r]
    BY <1>0, <2>2 DEF TypeOK, Control
  <2>4. CtlInv(c)'
    BY <1>0, <1>2, <2>1, <2>3
    DEF CtlInv, Find, At, daemon, Owns, Saved, StartPlace, ReconcilePlace, BeforeJournal, BeforeStart, AfterCreate
  <2> QED
    BY <2>3, <2>4, MoveStep DEF Find
<1> QED
  BY <1>1, <1>2 DEF Find

LEMMA RememberStep ==
    ASSUME Inv, NEW c \in Controller, NEW r \in Run, r = ctl[c].run, Remember(c)
    PROVE  Inv'
<1> DEFINE record == [ctl[c].record EXCEPT !.id = TRUE]
           there == [ctl[c] EXCEPT !.at = "remove", !.record = record]
<1>0. TypeOK /\ CtlInv(c) /\ RunInv(r) /\ ctl[c] \in Control
  BY AtRun DEF Remember, At
<1>1. journal[r] # None /\ container[r] # "absent" /\ ctl[c].record # None
  BY <1>0 DEF CtlInv, Remember, At, ReconcilePlace, AfterCreate
<1>2. record \in Journal /\ record.cleanup = ctl[c].record.cleanup
  <2>1. ctl[c].record \in Journal
    BY <1>0, <1>1 DEF Control
  <2> QED
    BY <2>1 DEF Journal
<1>3. record.cleanup = "CONFIRMED" => container[r] = "removed"
  BY <1>0, <1>2 DEF CtlInv, Remember, At
<1>4. there \in Control /\ ctl' = [ctl EXCEPT ![c] = there]
  BY <1>0, <1>2 DEF Remember, Control, ReconcilePlace
<1>5. /\ ctl' \in [Controller -> Control] /\ \A d \in Controller \ {c} : ctl'[d] = ctl[d]
      /\ ctl'[c].at = "remove" /\ ctl'[c].run = r /\ ctl'[c].recovers = ctl[c].recovers
      /\ ctl'[c].outcome = ctl[c].outcome /\ ctl'[c].record = record
  BY <1>0, <1>4 DEF TypeOK, Control
<1>6. Save(r, record) /\ UNCHANGED <<approvals, execution, inputs, container, exit, starts, inflight, alive, cancelled>>
  BY DEF Remember, daemon
<1> HIDE DEF record, there
<1>7. TokenInv' /\ TokensKeep
  BY <1>6 DEF Inv, TokenInv, TokensKeep, approvals
<1>8. /\ journal' \in [Run -> Journal \cup {None}] /\ journal'[r] = record /\ record # None
      /\ RunInv(r)' /\ Keeps(r) /\ Quiet(r) /\ \A q \in Run \ {r} : Same(q)
  BY <1>1, <1>2, <1>3, <1>6, <1>7, SaveRun
<1>9. TypeOK'
  BY <1>0, <1>5, <1>6, <1>8 DEF TypeOK, approvals
<1>10. CtlInv(c)'
  <2>1. /\ ctl'[c].at = "remove" /\ ctl'[c].run = r /\ ctl'[c].record = record /\ journal'[r] # None
        /\ ctl'[c].recovers = ctl[c].recovers /\ ctl'[c].outcome = ctl[c].outcome
    BY <1>5, <1>8
  <2>2. ctl[c].at = "remember"
    BY DEF Remember, At
  <2> QED
    BY <1>0, <1>1, <1>3, <1>6, <1>8, <2>1, <2>2
    DEF CtlInv, Owns, Saved, StartPlace, ReconcilePlace, BeforeJournal, BeforeStart, AfterCreate
<1> QED
  BY <1>5, <1>6, <1>7, <1>8, <1>9, <1>10, ControllerStep

LEMMA RemoveStep ==
    ASSUME Inv, NEW c \in Controller, NEW r \in Run, r = ctl[c].run, Remove(c)
    PROVE  Inv'
<1>0. TypeOK /\ CtlInv(c) /\ RunInv(r) /\ ctl[c] \in Control
  BY AtRun DEF Remove, At
<1>1. journal[r] # None /\ container[r] # "absent"
  BY <1>0 DEF CtlInv, Remove, At, ReconcilePlace, AfterCreate
<1>2. Fails("remove", r)
  BY DEF Remove, Fails
<1>3. UNCHANGED <<approvals, execution, journal, inputs, alive, cancelled>>
  BY DEF Remove
<1>4. TokenInv' /\ TokensKeep
  BY <1>3 DEF Inv, TokenInv, TokensKeep, approvals
<1>5. /\ RunInv(r)' /\ Keeps(r) /\ \A q \in Run \ {r} : Same(q)
      /\ container' \in [Run -> {"absent", "created", "running", "exited", "removed"}]
      /\ starts' \in [Run -> Nat] /\ exit' = exit /\ inflight' \subseteq Request \X Run
  BY <1>2, <1>3, <1>4, FailsRun DEF Remove, At, Request
<1>6. Quiet(r)
  <2>1. starts'[r] = starts[r]
    BY <1>0, <1>2, EffectFacts DEF Fails, Request, daemon
  <2>2. <<"start", r>> \in inflight' => <<"start", r>> \in inflight
    BY <1>2 DEF Fails, daemon
  <2> QED
    BY <1>1, <1>3, <2>1, <2>2 DEF Quiet, Saved
<1>7. CtlInv(c)' /\ ctl' \in [Controller -> Control] /\ \A d \in Controller \ {c} : ctl'[d] = ctl[d]
  <2>1. CASE Goto(c, "verify")
    <3>1. Moved(c, "verify")
      BY <1>0, <2>1, GotoMoves DEF Place, ReconcilePlace
    <3>2. CtlInv(c)'
      BY <1>0, <1>1, <1>3, <1>5, <3>1
      DEF CtlInv, Moved, Remove, At, Owns, Saved, Keeps, StartPlace, ReconcilePlace, BeforeJournal, BeforeStart,
          AfterCreate
    <3> QED
      BY <3>1, <3>2 DEF Moved
  <2>2. CASE Raise(c)
    BY <1>0, <1>3, <1>5, <2>2, RaiseKnows DEF Remove, At
  <2> QED
    BY <2>1, <2>2 DEF Remove
<1>8. TypeOK'
  BY <1>0, <1>3, <1>5, <1>7 DEF TypeOK, approvals, Request
<1> QED
  BY <1>3, <1>4, <1>5, <1>6, <1>7, <1>8, ControllerStep

LEMMA VerifyStep == ASSUME Inv, NEW c \in Controller, Verify(c) PROVE Inv'
<1>0. TypeOK /\ CtlInv(c) /\ ctl[c].run \in Run
  BY AtRun DEF Verify, At
<1>1. CASE Raise(c)
  BY <1>1, RaiseStep DEF Verify, At
<1>2. CASE ~Exists(ctl[c].run) /\ Goto(c, "confirm")
  <2>1. Moved(c, "confirm")
    BY <1>0, <1>2, GotoMoves DEF Place, ReconcilePlace
  <2>2. container[ctl[c].run] = "removed"
    BY <1>0, <1>2 DEF CtlInv, Verify, At, AfterCreate, TypeOK, Exists
  <2>3. CtlInv(c)'
    BY <1>0, <2>1, <2>2 DEF CtlInv, Moved, Verify, At, daemon, Owns, Saved, StartPlace, ReconcilePlace,
                            BeforeJournal, BeforeStart, AfterCreate
  <2> QED
    BY <2>1, <2>3, MoveStep DEF Verify, Moved
<1> QED
  BY <1>1, <1>2 DEF Verify

LEMMA ConfirmStep ==
    ASSUME Inv, NEW c \in Controller, NEW r \in Run, r = ctl[c].run, Confirm(c)
    PROVE  Inv'
<1> DEFINE record == [ctl[c].record EXCEPT !.cleanup = "CONFIRMED"]
<1>0. TypeOK /\ CtlInv(c) /\ RunInv(r) /\ ctl[c] \in Control
  BY AtRun DEF Confirm, At
<1>1. journal[r] # None /\ container[r] = "removed" /\ ctl[c].record # None
  BY <1>0 DEF CtlInv, Confirm, At, ReconcilePlace
<1>2. record \in Journal
  <2>1. ctl[c].record \in Journal
    BY <1>0, <1>1 DEF Control
  <2> QED
    BY <2>1 DEF Journal
<1>3. Moved(c, "discard")
  BY <1>0, GotoMoves DEF Confirm, Place, ReconcilePlace
<1>4. Save(r, record) /\ UNCHANGED <<approvals, execution, inputs, container, exit, starts, inflight, alive, cancelled>>
  BY DEF Confirm, daemon
<1> HIDE DEF record
<1>5. TokenInv' /\ TokensKeep
  BY <1>4 DEF Inv, TokenInv, TokensKeep, approvals
<1>6. /\ journal' \in [Run -> Journal \cup {None}] /\ journal'[r] = record /\ record # None
      /\ RunInv(r)' /\ Keeps(r) /\ Quiet(r) /\ \A q \in Run \ {r} : Same(q)
  BY <1>1, <1>2, <1>4, <1>5, SaveRun
<1>7. TypeOK'
  BY <1>0, <1>3, <1>4, <1>6 DEF TypeOK, Moved, approvals
<1>8. CtlInv(c)'
  BY <1>0, <1>1, <1>3, <1>4, <1>6
  DEF CtlInv, Moved, Confirm, At, Owns, Saved, StartPlace, ReconcilePlace, BeforeJournal, BeforeStart, AfterCreate
<1> QED
  BY <1>3, <1>4, <1>5, <1>6, <1>7, <1>8, ControllerStep DEF Moved

LEMMA DiscardStep ==
    ASSUME Inv, NEW c \in Controller, NEW r \in Run, r = ctl[c].run, Discard(c)
    PROVE  Inv'
<1>0. TypeOK /\ CtlInv(c) /\ RunInv(r) /\ ctl[c] \in Control
  BY AtRun DEF Discard, At
<1>1. container[r] = "removed"
  BY <1>0 DEF CtlInv, Discard, At
<1>2. /\ inputs' = inputs \ {r}
      /\ UNCHANGED <<approvals, execution, journal, container, exit, starts, inflight, alive, cancelled>>
  BY DEF Discard, daemon
<1>3. PICK place \in {"block", "publish"} :
         Moved(c, place) /\ (place = "publish" => ~ctl[c].recovers /\ ctl[c].outcome # None)
  BY <1>0, GotoMoves DEF Discard, Place
<1>4. TokenInv' /\ TokensKeep
  BY <1>2 DEF Inv, TokenInv, TokensKeep, approvals
<1>5. TypeOK'
  BY <1>0, <1>2, <1>3 DEF TypeOK, Moved, approvals
<1>6. Approved(r) => Approved(r)'
  BY <1>2 DEF Approved, approvals
<1>7. RunInv(r)' /\ Keeps(r) /\ Quiet(r) /\ \A q \in Run \ {r} : Same(q)
  BY <1>0, <1>1, <1>2, <1>6 DEF RunInv, Keeps, Quiet, Same, Saved, Measured
<1>8. CtlInv(c)'
  BY <1>0, <1>1, <1>2, <1>3
  DEF CtlInv, Moved, Discard, At, Owns, Saved, StartPlace, ReconcilePlace, BeforeJournal, BeforeStart, AfterCreate
<1> QED
  BY <1>2, <1>3, <1>4, <1>5, <1>7, <1>8, ControllerStep DEF Moved

-----------------------------------------------------------------------------
(* The end of start_task, and recover_task *)

LEMMA PublishStep ==
    ASSUME Inv, NEW c \in Controller, NEW r \in Run, r = ctl[c].run, Publish(c)
    PROVE  Inv'
<1> DEFINE status == IF ctl[c].outcome = 0 THEN "SUCCESS" ELSE "FAILED"
<1>0. TypeOK /\ CtlInv(c) /\ RunInv(r) /\ ctl[c] \in Control
  BY AtRun DEF Publish, At
<1>1. CASE Raise(c) /\ UNCHANGED execution
  BY <1>1, RaiseStep DEF Publish, At
<1>2. CASE SetStatus(r, status) /\ ctl' = [ctl EXCEPT ![c] = Idle]
  <2>1. /\ Owns(c, r) /\ execution[r] # None /\ container[r] = "removed"
        /\ ctl[c].outcome \in {0, 1} /\ exit[r] = ctl[c].outcome
    BY <1>0 DEF CtlInv, Publish, At, Owns, Control
  <2>2. status \in RunStatus /\ (status = "SUCCESS" => exit[r] = 0) /\ (status = "FAILED" => exit[r] = 1)
    BY <2>1 DEF RunStatus
  <2> HIDE DEF status
  <2>3. /\ execution' \in [Run -> Execution \cup {None}]
        /\ execution'[r] # None /\ execution'[r].status = status
        /\ execution'[r].owner = execution[r].owner /\ execution'[r].token = execution[r].token
        /\ \A q \in Run \ {r} : execution'[q] = execution[q]
    BY <1>0, <1>2, <2>1, <2>2, StatusFacts
  <2>4. Left(c)
    BY <1>0, <1>2, IdleLeaves
  <2>5. UNCHANGED <<approvals, journal, inputs, container, exit, starts, inflight, alive, cancelled>>
    BY DEF Publish, daemon
  <2>6. TypeOK'
    BY <1>0, <2>3, <2>4, <2>5 DEF TypeOK, Left, approvals
  <2>7. TokenInv' /\ TokensKeep
    BY <2>5 DEF Inv, TokenInv, TokensKeep, approvals
  <2>8. Approved(r) => Approved(r)'
    BY <1>0, <2>3, <2>7, ApprovedStays
  <2>9. Measured(r)'
    BY <2>2, <2>3, <2>5 DEF Measured
  <2>10. RunInv(r)' /\ Keeps(r)
    BY <1>0, <2>1, <2>3, <2>5, <2>8, <2>9 DEF RunInv, Keeps
  <2>11. CtlInv(c)' /\ \A d \in Controller \ {c} : ctl'[d] = ctl[d]
    BY <2>4, IdleKnows DEF Left
  <2>12. \A q \in Run \ {r} : Same(q)
    BY <2>3, <2>5 DEF Same
  <2> QED
    BY <2>1, <2>5, <2>6, <2>7, <2>10, <2>11, <2>12, ControllerStep
<1> QED
  BY <1>1, <1>2 DEF Publish

LEMMA BlockStep ==
    ASSUME Inv, NEW c \in Controller, NEW r \in Run, r = ctl[c].run, Block(c)
    PROVE  Inv'
<1>0. TypeOK /\ CtlInv(c) /\ RunInv(r) /\ ctl[c] \in Control
  BY AtRun DEF Block, At
<1>1. execution[r] # None
  BY <1>0 DEF CtlInv, Block, At, Owns
<1>2. /\ execution' \in [Run -> Execution \cup {None}]
      /\ execution'[r] # None /\ execution'[r].status = "BLOCKED"
      /\ execution'[r].owner = execution[r].owner /\ execution'[r].token = execution[r].token
      /\ \A q \in Run \ {r} : execution'[q] = execution[q]
  BY <1>0, <1>1, StatusFacts DEF Block, RunStatus
<1>3. Left(c)
  BY <1>0, IdleLeaves DEF Block
<1>4. UNCHANGED <<approvals, journal, inputs, container, exit, starts, inflight, alive, cancelled>>
  BY DEF Block, daemon
<1>5. TypeOK'
  BY <1>0, <1>2, <1>3, <1>4 DEF TypeOK, Left, approvals
<1>6. TokenInv' /\ TokensKeep
  BY <1>4 DEF Inv, TokenInv, TokensKeep, approvals
<1>7. Approved(r) => Approved(r)'
  BY <1>0, <1>2, <1>6, ApprovedStays
<1>8. Cleaned(r)' => Cleaned(r)
  BY <1>2, <1>4 DEF Cleaned, Saved
<1>9. RunInv(r)' /\ Keeps(r)
  BY <1>0, <1>1, <1>2, <1>4, <1>7, <1>8 DEF RunInv, Keeps, Measured
<1>10. Quiet(r)
  BY <1>2, <1>4 DEF Quiet, Saved
<1>11. CtlInv(c)' /\ \A d \in Controller \ {c} : ctl'[d] = ctl[d]
  BY <1>3, IdleKnows DEF Left
<1>12. \A q \in Run \ {r} : Same(q)
  BY <1>2, <1>4 DEF Same
<1> QED
  BY <1>4, <1>5, <1>6, <1>9, <1>10, <1>11, <1>12, ControllerStep

LEMMA BeginRecoverStep ==
    ASSUME Inv, NEW c \in Controller, NEW r \in Run, BeginRecover(c, r)
    PROVE  Inv'
<1> DEFINE begun == [Idle EXCEPT !.at = "check", !.run = r, !.recovers = TRUE]
<1>1. begun \in Control
  BY DEF Idle, Control
<1>2. /\ ctl'[c] = begun /\ ctl' \in [Controller -> Control]
      /\ \A d \in Controller \ {c} : ctl'[d] = ctl[d]
  BY <1>1 DEF BeginRecover, Inv, TypeOK
<1>3. CtlInv(c)'
  BY <1>2 DEF CtlInv, BeginRecover, At, Idle, StartPlace, ReconcilePlace, BeforeJournal, BeforeStart, AfterCreate
<1> QED
  BY <1>2, <1>3, MoveStep DEF BeginRecover

LEMMA CheckOwnerStep == ASSUME Inv, NEW c \in Controller, CheckOwner(c) PROVE Inv'
<1> DEFINE r == ctl[c].run
<1>0. TypeOK /\ CtlInv(c)
  BY AtRun DEF CheckOwner, At
<1>1. CASE Raise(c)
  BY <1>1, RaiseStep DEF CheckOwner, At
<1>2. CASE OwnerGone(r) /\ Goto(c, IF journal[r] # None THEN "find" ELSE "block")
  <2>1. PICK place \in {"find", "block"} : Moved(c, place) /\ (place = "find" => journal[r] # None)
    BY <1>0, <1>2, GotoMoves DEF Place, ReconcilePlace
  <2>2. ctl[c].recovers /\ execution[r] # None /\ execution[r].owner \notin alive
    BY <1>0, <1>2 DEF CtlInv, CheckOwner, At, OwnerGone
  <2>3. CtlInv(c)'
    BY <1>0, <2>1, <2>2 DEF CtlInv, Moved, CheckOwner, At, daemon, Owns, Saved, StartPlace, ReconcilePlace,
                            BeforeJournal, BeforeStart, AfterCreate
  <2> QED
    BY <2>1, <2>3, MoveStep DEF CheckOwner, Moved
<1> QED
  BY <1>1, <1>2 DEF CheckOwner

-----------------------------------------------------------------------------
(* Crashes, the cancel command and the daemon *)

\* Only the owner can have a create or a start on its way when it dies.
LEMMA DieStep ==
    ASSUME Inv, NEW c \in Controller, c \in alive, Die(c), cancelled' \subseteq Run,
           UNCHANGED <<approvals, execution, journal, inputs, container, exit, starts>>
    PROVE  Inv'
<1>0. TypeOK /\ CtlInv(c)
  BY DEF Inv
<1>1. Left(c) /\ alive' = alive \ {c}
  BY <1>0, IdleLeaves DEF Die
<1>2. CtlInv(c)'
  BY <1>1, IdleKnows DEF Left
<1>3. /\ inflight \subseteq inflight'
      /\ inflight' \ inflight \subseteq {kind \in {"create", "start", "remove"} : ctl[c].at = kind} \X {ctl[c].run}
  BY DEF Die, Sending, At
<1>4. ctl[c].at \in {"create", "start", "remove"} => ctl[c].run \in Run
  BY <1>0 DEF CtlInv
<1>5. inflight' \subseteq {"create", "start", "remove"} \X Run
  BY <1>0, <1>3, <1>4 DEF TypeOK
<1>6. TypeOK'
  BY <1>0, <1>1, <1>5 DEF TypeOK, Left, approvals
<1>7. TokenInv' /\ TokensKeep
  BY DEF Inv, TokenInv, TokensKeep, approvals
<1>8. CASE ctl[c].at = "idle"
  <2>1. inflight' = inflight
    BY <1>3, <1>8
  <2>2. \A q \in Run : Same(q)
    BY <2>1 DEF Same
  <2>3. \A d \in Controller \ {c} : ctl'[d] = ctl[d] /\ (d \in alive => d \in alive')
    BY <1>1 DEF Left
  <2> QED
    BY <1>1, <1>2, <1>6, <1>7, <2>2, <2>3, QuietStep
<1>9. CASE ctl[c].at # "idle"
  <2>1. PICK r \in Run : r = ctl[c].run
    BY <1>0, <1>9 DEF CtlInv
  <2>2. inflight' \ inflight \subseteq {<<ctl[c].at, r>>}
    BY <1>3, <2>1
  <2>3. RunInv(r)' /\ Keeps(r) /\ \A q \in Run \ {r} : Same(q)
    BY <1>3, <1>7, <1>9, <2>1, <2>2, LostRun
  <2>4. Quiet(r) \/ Owns(c, r)
    <3>1. CASE Owns(c, r)
      BY <3>1
    <3>2. CASE ~Owns(c, r)
      <4>1. ctl[c].at \notin {"create", "start"}
        BY <1>0, <2>1, <3>2 DEF CtlInv, StartPlace
      <4>2. \A kind \in {"create", "start"} : <<kind, r>> \in inflight' => <<kind, r>> \in inflight
        BY <2>2, <4>1
      <4> QED
        BY <4>2 DEF Quiet, Saved
    <3> QED
      BY <3>1, <3>2
  <2>5. \A d \in Controller \ {c} :
           ctl'[d] = ctl[d] /\ (d \in alive => d \in alive') /\ (Quiet(r) \/ ~Owns(d, r))
    BY <1>1, <2>4 DEF Left, Owns
  <2> QED
    BY <1>1, <1>2, <1>6, <1>7, <2>3, <2>5, InvStep
<1> QED
  BY <1>8, <1>9

LEMMA CrashStep == ASSUME Inv, NEW c \in Controller, Crash(c) PROVE Inv'
  BY DieStep DEF Crash, Inv, TypeOK

LEMMA CancelStep == ASSUME Inv, NEW r \in Run, Cancel(r) PROVE Inv'
<1>0. TypeOK /\ cancelled' \subseteq Run
  BY DEF Cancel, Inv, TypeOK
<1>1. UNCHANGED <<approvals, execution, journal, inputs, container, exit, starts>>
  BY DEF Cancel
<1>2. CASE execution[r].owner \in alive /\ Die(execution[r].owner)
  BY <1>0, <1>1, <1>2, DieStep DEF TypeOK
<1>3. CASE UNCHANGED <<alive, ctl, inflight>>
  <2>1. TypeOK'
    BY <1>0, <1>1, <1>3 DEF TypeOK, approvals
  <2>2. TokenInv' /\ TokensKeep
    BY <1>1 DEF Inv, TokenInv, TokensKeep, approvals
  <2>3. \A q \in Run : Same(q)
    BY <1>1, <1>3 DEF Same
  <2> QED
    BY <1>3, <2>1, <2>2, <2>3, QuietStep
<1> QED
  BY <1>2, <1>3 DEF Cancel

LEMMA ContainerExitsStep == ASSUME Inv, NEW r \in Run, ContainerExits(r) PROVE Inv'
<1>0. TypeOK /\ RunInv(r)
  BY DEF Inv
<1>1. UNCHANGED <<approvals, execution, journal, inputs, inflight, starts, alive, ctl, cancelled>>
  BY DEF ContainerExits
<1>2. /\ container \in [Run -> {"absent", "created", "running", "exited", "removed"}]
      /\ container[r] = "running" /\ container' = [container EXCEPT ![r] = "exited"]
      /\ exit \in [Run -> {0, 1, None}]
      /\ exit' = [exit EXCEPT ![r] = 0] \/ exit' = [exit EXCEPT ![r] = 1]
  BY <1>0 DEF ContainerExits, TypeOK
<1>3. /\ container' \in [Run -> {"absent", "created", "running", "exited", "removed"}]
      /\ container'[r] = "exited" /\ exit' \in [Run -> {0, 1, None}]
      /\ \A q \in Run \ {r} : container'[q] = container[q] /\ exit'[q] = exit[q]
  BY <1>2
<1>4. starts[r] = 1 /\ exit[r] = None /\ ~Cleaned(r) /\ execution[r] # None
  BY <1>0, <1>2 DEF RunInv
<1>5. ~Cleaned(r)' /\ ~Saved(r)
  BY <1>1, <1>4 DEF Cleaned, Saved
<1>6. Approved(r) => Approved(r)'
  BY <1>1 DEF Approved, approvals
<1>7. Measured(r)'
  BY <1>1, <1>5 DEF Measured, Saved
<1>8. RunInv(r)' /\ Keeps(r) /\ Quiet(r) /\ \A q \in Run \ {r} : Same(q)
  BY <1>0, <1>1, <1>2, <1>3, <1>4, <1>5, <1>6, <1>7 DEF RunInv, Keeps, Quiet, Saved, Same
<1>9. TypeOK'
  BY <1>0, <1>1, <1>3 DEF TypeOK, approvals
<1>10. TokenInv' /\ TokensKeep
  BY <1>1 DEF Inv, TokenInv, TokensKeep, approvals
<1> QED
  BY <1>1, <1>8, <1>9, <1>10, InvStep

\* A request still in flight was sent by the owner, in the place of its only create or start, which
\* no other request of that kind followed.
LEMMA LateEffectStep ==
    ASSUME Inv, NEW r \in Run, NEW kind \in Request, LateEffect(kind, r)
    PROVE  Inv'
<1>0. TypeOK /\ RunInv(r) /\ <<kind, r>> \in inflight
  BY DEF Inv, LateEffect
<1>1. UNCHANGED <<approvals, execution, journal, inputs, alive, ctl, cancelled>>
  BY DEF LateEffect
<1>2. Effect(kind, r) /\ inflight' = inflight \ {<<kind, r>>}
  BY DEF LateEffect
<1>3. TokenInv' /\ TokensKeep
  BY <1>1 DEF Inv, TokenInv, TokensKeep, approvals
<1>4. TypeOK'
  BY <1>0, <1>1, <1>2, EffectFacts DEF TypeOK, approvals
<1>5. RunInv(r)' /\ Keeps(r)
  <2>1. CASE journal[r] # None
    <3>1. (kind = "create" => container[r] = "absent") /\ (kind = "start" => starts[r] = 0)
      BY <1>0 DEF RunInv
    <3>2. \A k \in {"create", "start"} : <<k, r>> \in inflight' => <<k, r>> \in inflight /\ k # kind
      BY <1>2
    <3> QED
      BY <1>1, <1>2, <1>3, <2>1, <3>1, <3>2, EffectRun
  <2>2. CASE journal[r] = None
    <3>1. container[r] = "absent" /\ kind # "create"
      BY <1>0, <2>2 DEF RunInv
    <3>2. container'[r] = container[r] /\ starts'[r] = starts[r] /\ exit' = exit
      BY <1>0, <1>2, <3>1, EffectFacts DEF Exists
    <3>3. (Cleaned(r)' <=> Cleaned(r)) /\ (Measured(r)' <=> Measured(r))
      BY <1>1, <3>2 DEF Cleaned, Saved, Measured
    <3> QED
      BY <1>0, <1>1, <1>2, <2>2, <3>1, <3>2, <3>3 DEF RunInv, Keeps
  <2> QED
    BY <2>1, <2>2
<1>6. Quiet(r)
  BY <1>0, <1>1, <1>2, EffectFacts DEF Quiet, Saved, Exists, Accepts, Request
<1>7. \A q \in Run \ {r} : Same(q)
  BY <1>0, <1>1, <1>2, EffectFacts DEF Same
<1> QED
  BY <1>1, <1>3, <1>4, <1>5, <1>6, <1>7, InvStep

-----------------------------------------------------------------------------
(* The theorems *)

LEMMA InvInit == Init => Inv
<1> SUFFICES ASSUME Init PROVE Inv
  OBVIOUS
<1>1. TypeOK
  BY IdleType DEF Init, TypeOK
<1>2. TokenInv
  BY DEF Init, TokenInv
<1>3. ASSUME NEW r \in Run PROVE RunInv(r)
  BY DEF Init, RunInv, Cleaned, Measured, Saved
<1>4. ASSUME NEW c \in Controller PROVE CtlInv(c)
  BY DEF Init, CtlInv, Idle, StartPlace, ReconcilePlace, BeforeJournal, BeforeStart, AfterCreate
<1> QED
  BY <1>1, <1>2, <1>3, <1>4 DEF Inv

\* A step of a controller in its run.
ControllerNext(c) ==
    \/ Reserve(c) \/ Snapshot(c) \/ Consume(c) \/ Admit(c)
    \/ Prepare(c) \/ Create(c) \/ Identify(c) \/ StartContainer(c) \/ Wait(c)
    \/ Find(c) \/ Remember(c) \/ Remove(c) \/ Verify(c) \/ Confirm(c) \/ Discard(c)
    \/ Publish(c) \/ Block(c) \/ CheckOwner(c)

LEMMA CallRun ==
    ASSUME Inv, NEW c \in Controller, ControllerNext(c)
    PROVE  ctl[c].run \in Run /\ ctl[c].at # "idle"
<1>1. ctl[c].at # "idle"
  BY DEF ControllerNext, At, Reserve, Snapshot, Consume, Admit, Prepare, Create, Identify, StartContainer, Wait,
         Find, Remember, Remove, Verify, Confirm, Discard, Publish, Block, CheckOwner
<1> QED
  BY <1>1, AtRun

LEMMA ControllerNextStep == ASSUME Inv, NEW c \in Controller, ControllerNext(c) PROVE Inv'
<1>1. PICK r \in Run : r = ctl[c].run
  BY CallRun
<1>2. CASE Reserve(c) \/ Snapshot(c) \/ Consume(c) \/ Admit(c)
  BY <1>1, <1>2, ReserveStep, SnapshotStep, ConsumeStep, AdmitStep
<1>3. CASE Prepare(c) \/ Create(c) \/ Identify(c) \/ StartContainer(c) \/ Wait(c)
  BY <1>1, <1>3, PrepareStep, CreateStep, IdentifyStep, StartContainerStep, WaitStep
<1>4. CASE Find(c) \/ Remember(c) \/ Remove(c) \/ Verify(c) \/ Confirm(c) \/ Discard(c)
  BY <1>1, <1>4, FindStep, RememberStep, RemoveStep, VerifyStep, ConfirmStep, DiscardStep
<1>5. CASE Publish(c) \/ Block(c) \/ CheckOwner(c)
  BY <1>1, <1>5, PublishStep, BlockStep, CheckOwnerStep
<1> QED
  BY <1>2, <1>3, <1>4, <1>5 DEF ControllerNext

LEMMA NextParts ==
    ASSUME Next
    PROVE  \/ \E k \in TokenId : Issue(k) \/ Expire(k) \/ RevokeToken(k)
           \/ \E c \in Controller : \/ ControllerNext(c) \/ Crash(c)
                                    \/ \E r \in Run : BeginRecover(c, r)
                                    \/ \E r \in Run, k \in TokenId : BeginStart(c, r, k)
           \/ \E r \in Run : Cancel(r) \/ ContainerExits(r) \/ \E kind \in Request : LateEffect(kind, r)
  BY DEF Next, ControllerNext, Request

LEMMA InvNext == Inv /\ [Next]_vars => Inv'
<1> SUFFICES ASSUME Inv, [Next]_vars PROVE Inv'
  OBVIOUS
<1>1. CASE UNCHANGED vars
  <2>1. UNCHANGED <<approvals, execution, journal, inputs, daemon, alive, ctl, cancelled>>
    BY <1>1 DEF vars
  <2>2. TypeOK'
    BY <2>1 DEF Inv, TypeOK, approvals, daemon
  <2>3. TokenInv' /\ TokensKeep
    BY <2>1 DEF Inv, TokenInv, TokensKeep, approvals
  <2> QED
    BY <2>1, <2>2, <2>3, IdleStep
<1>2. CASE Next
  <2>1. CASE \E k \in TokenId : Issue(k) \/ Expire(k) \/ RevokeToken(k)
    BY <2>1, ApprovalStep
  <2>2. ASSUME NEW c \in Controller,
               \/ ControllerNext(c) \/ Crash(c)
               \/ \E r \in Run : BeginRecover(c, r)
               \/ \E r \in Run, k \in TokenId : BeginStart(c, r, k)
        PROVE  Inv'
    BY <2>2, ControllerNextStep, CrashStep, BeginRecoverStep, BeginStartStep
  <2>3. ASSUME NEW r \in Run, Cancel(r) \/ ContainerExits(r) \/ \E kind \in Request : LateEffect(kind, r)
        PROVE  Inv'
    BY <2>3, CancelStep, ContainerExitsStep, LateEffectStep
  <2> QED
    BY <1>2, <2>1, <2>2, <2>3, NextParts
<1> QED
  BY <1>1, <1>2

LEMMA InvAlways == Spec => []Inv
  BY InvInit, InvNext, PTL DEF Spec

\* TypeOK.
THEOREM TypeCorrect == Spec => []TypeOK
<1>1. Inv => TypeOK
  BY DEF Inv
<1> QED
  BY <1>1, InvAlways, PTL

\* RunsAreApproved: no container is made for a token of another task, or for one token twice.
THEOREM ContainersAreApproved == Spec => []RunsAreApproved
<1>1. Inv => RunsAreApproved
  BY DEF Inv, RunInv, Approved, RunsAreApproved
<1> QED
  BY <1>1, InvAlways, PTL

\* StartedOnce: the command runs at most once, whatever is lost, late, crashed or recovered.
THEOREM CommandsRunOnce == Spec => []StartedOnce
<1>1. Inv => StartedOnce
  BY DEF Inv, RunInv, StartedOnce
<1> QED
  BY <1>1, InvAlways, PTL

\* JournalPrecedesContainer: what recover_task concludes from a missing journal is true.
THEOREM IntentComesFirst == Spec => []JournalPrecedesContainer
<1>1. Inv => JournalPrecedesContainer
  BY DEF Inv, RunInv, JournalPrecedesContainer
<1> QED
  BY <1>1, InvAlways, PTL

\* CleanupIsFinal: a confirmed cleanup, a deleted snapshot and a saved result each mean that the
\* container is gone for good.
THEOREM ConfirmedMeansRemoved == Spec => []CleanupIsFinal
<1>1. Inv => CleanupIsFinal
  BY DEF Inv, RunInv, Cleaned, CleanupIsFinal
<1> QED
  BY <1>1, InvAlways, PTL

\* ResultIsMeasured: SUCCESS and FAILED are the exit codes 0 and 1 of the container.
THEOREM ResultsAreTrue == Spec => []ResultIsMeasured
<1>1. Inv => ResultIsMeasured
  BY DEF Inv, RunInv, Measured, ResultIsMeasured
<1> QED
  BY <1>1, InvAlways, PTL

-----------------------------------------------------------------------------
(* A saved result where the operator is careful *)

\* Where no recovery begins beside another call, whoever recovers a run is alone in it: others can
\* only be about to be refused by the INSERT.
RecoversAlone(c) ==
    LET r == ctl[c].run IN
    ctl[c].recovers /\ ctl[c].at # "idle" /\ DatabaseOf(r) \in Careful =>
        /\ ~Saved(r)
        /\ \A d \in Controller \ {c} : ctl[d].run = r => ctl[d].at \in {"idle", "reserve"}

Kept == \A r \in Run : Saved(r) /\ DatabaseOf(r) \in Careful => execution'[r] = execution[r]

\* c goes on in its call or leaves it.
Onward(c) ==
    /\ ctl'[c].at # "idle" => /\ ctl[c].at \notin {"idle", "reserve"}
                              /\ ctl'[c].run = ctl[c].run /\ ctl'[c].recovers = ctl[c].recovers
    /\ \A d \in Controller \ {c} : ctl'[d] = ctl[d]

LEMMA OnwardAlone ==
    ASSUME Inv, \A d \in Controller : RecoversAlone(d), NEW c \in Controller, Onward(c),
           ctl[c].at # "idle", NEW r \in Run, r = ctl[c].run,
           \/ execution' = execution
           \/ /\ \A q \in Run \ {r} : execution'[q] = execution[q]
              /\ ctl[c].at \notin {"idle", "reserve"}
              /\ ctl[c].recovers => ~Saved(r)'
    PROVE  \A d \in Controller : RecoversAlone(d)'
<1> SUFFICES ASSUME NEW d \in Controller PROVE RecoversAlone(d)'
  OBVIOUS
<1>0. RecoversAlone(d) /\ RecoversAlone(c) /\ CtlInv(d)
  BY DEF Inv
<1>1. CASE ctl'[d].at = "idle" \/ ~ctl'[d].recovers
  BY <1>1 DEF RecoversAlone
<1>2. CASE ctl'[d].at # "idle" /\ ctl'[d].recovers
  <2>1. PICK q \in Run : q = ctl[d].run /\ ctl'[d].run = q /\ ctl[d].at # "idle" /\ ctl[d].recovers
    BY <1>0, <1>2 DEF Onward, CtlInv
  <2>2. DatabaseOf(q) \in Careful => ~Saved(q)'
    <3>1. CASE execution'[q] = execution[q]
      BY <1>0, <2>1, <3>1 DEF RecoversAlone, Saved
    <3>2. CASE execution'[q] # execution[q]
      <4>1. q = r /\ ctl[c].at \notin {"idle", "reserve"} /\ (ctl[c].recovers => ~Saved(r)')
        BY <3>2
      <4> QED
        BY <1>0, <2>1, <4>1 DEF RecoversAlone
    <3> QED
      BY <3>1, <3>2
  <2>3. ASSUME NEW e \in Controller \ {d}, ctl'[e].run = q, DatabaseOf(q) \in Careful
        PROVE  ctl'[e].at \in {"idle", "reserve"}
    BY <1>0, <2>1, <2>3 DEF RecoversAlone, Onward
  <2> QED
    BY <2>1, <2>2, <2>3 DEF RecoversAlone
<1> QED
  BY <1>1, <1>2

LEMMA ControllerOnward ==
    ASSUME Inv, NEW c \in Controller, ControllerNext(c), ~Reserve(c)
    PROVE  Onward(c)
<1>0. ctl \in [Controller -> Control] /\ TypeOK /\ ctl[c] \in Control
  BY DEF Inv, TypeOK
<1>1. ctl[c].at \notin {"idle", "reserve"}
  BY DEF ControllerNext, At, Snapshot, Consume, Admit, Prepare, Create, Identify, StartContainer, Wait,
         Find, Remember, Remove, Verify, Confirm, Discard, Publish, Block, CheckOwner
<1>2. ASSUME NEW place \in Place, Goto(c, place) PROVE Onward(c)
  BY <1>0, <1>1, <1>2, GotoMoves DEF Moved, Onward
<1>3. ASSUME ctl' = [ctl EXCEPT ![c] = Idle] PROVE Onward(c)
  BY <1>0, <1>3, IdleLeaves, IdleType DEF Left, Onward
<1>4. ASSUME Raise(c) PROVE Onward(c)
  BY <1>0, <1>1, <1>4, RaiseMoves, IdleType DEF Left, Moved, Onward
<1>5. CASE Wait(c) \/ Find(c) \/ Remember(c)
  <2>1. ASSUME NEW place, NEW f, ctl' = [ctl EXCEPT ![c].at = place, ![c].record = f] PROVE Onward(c)
    BY <1>0, <1>1, <2>1 DEF Onward, Control
  <2>2. ASSUME NEW place, NEW f, ctl' = [ctl EXCEPT ![c].at = place, ![c].outcome = f] PROVE Onward(c)
    BY <1>0, <1>1, <2>2 DEF Onward, Control
  <2> QED
    BY <1>2, <1>4, <1>5, <2>1, <2>2 DEF Wait, Find, Remember, Place, ReconcilePlace
<1>6. CASE Snapshot(c) \/ Consume(c) \/ Admit(c) \/ Prepare(c) \/ Create(c) \/ Identify(c) \/ StartContainer(c)
  BY <1>2, <1>3, <1>4, <1>6
  DEF Snapshot, Consume, Admit, Prepare, Create, Identify, StartContainer, AfterLostStart, Place, StartPlace,
      ReconcilePlace
<1>7. CASE Remove(c) \/ Verify(c) \/ Confirm(c) \/ Discard(c) \/ Publish(c) \/ Block(c) \/ CheckOwner(c)
  <2>1. Onward(c) \/ \E place \in Place : Goto(c, place)
    BY <1>3, <1>4, <1>7
    DEF Remove, Verify, Confirm, Discard, Publish, Block, CheckOwner, Place, ReconcilePlace
  <2> QED
    BY <1>2, <2>1
<1> QED
  BY <1>5, <1>6, <1>7 DEF ControllerNext

\* What the steps that write executions do.
LEMMA WriteFacts ==
    ASSUME Inv, NEW c \in Controller, NEW r \in Run, r = ctl[c].run, ControllerNext(c), ~Reserve(c)
    PROVE  \/ execution' = execution
           \/ /\ \A q \in Run \ {r} : execution'[q] = execution[q]
              /\ ctl[c].at \notin {"idle", "reserve"}
              /\ ctl[c].recovers => ~Saved(r)'
<1>1. CtlInv(c) /\ TypeOK
  BY DEF Inv
<1>2. CASE Admit(c) \/ Publish(c)
  <2>1. ctl[c].at \notin {"idle", "reserve"} /\ ~ctl[c].recovers
    BY <1>1, <1>2 DEF Admit, Publish, At, CtlInv, StartPlace
  <2>2. execution' = execution \/ \E status : SetStatus(r, status)
    BY <1>1, <1>2 DEF Admit, Publish
  <2> QED
    BY <1>1, <2>1, <2>2 DEF SetStatus, TypeOK
<1>3. CASE Block(c)
  <2>1. execution[r] # None /\ ctl[c].at \notin {"idle", "reserve"}
    BY <1>1, <1>3 DEF Block, At, CtlInv, Owns
  <2>2. execution'[r].status = "BLOCKED" /\ \A q \in Run \ {r} : execution'[q] = execution[q]
    BY <1>1, <1>3, <2>1, StatusFacts DEF Block, RunStatus
  <2> QED
    BY <1>1, <2>1, <2>2 DEF Saved
<1>4. CASE ~(Admit(c) \/ Publish(c) \/ Block(c))
  BY <1>4 DEF ControllerNext, Snapshot, Consume, Prepare, Create, Identify, StartContainer, Wait,
              Find, Remember, Remove, Verify, Confirm, Discard, CheckOwner
<1> QED
  BY <1>2, <1>3, <1>4

LEMMA AloneInit == Init => \A c \in Controller : RecoversAlone(c)
  BY DEF Init, Idle, RecoversAlone

\* A step that writes no row, and after which some controllers are at rest.
LEMMA RestAlone ==
    ASSUME Inv, \A d \in Controller : RecoversAlone(d), execution' = execution,
           \A d \in Controller : ctl'[d] = ctl[d] \/ ctl'[d].at = "idle"
    PROVE  \A d \in Controller : RecoversAlone(d)'
<1> SUFFICES ASSUME NEW d \in Controller, ctl'[d].at # "idle" PROVE RecoversAlone(d)'
  BY DEF RecoversAlone
<1>1. RecoversAlone(d) /\ ctl'[d] = ctl[d]
  OBVIOUS
<1> QED
  BY <1>1 DEF RecoversAlone, Saved

LEMMA RecoveryHasRow ==
    ASSUME Inv, NEW d \in Controller, ctl[d].recovers, ctl[d].at # "idle"
    PROVE  execution[ctl[d].run] # None /\ d \in alive /\ ctl[d].run \in Run
<1>1. CtlInv(d) /\ ctl[d] \in Control
  BY DEF Inv, TypeOK
<1> QED
  BY <1>1 DEF CtlInv, Control

LEMMA AloneStep ==
    ASSUME Inv, \A d \in Controller : RecoversAlone(d), NEW c \in Controller, ControllerNext(c)
    PROVE  (\A d \in Controller : RecoversAlone(d)') /\ Kept
<1>1. PICK r \in Run : r = ctl[c].run /\ ctl[c].at # "idle"
  BY CallRun
<1>2. TypeOK /\ CtlInv(c) /\ RecoversAlone(c)
  BY DEF Inv
<1>3. CASE ~Reserve(c)
  <2>1. Onward(c)
    BY <1>3, ControllerOnward
  <2>2. \/ execution' = execution
        \/ /\ \A q \in Run \ {r} : execution'[q] = execution[q]
           /\ ctl[c].at \notin {"idle", "reserve"}
           /\ ctl[c].recovers => ~Saved(r)'
    BY <1>1, <1>3, WriteFacts
  <2>3. \A d \in Controller : RecoversAlone(d)'
    BY <1>1, <2>1, <2>2, OnwardAlone
  <2>4. Kept
    BY <1>1, <1>2, <2>2 DEF Kept, CtlInv, RecoversAlone
  <2> QED
    BY <2>3, <2>4
<1>4. CASE Reserve(c)
  <2>1. CASE execution' = execution /\ ctl' = [ctl EXCEPT ![c] = Idle]
    <3>1. \A d \in Controller : ctl'[d] = ctl[d] \/ ctl'[d].at = "idle"
      BY <1>2, <2>1, IdleLeaves, IdleType DEF Left
    <3> QED
      BY <2>1, <3>1, RestAlone DEF Kept
  <2>2. CASE execution[r] = None /\ Goto(c, "snapshot") /\ \A q \in Run \ {r} : execution'[q] = execution[q]
    <3>1. Moved(c, "snapshot") /\ ~ctl[c].recovers
      BY <1>2, <1>4, <2>2, GotoMoves DEF Place, StartPlace, CtlInv, Reserve, At
    <3>2. ASSUME NEW d \in Controller PROVE RecoversAlone(d)'
      <4>1. CASE d = c
        BY <3>1, <4>1 DEF Moved, RecoversAlone
      <4>2. CASE d # c /\ ctl[d].recovers /\ ctl[d].at # "idle"
        <5>1. PICK q \in Run \ {r} : q = ctl[d].run
          BY <2>2, <4>2, RecoveryHasRow
        <5>2. RecoversAlone(d) /\ ctl'[d] = ctl[d] /\ execution'[q] = execution[q]
          BY <2>2, <3>1, <4>2 DEF Moved
        <5> QED
          BY <1>1, <3>1, <4>2, <5>1, <5>2 DEF Moved, RecoversAlone, Saved
      <4>3. CASE d # c /\ ~(ctl[d].recovers /\ ctl[d].at # "idle")
        BY <3>1, <4>3 DEF Moved, RecoversAlone
      <4> QED
        BY <4>1, <4>2, <4>3
    <3>3. Kept
      BY <2>2 DEF Kept, Saved
    <3> QED
      BY <3>2, <3>3
  <2> QED
    BY <1>1, <1>2, <1>4, <2>1, <2>2 DEF Reserve, TypeOK
<1> QED
  BY <1>3, <1>4

LEMMA BeginRecoverAlone ==
    ASSUME Inv, \A d \in Controller : RecoversAlone(d), NEW c \in Controller, NEW r \in Run, BeginRecover(c, r)
    PROVE  \A d \in Controller : RecoversAlone(d)'
<1>1. /\ ctl'[c].at = "check" /\ ctl'[c].run = r
      /\ \A d \in Controller \ {c} : ctl'[d] = ctl[d]
  BY DEF BeginRecover, Idle, Inv, TypeOK
<1>2. /\ execution' = execution /\ ~Saved(r) /\ execution[r] # None
      /\ \A k \in alive \ {c} : ctl[k].at # "idle" /\ DatabaseOf(ctl[k].run) = DatabaseOf(r) =>
            ~ctl[k].recovers /\ DatabaseOf(r) \notin Careful
  BY DEF BeginRecover, HasResult, Saved
<1>3. ASSUME NEW d \in Controller \ {c}, ctl[d].at # "idle", ctl[d].run = r
      PROVE  ~ctl[d].recovers /\ DatabaseOf(r) \notin Careful
  <2>1. d \in alive
    BY <1>3 DEF Inv, CtlInv
  <2> QED
    BY <1>2, <1>3, <2>1
<1>4. RecoversAlone(c)'
  BY <1>1, <1>2, <1>3 DEF RecoversAlone, Saved
<1>5. ASSUME NEW d \in Controller \ {c} PROVE RecoversAlone(d)'
  <2>1. RecoversAlone(d) /\ ctl'[d] = ctl[d]
    BY <1>1
  <2> QED
    BY <1>1, <1>2, <1>3, <2>1 DEF RecoversAlone, Saved
<1> QED
  BY <1>4, <1>5

LEMMA AloneNext ==
    ASSUME Inv, \A c \in Controller : RecoversAlone(c), [Next]_vars
    PROVE  (\A c \in Controller : RecoversAlone(c)') /\ Kept
<1>0. ctl \in [Controller -> Control] /\ TypeOK
  BY DEF Inv, TypeOK
<1>1. ASSUME execution' = execution, \A d \in Controller : ctl'[d] = ctl[d] \/ ctl'[d].at = "idle"
      PROVE  (\A c \in Controller : RecoversAlone(c)') /\ Kept
  BY <1>1, RestAlone DEF Kept
<1>2. CASE UNCHANGED vars
  BY <1>1, <1>2 DEF vars
<1>3. CASE \E k \in TokenId : Issue(k) \/ Expire(k) \/ RevokeToken(k)
  BY <1>1, <1>3 DEF Issue, Expire, RevokeToken
<1>4. ASSUME NEW c \in alive, c \in Controller, Die(c), execution' = execution
      PROVE  (\A d \in Controller : RecoversAlone(d)') /\ Kept
  <2>1. \A d \in Controller : ctl'[d] = ctl[d] \/ ctl'[d].at = "idle"
    BY <1>0, <1>4, IdleLeaves, IdleType DEF Die, Left
  <2> QED
    BY <1>1, <1>4, <2>1
<1>5. ASSUME NEW r \in Run, Cancel(r) \/ ContainerExits(r) \/ \E kind \in Request : LateEffect(kind, r)
      PROVE  (\A d \in Controller : RecoversAlone(d)') /\ Kept
  <2>1. execution' = execution
    BY <1>5 DEF Cancel, ContainerExits, LateEffect
  <2>2. CASE execution[r].owner \in alive /\ Die(execution[r].owner)
    BY <1>0, <1>4, <2>1, <2>2 DEF TypeOK
  <2>3. CASE ctl' = ctl
    BY <1>1, <2>1, <2>3
  <2> QED
    BY <1>5, <2>2, <2>3 DEF Cancel, ContainerExits, LateEffect
<1>6. ASSUME NEW c \in Controller, Crash(c)
      PROVE  (\A d \in Controller : RecoversAlone(d)') /\ Kept
  BY <1>4, <1>6 DEF Crash
<1>7. ASSUME NEW c \in Controller, NEW r \in Run, BeginRecover(c, r)
      PROVE  (\A d \in Controller : RecoversAlone(d)') /\ Kept
  BY <1>7, BeginRecoverAlone DEF BeginRecover, Kept
<1>8. ASSUME NEW c \in Controller, NEW r \in Run, NEW k \in TokenId, BeginStart(c, r, k)
      PROVE  (\A d \in Controller : RecoversAlone(d)') /\ Kept
  <2>1. /\ ctl'[c].at = "reserve" /\ ~ctl'[c].recovers /\ execution' = execution
        /\ \A d \in Controller \ {c} : ctl'[d] = ctl[d]
    BY <1>0, <1>8 DEF BeginStart, Idle
  <2>2. ASSUME NEW d \in Controller PROVE RecoversAlone(d)'
    <3>1. CASE d = c
      BY <2>1, <3>1 DEF RecoversAlone
    <3>2. CASE d # c
      <4>1. RecoversAlone(d) /\ ctl'[d] = ctl[d]
        BY <2>1, <3>2
      <4> QED
        BY <2>1, <4>1 DEF RecoversAlone, Saved
    <3> QED
      BY <3>1, <3>2
  <2> QED
    BY <2>1, <2>2 DEF Kept
<1> QED
  BY <1>2, <1>3, <1>5, <1>6, <1>7, <1>8, AloneStep, NextParts

LEMMA AloneAlways == Spec => [](\A c \in Controller : RecoversAlone(c))
<1> DEFINE Alone == \A c \in Controller : RecoversAlone(c)
<1>1. Init => Alone
  BY AloneInit
<1>2. Inv /\ Alone /\ [Next]_vars => Alone'
  BY AloneNext
<1> HIDE DEF Alone
<1>3. Spec => []Alone
  BY <1>1, <1>2, InvAlways, PTL DEF Spec
<1> QED
  BY <1>3 DEF Alone

\* SavedResultIsKept: where no recovery begins beside another call, neither a recovery nor a late
\* exception of start_task replaces a result that was saved.
THEOREM ResultsAreKept == Spec => SavedResultIsKept
<1> DEFINE Alone == \A c \in Controller : RecoversAlone(c)
<1>1. Inv /\ Alone /\ [Next]_vars => Kept
  BY AloneNext
<1>2. Spec => []Alone
  BY AloneAlways
<1> HIDE DEF Alone
<1>3. Spec => [][Kept]_vars
  BY <1>1, <1>2, InvAlways, PTL DEF Spec
<1> QED
  BY <1>3 DEF Kept, SavedResultIsKept

-----------------------------------------------------------------------------
(* The approved execution keeps the promise of an adapter *)

Unfinished(r) == execution[r] # None /\ execution[r].status \in {"RESERVED", "ADMITTED"}

\* A run that start_task is at work on has not ended: its owner is alive, so no recovery ends it.
Underway(c) == ~ctl[c].recovers /\ ctl[c].at \notin {"idle", "reserve"} => Unfinished(ctl[c].run)

\* What a step may write about a run.
RunStep(r) ==
    \/ execution'[r] = execution[r]
    \/ execution[r] = None /\ execution'[r] # None /\ execution'[r].status = "RESERVED"
    \/ Unfinished(r) /\ execution'[r] # None /\ execution'[r].status \in RunStatus \ {"RESERVED"}
    \/ /\ execution[r] # None /\ execution[r].status = "BLOCKED"
       /\ execution'[r] # None /\ execution'[r].status = "BLOCKED"
    \/ DatabaseOf(r) \notin Careful

RunSteps ==
    /\ \A r \in Run : RunStep(r)
    /\ \A q, r \in Run : execution'[q] # execution[q] /\ execution'[r] # execution[r] => q = r

\* A step of c that writes its run r and no other.
WritesRun(c, r) ==
    /\ \A q \in Run \ {r} : execution'[q] = execution[q]
    /\ execution[r] # None /\ execution'[r] # None /\ ctl[c].at \notin {"idle", "reserve"}
    /\ \/ ~ctl[c].recovers /\ execution'[r].status = "ADMITTED"
       \/ ~ctl[c].recovers /\ ctl'[c].at = "idle" /\ execution'[r].status \in {"SUCCESS", "FAILED", "BLOCKED"}
       \/ ctl[c].recovers /\ ctl'[c].at = "idle" /\ execution'[r].status = "BLOCKED"
          /\ execution[r].owner \notin alive

LEMMA RunWrites ==
    ASSUME Inv, NEW c \in Controller, NEW r \in Run, r = ctl[c].run, ControllerNext(c), ~Reserve(c)
    PROVE  execution' = execution \/ WritesRun(c, r)
<1>1. CtlInv(c) /\ TypeOK
  BY DEF Inv
<1>2. CASE Admit(c)
  <2>1. ctl[c].at = "admit" /\ ~ctl[c].recovers /\ execution[r] # None /\ SetStatus(r, "ADMITTED")
    BY <1>1, <1>2 DEF Admit, At, CtlInv, StartPlace, Owns
  <2>2. "ADMITTED" \in RunStatus
    BY DEF RunStatus
  <2> QED
    BY <1>1, <2>1, <2>2, StatusFacts DEF WritesRun
<1>3. CASE Publish(c)
  <2>1. ctl[c].at = "publish" /\ ~ctl[c].recovers /\ execution[r] # None
    BY <1>1, <1>3 DEF Publish, At, CtlInv, Owns
  <2>2. CASE execution' = execution
    BY <2>2
  <2>3. ASSUME NEW status \in {"SUCCESS", "FAILED"}, SetStatus(r, status), ctl' = [ctl EXCEPT ![c] = Idle]
        PROVE  WritesRun(c, r)
    <3>1. ctl'[c].at = "idle"
      BY <1>1, <2>3, IdleLeaves, IdleType DEF Left
    <3>2. status \in RunStatus
      BY DEF RunStatus
    <3> QED
      BY <1>1, <2>1, <2>3, <3>1, <3>2, StatusFacts DEF WritesRun
  <2> QED
    BY <1>3, <2>2, <2>3 DEF Publish
<1>4. CASE Block(c)
  <2>1. ctl[c].at = "block" /\ execution[r] # None /\ (ctl[c].recovers => execution[r].owner \notin alive)
    BY <1>1, <1>4 DEF Block, At, CtlInv, Owns
  <2>2. ctl'[c].at = "idle" /\ SetStatus(r, "BLOCKED") /\ "BLOCKED" \in RunStatus
    BY <1>1, <1>4, IdleLeaves, IdleType DEF Block, Left, RunStatus
  <2> QED
    BY <1>1, <2>1, <2>2, StatusFacts DEF WritesRun
<1>5. CASE ~(Admit(c) \/ Publish(c) \/ Block(c))
  BY <1>5 DEF ControllerNext, Snapshot, Consume, Prepare, Create, Identify, StartContainer, Wait,
              Find, Remember, Remove, Verify, Confirm, Discard, CheckOwner
<1> QED
  BY <1>2, <1>3, <1>4, <1>5

\* A step that writes no row, and after which nobody is further in a start_task than before.
LEMMA UnderwayKeeps ==
    ASSUME Inv, \A d \in Controller : Underway(d), execution' = execution,
           \A d \in Controller : \/ ctl'[d] = ctl[d]
                                 \/ ctl'[d].at \in {"idle", "reserve"} \/ ctl'[d].recovers
    PROVE  (\A d \in Controller : Underway(d)') /\ RunSteps
  BY DEF Underway, Unfinished, RunStep, RunSteps

LEMMA UnderwayController ==
    ASSUME Inv, \A d \in Controller : Underway(d) /\ RecoversAlone(d), NEW c \in Controller, ControllerNext(c)
    PROVE  (\A d \in Controller : Underway(d)') /\ RunSteps
<1>1. PICK r \in Run : r = ctl[c].run /\ ctl[c].at # "idle"
  BY CallRun
<1>2. TypeOK /\ CtlInv(c) /\ Underway(c) /\ RecoversAlone(c)
  BY DEF Inv
<1>3. CASE ~Reserve(c)
  <2>1. Onward(c) /\ (execution' = execution \/ WritesRun(c, r))
    BY <1>1, <1>3, ControllerOnward, RunWrites
  <2>2. ASSUME NEW d \in Controller, ~ctl'[d].recovers, ctl'[d].at \notin {"idle", "reserve"}
        PROVE  Underway(d)'
    <3>1. Underway(d) /\ CtlInv(d)
      BY DEF Inv
    <3>2. /\ ctl'[d].run = ctl[d].run /\ ~ctl[d].recovers /\ ctl[d].at \notin {"idle", "reserve"}
          /\ Owns(d, ctl[d].run) /\ d \in alive /\ ctl[d].run \in Run /\ Unfinished(ctl[d].run)
      BY <2>1, <2>2, <3>1 DEF Onward, Underway, CtlInv
    <3>3. CASE execution'[ctl[d].run] = execution[ctl[d].run]
      BY <3>2, <3>3 DEF Underway, Unfinished
    <3>4. CASE execution'[ctl[d].run] # execution[ctl[d].run]
      <4>1. WritesRun(c, r) /\ ctl[d].run = r
        BY <2>1, <3>2, <3>4 DEF WritesRun
      <4>2. ~ctl[c].recovers
        BY <3>2, <4>1 DEF WritesRun, Owns
      <4>3. d = c
        BY <1>1, <1>2, <3>2, <4>1, <4>2 DEF WritesRun, CtlInv, Owns
      <4> QED
        BY <2>2, <3>2, <4>1, <4>2, <4>3 DEF WritesRun, Underway, Unfinished
    <3> QED
      BY <3>3, <3>4
  <2>3. ASSUME NEW q \in Run PROVE RunStep(q)
    <3>1. CASE execution'[q] = execution[q]
      BY <3>1 DEF RunStep
    <3>2. CASE execution'[q] # execution[q]
      <4>1. WritesRun(c, r) /\ q = r
        BY <2>1, <3>2 DEF WritesRun
      <4>2. CASE ~ctl[c].recovers
        BY <1>1, <1>2, <4>1, <4>2 DEF WritesRun, Underway, RunStep, RunStatus
      <4>3. CASE ctl[c].recovers /\ DatabaseOf(r) \in Careful
        <5>1. ~Saved(r) /\ execution[r] \in Execution
          BY <1>1, <1>2, <4>1, <4>3 DEF RecoversAlone, WritesRun, TypeOK
        <5>2. Unfinished(r) \/ execution[r].status = "BLOCKED"
          BY <4>1, <5>1 DEF Saved, Unfinished, Execution, RunStatus, WritesRun
        <5> QED
          BY <4>1, <4>3, <5>2 DEF WritesRun, RunStep, RunStatus
      <4> QED
        BY <4>1, <4>2, <4>3 DEF RunStep
    <3> QED
      BY <3>1, <3>2
  <2> QED
    BY <2>1, <2>2, <2>3 DEF Underway, RunSteps, WritesRun
<1>4. CASE Reserve(c)
  <2>1. CASE execution' = execution /\ ctl' = [ctl EXCEPT ![c] = Idle]
    <3>1. \A d \in Controller : ctl'[d] = ctl[d] \/ ctl'[d].at = "idle"
      BY <1>2, <2>1, IdleLeaves, IdleType DEF Left
    <3> QED
      BY <2>1, <3>1, UnderwayKeeps
  <2>2. CASE /\ execution[r] = None /\ Goto(c, "snapshot")
             /\ execution' = [execution EXCEPT ![r] =
                                 [token |-> ctl[c].token, status |-> "RESERVED", owner |-> c]]
    <3>1. Moved(c, "snapshot")
      BY <1>2, GotoMoves, <2>2 DEF Place, StartPlace
    <3>2. ctl[c].token \in TokenId
      BY <1>2, <1>4 DEF Reserve, At, CtlInv, StartPlace
    <3>3. LET row == [token |-> ctl[c].token, status |-> "RESERVED", owner |-> c] IN
          row \in Execution /\ row # None /\ row.status = "RESERVED" /\ execution'[r] = row
      BY <1>2, <2>2, <3>2, NoneAssumption DEF Execution, RunStatus, TypeOK
    <3>4. execution'[r] # None /\ execution'[r].status = "RESERVED"
      BY <3>3
    <3>5. \A q \in Run \ {r} : execution'[q] = execution[q]
      BY <1>2, <2>2 DEF TypeOK
    <3>6. ASSUME NEW d \in Controller PROVE Underway(d)'
      <4>1. CASE d = c
        BY <1>1, <3>1, <3>4, <4>1 DEF Moved, Underway, Unfinished
      <4>2. CASE d # c
        <5>1. ctl'[d] = ctl[d] /\ Underway(d) /\ CtlInv(d)
          BY <3>1, <4>2 DEF Moved, Inv
        <5>2. ~ctl[d].recovers /\ ctl[d].at \notin {"idle", "reserve"}
                 => ctl[d].run \in Run \ {r} /\ Unfinished(ctl[d].run)
          BY <2>2, <5>1 DEF CtlInv, Owns, Underway
        <5> QED
          BY <3>5, <5>1, <5>2 DEF Underway, Unfinished
      <4> QED
        BY <4>1, <4>2
    <3>7. RunSteps
      BY <2>2, <3>4, <3>5 DEF RunStep, RunSteps
    <3> QED
      BY <3>6, <3>7
  <2> QED
    BY <1>1, <1>2, <1>4, <2>1, <2>2 DEF Reserve, TypeOK
<1> QED
  BY <1>3, <1>4

LEMMA UnderwayNext ==
    ASSUME Inv, \A c \in Controller : Underway(c) /\ RecoversAlone(c), [Next]_vars
    PROVE  (\A c \in Controller : Underway(c)') /\ RunSteps
<1>0. ctl \in [Controller -> Control] /\ TypeOK
  BY DEF Inv, TypeOK
<1>1. CASE UNCHANGED vars
  BY <1>1, UnderwayKeeps DEF vars
<1>2. CASE \E k \in TokenId : Issue(k) \/ Expire(k) \/ RevokeToken(k)
  BY <1>2, UnderwayKeeps DEF Issue, Expire, RevokeToken
<1>3. ASSUME NEW c \in Controller, Die(c), execution' = execution
      PROVE  (\A d \in Controller : Underway(d)') /\ RunSteps
  <2>1. \A d \in Controller : ctl'[d] = ctl[d] \/ ctl'[d].at = "idle"
    BY <1>0, <1>3, IdleLeaves, IdleType DEF Die, Left
  <2> QED
    BY <1>3, <2>1, UnderwayKeeps
<1>4. ASSUME NEW r \in Run, Cancel(r) \/ ContainerExits(r) \/ \E kind \in Request : LateEffect(kind, r)
      PROVE  (\A d \in Controller : Underway(d)') /\ RunSteps
  <2>1. execution' = execution
    BY <1>4 DEF Cancel, ContainerExits, LateEffect
  <2>2. CASE execution[r].owner \in alive /\ Die(execution[r].owner)
    BY <1>0, <1>3, <2>1, <2>2 DEF TypeOK
  <2>3. CASE ctl' = ctl
    BY <2>1, <2>3, UnderwayKeeps
  <2> QED
    BY <1>4, <2>2, <2>3 DEF Cancel, ContainerExits, LateEffect
<1>5. ASSUME NEW c \in Controller, Crash(c)
      PROVE  (\A d \in Controller : Underway(d)') /\ RunSteps
  BY <1>3, <1>5 DEF Crash
<1>6. ASSUME NEW c \in Controller, NEW r \in Run, NEW k \in TokenId, BeginStart(c, r, k)
      PROVE  (\A d \in Controller : Underway(d)') /\ RunSteps
  <2>1. /\ ctl'[c].at = "reserve"
        /\ execution' = execution
        /\ \A d \in Controller \ {c} : ctl'[d] = ctl[d]
    BY <1>0, <1>6 DEF BeginStart, Idle
  <2> QED
    BY <2>1, UnderwayKeeps
<1>7. ASSUME NEW c \in Controller, NEW r \in Run, BeginRecover(c, r)
      PROVE  (\A d \in Controller : Underway(d)') /\ RunSteps
  <2>1. /\ ctl'[c].recovers
        /\ execution' = execution
        /\ \A d \in Controller \ {c} : ctl'[d] = ctl[d]
    BY <1>0, <1>7 DEF BeginRecover, Idle
  <2> QED
    BY <2>1, UnderwayKeeps
<1> QED
  BY <1>1, <1>2, <1>4, <1>5, <1>6, <1>7, UnderwayController, NextParts

\* ImplementsRuns: whatever controllers, recoveries and the cancel command do, a run of a database
\* whose operator is careful begins once and comes to one end.
THEOREM ContainerImplementsRuns == Spec => ImplementsRuns
<1> DEFINE Busy == \A c \in Controller : Underway(c)
           Alone == \A c \in Controller : RecoversAlone(c)
<1>1. Init => Busy /\ Runs!Init
  BY DEF Init, Idle, Underway, Runs!Init, CarefulRun, Polled
<1>2. Inv /\ Busy /\ Alone /\ [Next]_vars => Busy'
  BY UnderwayNext
<1>3. Inv /\ Busy /\ Alone /\ [Next]_vars => [Runs!Next]_(Runs!answers)
  <2> SUFFICES ASSUME Inv, Busy, Alone, [Next]_vars PROVE Runs!Next \/ UNCHANGED Polled
    BY DEF Runs!answers
  <2>1. RunSteps
    BY UnderwayNext
  <2>2. CASE \A r \in CarefulRun : execution'[r] = execution[r]
    BY <2>2 DEF Polled
  <2>3. ASSUME NEW r \in CarefulRun, execution'[r] # execution[r]
        PROVE  Runs!Next \/ UNCHANGED Polled
    <3>1. /\ r \in Run /\ DatabaseOf(r) \in Careful
          /\ \A q \in CarefulRun \ {r} : execution'[q] = execution[q]
          /\ RunStep(r)
      BY <2>1, <2>3 DEF CarefulRun, RunSteps
    <3>2. ASSUME NEW answer, Polled'[r] = answer PROVE Polled' = [Polled EXCEPT ![r] = answer]
      BY <3>1, <3>2 DEF Polled
    <3>3. CASE execution[r] = None /\ execution'[r] # None /\ execution'[r].status = "RESERVED"
      <4>1. Polled[r] = "none" /\ Polled'[r] = "active"
        BY <3>3 DEF Polled, Answer
      <4> QED
        BY <3>2, <4>1 DEF Runs!Begin, Runs!Next
    <3>4. CASE Unfinished(r) /\ execution'[r] # None /\ execution'[r].status \in RunStatus \ {"RESERVED"}
      <4>1. Polled[r] = "active" /\ Polled'[r] \in {"active"} \cup Runs!Ends
        BY <3>4 DEF Polled, Answer, Unfinished, RunStatus, Runs!Ends
      <4>2. CASE Polled'[r] = "active"
        <5>1. \A q \in CarefulRun : Polled'[q] = Polled[q]
          BY <3>1, <4>1, <4>2 DEF Polled
        <5> QED
          BY <5>1 DEF Polled
      <4>3. CASE Polled'[r] \in Runs!Ends
        <5> QED
          BY <3>2, <4>1, <4>3 DEF Runs!End, Runs!Next
      <4> QED
        BY <4>1, <4>2, <4>3
    <3>5. CASE /\ execution[r] # None /\ execution[r].status = "BLOCKED"
               /\ execution'[r] # None /\ execution'[r].status = "BLOCKED"
      <4>1. \A q \in CarefulRun : Polled'[q] = Polled[q]
        BY <3>1, <3>5 DEF Polled
      <4> QED
        BY <4>1 DEF Polled
    <3> QED
      BY <2>3, <3>1, <3>3, <3>4, <3>5 DEF RunStep
  <2> QED
    BY <2>2, <2>3
<1>4. Spec => []Alone
  BY AloneAlways
<1> HIDE DEF Busy, Alone
<1> QED
  BY <1>1, <1>2, <1>3, <1>4, InvAlways, PTL DEF Spec, ImplementsRuns, Runs!Spec
=============================================================================

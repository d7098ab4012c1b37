----------------------- MODULE GitHubPublisher_proofs -----------------------
(***************************************************************************)
(* Proofs about the GitHub publisher, for any number of operations,        *)
(* branches and commits. The argument, with any other user of the remote   *)
(* at work between any two steps: the row of a running call names what the *)
(* call was given (RowInv); what the call opened has that row (OpenedInv); *)
(* what a lookup did not find is still true of the pull requests there     *)
(* were then (LookInv); and what a call is about to confirm it has seen    *)
(* (TruthInv).                                                             *)
(***************************************************************************)
EXTENDS GitHubPublisher, FiniteSetTheorems, TLAPS

-----------------------------------------------------------------------------
(* The lists of pull requests *)

Numbers(h, b) == {n \in DOMAIN prs : prs[n].head = h /\ prs[n].base = b}
NumbersOf(h) == {n \in DOMAIN prs : prs[n].head = h}

\* The newest of a set of pull requests.
LEMMA NewestExists ==
    ASSUME NEW k \in Nat, NEW S \in SUBSET (1..k), S # {}
    PROVE  \E n \in S : \A m \in S : m <= n
<1> DEFINE T == {k - n : n \in S}
<1>0. \A n \in S : n \in Nat /\ n <= k
  OBVIOUS
<1>1. T \subseteq Nat /\ T # {}
  <2>1. \A n \in S : k - n \in Nat
    BY <1>0
  <2> QED
    BY <2>1
<1>2. \E x \in T : \A y \in T : ~ (<<y, x>> \in OpToRel(<, Nat))
  <2> HIDE DEF T
  <2> QED
    BY <1>1, WFMin, NatLessThanWellFounded
<1>3. PICK x \in T : \A y \in T : ~ (<<y, x>> \in OpToRel(<, Nat))
  BY <1>2
<1>4. PICK n \in S : x = k - n
  BY <1>3
<1>5. \A m \in S : m <= n
  <2> TAKE m \in S
  <2>1. k - m \in T /\ k - m \in Nat /\ x \in Nat
    BY <1>1
  <2>2. ~ (k - m < x)
    BY <1>3, <2>1 DEF OpToRel
  <2> QED
    BY <1>0, <1>4, <2>2
<1> QED
  BY <1>5

\* A set of pull request numbers is finite.
LEMMA SubsetOfInterval ==
    ASSUME NEW k \in Nat, NEW S \in SUBSET (1..k)
    PROVE  IsFiniteSet(S) /\ Cardinality(S) \in Nat
<1>1. IsFiniteSet(1..k)
  BY FS_Interval
<1>2. IsFiniteSet(S)
  BY <1>1, FS_Subset
<1> QED
  BY <1>2, FS_CardinalityType

\* Listed, for the set of numbers it shows: empty if the set is, else it begins with one of them.
LEMMA NewestFirst ==
    ASSUME NEW k \in Nat, NEW S \in SUBSET (1..k),
           NEW list, list = [i \in 1..Cardinality(S) |->
                                CHOOSE n \in S : Cardinality({m \in S : m > n}) = i - 1]
    PROVE  /\ list = <<>> => S = {}
           /\ list # <<>> => list[1] \in S
<1>0. \A n \in S : n \in Nat
  OBVIOUS
<1>1. IsFiniteSet(S) /\ Cardinality(S) \in Nat
  BY SubsetOfInterval
<1>2. CASE S = {}
  <2>1. Cardinality(S) = 0
    BY <1>2, FS_EmptySet
  <2> QED
    BY <1>2, <2>1
<1>3. CASE S # {}
  <2>1. Cardinality(S) # 0
    BY <1>1, <1>3, FS_EmptySet
  <2>2. 1 \in 1..Cardinality(S)
    BY <1>1, <2>1
  <2>3. PICK n \in S : \A m \in S : m <= n
    BY <1>3, NewestExists
  <2>4. \A m \in S : ~ (m > n)
    BY <1>0, <2>3
  <2>5. {m \in S : m > n} = {}
    BY <2>4, Zenon
  <2>6. Cardinality({m \in S : m > n}) = 1 - 1
    <3>1. Cardinality({}) = 1 - 1
      BY FS_EmptySet
    <3> QED
      BY <2>5, <3>1, Zenon
  <2>7. list[1] = CHOOSE x \in S : Cardinality({m \in S : m > x}) = 1 - 1
    BY <2>2, Zenon
  <2>8. \E x \in S : Cardinality({m \in S : m > x}) = 1 - 1
    BY <2>6, Zenon
  <2>9. list[1] \in S
    BY <2>7, <2>8, Zenon
  <2>10. list # <<>>
    BY <2>2
  <2> QED
    BY <2>9, <2>10
<1> QED
  BY <1>2, <1>3

\* The two lists, and what follows from a list of one.
LEMMA ListFacts ==
    ASSUME prs \in Seq(PullRequest), NEW h, NEW b
    PROVE  /\ PairList(h, b) = <<>> => Numbers(h, b) = {}
           /\ PairList(h, b) # <<>> => PairList(h, b)[1] \in Numbers(h, b)
           /\ Len(PairList(h, b)) = 1 => \A m, n \in Numbers(h, b) : m = n
           /\ HeadList(h) # <<>> => HeadList(h)[1] \in NumbersOf(h)
<1>1. Len(prs) \in Nat /\ DOMAIN prs = 1..Len(prs)
  OBVIOUS
<1>2. Numbers(h, b) \subseteq 1..Len(prs) /\ NumbersOf(h) \subseteq 1..Len(prs)
  BY <1>1 DEF Numbers, NumbersOf
<1>3. PairList(h, b) = [i \in 1..Cardinality(Numbers(h, b)) |->
            CHOOSE n \in Numbers(h, b) : Cardinality({m \in Numbers(h, b) : m > n}) = i - 1]
  BY DEF PairList, Listed, Numbers
<1>4. HeadList(h) = [i \in 1..Cardinality(NumbersOf(h)) |->
            CHOOSE n \in NumbersOf(h) : Cardinality({m \in NumbersOf(h) : m > n}) = i - 1]
  BY DEF HeadList, Listed, NumbersOf
<1>5. Len(PairList(h, b)) = 1 => \A m, n \in Numbers(h, b) : m = n
  <2>1. IsFiniteSet(Numbers(h, b)) /\ Cardinality(Numbers(h, b)) \in Nat
    BY <1>1, <1>2, SubsetOfInterval
  <2>2. Len(PairList(h, b)) = Cardinality(Numbers(h, b))
    BY <1>3, <2>1
  <2>3. Cardinality(Numbers(h, b)) = 1 => \E x : Numbers(h, b) = {x}
    BY <2>1, FS_Singleton
  <2> QED
    BY <2>2, <2>3
<1>6. /\ PairList(h, b) = <<>> => Numbers(h, b) = {}
      /\ PairList(h, b) # <<>> => PairList(h, b)[1] \in Numbers(h, b)
  BY <1>1, <1>2, <1>3, NewestFirst
<1>7. HeadList(h) # <<>> => HeadList(h)[1] \in NumbersOf(h)
  BY <1>1, <1>2, <1>4, NewestFirst
<1> QED
  BY <1>5, <1>6, <1>7

-----------------------------------------------------------------------------
(* Types *)

\* What the row of a running call names is what the call was given.
Row(o) ==
    \/ /\ args(o) \in Publish /\ journal[o] \in PublishRow
       /\ journal[o].head = args(o).head /\ journal[o].sha = args(o).sha
    \/ /\ args(o) \in Pull /\ journal[o] \in PullRow
       /\ journal[o].head = args(o).head /\ journal[o].base = args(o).base

RowInv ==
    \A o \in Ops :
        /\ call[o].pc = "idle" => journal[o] = NoRow
        /\ call[o].pc \notin {"idle", "over"} => Row(o)
        /\ call[o].pc = "pushed" => IsPublish(args(o))
        /\ call[o].pc \in {"create", "verify", "recheck"} => IsPull(args(o))
        /\ call[o].pc = "confirm" =>
              /\ call[o].status \in Settled \ {"RECONCILED"}
              /\ IsPublish(args(o)) => call[o].pr = 0

LEMMA RecordKinds ==
    /\ \A r \in Publish \cup PublishRow : IsPublish(r) /\ ~IsPull(r)
    /\ \A r \in Pull \cup PullRow : IsPull(r) /\ ~IsPublish(r)
    /\ ~IsPull(NoRow) /\ ~IsPublish(NoRow) /\ NoRow.status = "NONE"
<1>1. \A r \in Publish \cup PublishRow : IsPublish(r) /\ ~IsPull(r)
  BY DEF Publish, PublishRow, IsPublish, IsPull
<1>2. \A r \in Pull \cup PullRow : IsPull(r) /\ ~IsPublish(r)
  BY DEF Pull, PullRow, IsPublish, IsPull
<1> QED
  BY <1>1, <1>2 DEF NoRow, IsPublish, IsPull

LEMMA CallTypes ==
    ASSUME TypeOK, NEW o \in Ops
    PROVE  call[o] \in Call /\ \A q \in Ops : call[q] \in Call
  BY DEF TypeOK

LEMMA GotoTypes ==
    ASSUME TypeOK, NEW o \in Ops, NEW place \in Place, Goto(o, place)
    PROVE  /\ call' \in [Ops -> Call]
           /\ call'[o].pc = place /\ call'[o].args = args(o)
           /\ \A q \in Ops \ {o} : call'[q] = call[q]
<1>1. [call[o] EXCEPT !.pc = place] \in Call
  BY CallTypes DEF Call
<1>2. call[o] \in Call
  BY CallTypes
<1> QED
  BY <1>1, <1>2 DEF Goto, TypeOK, Call, args

LEMMA OutcomeTypes ==
    ASSUME TypeOK, NEW o \in Ops, NEW status \in Settled \cup {"NONE"}, NEW n \in 0..MaxPRs,
           Outcome(o, status, n)
    PROVE  /\ call' \in [Ops -> Call]
           /\ call'[o].pc = "confirm" /\ call'[o].args = args(o)
           /\ call'[o].status = status /\ call'[o].pr = n
           /\ \A q \in Ops \ {o} : call'[q] = call[q]
<1>1. [call[o] EXCEPT !.pc = "confirm", !.status = status, !.pr = n] \in Call
  BY CallTypes DEF Call, Place
<1>2. call[o] \in Call
  BY CallTypes
<1> QED
  BY <1>1, <1>2 DEF Outcome, TypeOK, Call, args

LEMMA EndTypes ==
    ASSUME TypeOK, MaxPRs \in Nat, NEW o \in Ops, End(o)
    PROVE  /\ call' \in [Ops -> Call] /\ call'[o].pc = "over"
           /\ \A q \in Ops \ {o} : call'[q] = call[q]
<1>1. [IdleCall EXCEPT !.pc = "over"] \in Call
  BY DEF Call, IdleCall, Place
<1> QED
  BY <1>1 DEF End, TypeOK, IdleCall

LEMMA BeginTypes ==
    ASSUME TypeOK, NEW o \in Ops, NEW a \in Publish \cup Pull, Begin(o, a)
    PROVE  /\ call' \in [Ops -> Call] /\ call[o].pc = "idle"
           /\ call'[o].pc = "intent" /\ call'[o].args = a
           /\ \A q \in Ops \ {o} : call'[q] = call[q]
<1>1. call[o] \in Call
  BY CallTypes
<1>2. [call[o] EXCEPT !.pc = "intent", !.args = a] \in Call
  BY <1>1 DEF Call, Place
<1> QED
  BY <1>1, <1>2 DEF Begin, TypeOK, Call

\* The newest of a list, as an outcome or as the end of the call.
LEMMA UseNewestTypes ==
    ASSUME TypeOK, MaxPRs \in Nat, NEW o \in Ops, NEW status \in Settled, NEW h, NEW b,
           PairList(h, b) # <<>>, UseNewest(o, PairList(h, b), status)
    PROVE  /\ call' \in [Ops -> Call]
           /\ \/ call'[o].pc = "over"
              \/ /\ call'[o].pc = "confirm" /\ call'[o].args = args(o) /\ call'[o].status = status
                 /\ call'[o].pr \in Numbers(h, b) /\ call'[o].pr = PairList(h, b)[1]
           /\ \A q \in Ops \ {o} : call'[q] = call[q]
<1>1. PairList(h, b)[1] \in Numbers(h, b)
  BY ListFacts DEF TypeOK
<1>2. PairList(h, b)[1] \in 0..MaxPRs
  BY <1>1 DEF Numbers, TypeOK
<1>3. CASE Outcome(o, status, PairList(h, b)[1])
  BY <1>1, <1>2, <1>3, OutcomeTypes
<1>4. CASE End(o)
  BY <1>4, EndTypes
<1> QED
  BY <1>3, <1>4 DEF UseNewest

LEMMA NewRef ==
    ASSUME TypeOK, NEW h \in Heads, NEW s \in Shas, MoveRef(h, s)
    PROVE  /\ refs' \in [Heads -> Shas \cup {NoSha}] /\ held' \in [Heads -> SUBSET Shas]
           /\ \A g \in Heads : held[g] \subseteq held'[g]
           /\ refs'[h] = s /\ s \in held'[h]
  BY DEF MoveRef, TypeOK

LEMMA NewPull ==
    ASSUME TypeOK, MaxPRs \in Nat, NEW h \in Heads, NEW b \in Bases, NEW who \in Ops \cup {"other"},
           OpenPull(h, b, who)
    PROVE  /\ prs' \in Seq(PullRequest) /\ Len(prs') = Len(prs) + 1 /\ Len(prs') <= MaxPRs
           /\ DOMAIN prs = 1..Len(prs) /\ DOMAIN prs' = 1..(Len(prs) + 1) /\ Len(prs) \in Nat
           /\ \A n \in DOMAIN prs : n \in DOMAIN prs' /\ prs'[n] = prs[n]
           /\ prs'[Len(prs) + 1] = [head |-> h, base |-> b, state |-> "OPEN", opener |-> who]
<1>1. [head |-> h, base |-> b, state |-> "OPEN", opener |-> who] \in PullRequest
  BY DEF PullRequest
<1> QED
  BY <1>1 DEF OpenPull, TypeOK

\* Closing a pull request changes nothing else of it.
LEMMA ClosedPull ==
    ASSUME TypeOK, NEW n, Close(n)
    PROVE  /\ prs' \in Seq(PullRequest) /\ Len(prs') = Len(prs)
           /\ DOMAIN prs' = DOMAIN prs /\ DOMAIN prs = 1..Len(prs) /\ Len(prs) \in Nat
           /\ \A m \in DOMAIN prs : /\ prs'[m].head = prs[m].head /\ prs'[m].base = prs[m].base
                                    /\ prs'[m].opener = prs[m].opener
<1>0. prs[n] \in PullRequest
  BY DEF Close, TypeOK
<1>1. [prs[n] EXCEPT !.state = "CLOSED"] \in PullRequest
  BY <1>0 DEF PullRequest
<1>2. prs \in Seq(PullRequest) /\ n \in DOMAIN prs /\ prs' = [prs EXCEPT ![n].state = "CLOSED"]
  BY DEF Close, TypeOK
<1>3. prs' \in Seq(PullRequest) /\ Len(prs') = Len(prs) /\ DOMAIN prs' = DOMAIN prs
  BY <1>1, <1>2
<1>4. \A m \in DOMAIN prs : prs[m] \in PullRequest
  BY <1>2
<1>5. \A m \in DOMAIN prs : /\ prs'[m].head = prs[m].head /\ prs'[m].base = prs[m].base
                            /\ prs'[m].opener = prs[m].opener
  BY <1>2, <1>4 DEF PullRequest
<1> QED
  BY <1>2, <1>3, <1>5

LEMMA ConfirmedRow ==
    ASSUME TypeOK, RowInv, NEW o \in Ops, ConfirmOperation(o)
    PROVE  /\ journal' \in [Ops -> {NoRow} \cup PublishRow \cup PullRow]
           /\ journal'[o].status = call[o].status /\ journal'[o].head = journal[o].head
           /\ journal[o] \in PublishRow =>
                 journal'[o] \in PublishRow /\ journal'[o].sha = journal[o].sha
           /\ journal[o] \in PullRow =>
                 /\ journal'[o] \in PullRow /\ journal'[o].base = journal[o].base
                 /\ call[o].pr # 0 => journal'[o].pr = call[o].pr
           /\ \A q \in Ops \ {o} : journal'[q] = journal[q]
<1> DEFINE s == call[o].status
           n == call[o].pr
           row == [journal[o] EXCEPT !.status = s]
<1>1. s \in Settled /\ n \in 0..MaxPRs
  <2>1. call[o] \in Call
    BY CallTypes
  <2> QED
    BY <2>1 DEF ConfirmOperation, RowInv, Call
<1>2. \/ args(o) \in Publish /\ journal[o] \in PublishRow /\ n = 0
      \/ args(o) \in Pull /\ journal[o] \in PullRow
  BY RecordKinds DEF ConfirmOperation, RowInv, Row
<1>3. /\ journal'[o] = IF n = 0 THEN row ELSE [journal[o] EXCEPT !.status = s, !.pr = n]
      /\ \A q \in Ops \ {o} : journal'[q] = journal[q]
      /\ DOMAIN journal' = Ops
  BY DEF ConfirmOperation, TypeOK
<1>4. CASE journal[o] \in PublishRow /\ n = 0
  <2>1. /\ row \in PublishRow /\ row.status = s /\ row.head = journal[o].head /\ row.sha = journal[o].sha
    BY <1>1, <1>4 DEF PublishRow
  <2>2. journal[o] \notin PullRow
    BY <1>4, RecordKinds
  <2> QED
    BY <1>3, <1>4, <2>1, <2>2 DEF TypeOK, ConfirmOperation
<1>5. CASE journal[o] \in PullRow
  <2>1. /\ row \in PullRow /\ row.status = s /\ row.head = journal[o].head /\ row.base = journal[o].base
    BY <1>1, <1>5 DEF PullRow
  <2>2. LET r == [journal[o] EXCEPT !.status = s, !.pr = n] IN
        r \in PullRow /\ r.status = s /\ r.head = journal[o].head /\ r.base = journal[o].base /\ r.pr = n
    BY <1>1, <1>5 DEF PullRow
  <2>3. journal[o] \notin PublishRow
    BY <1>5, RecordKinds
  <2>4. /\ journal'[o] \in PullRow /\ journal'[o].status = s
        /\ journal'[o].head = journal[o].head /\ journal'[o].base = journal[o].base
        /\ n # 0 => journal'[o].pr = n
    <3> HIDE DEF row
    <3> QED
      BY <1>3, <2>1, <2>2
  <2>5. journal' \in [Ops -> {NoRow} \cup PublishRow \cup PullRow]
    BY <1>3, <2>4 DEF ConfirmOperation, TypeOK
  <2> QED
    BY <1>3, <2>3, <2>4, <2>5
<1> QED
  BY <1>2, <1>4, <1>5

LEMMA ReconciledRow ==
    ASSUME TypeOK, MaxPRs \in Nat, NEW o \in Ops, Reconcile(o)
    PROVE  /\ journal' \in [Ops -> {NoRow} \cup PublishRow \cup PullRow]
           /\ journal'[o].status = "RECONCILED" /\ journal'[o].head = journal[o].head
           /\ \/ /\ journal[o] \in PublishRow /\ journal'[o] \in PublishRow
                 /\ journal'[o].sha = journal[o].sha /\ refs[journal[o].head] = journal[o].sha
              \/ journal[o] \in PullRow /\ journal'[o] \in PullRow /\ journal'[o].base = journal[o].base
           /\ \A q \in Ops \ {o} : journal'[q] = journal[q]
<1>0. journal[o] \in {NoRow} \cup PublishRow \cup PullRow
  BY DEF TypeOK
<1>1. CASE IsPublish(journal[o]) /\ refs[journal[o].head] = journal[o].sha
           /\ journal' = [journal EXCEPT ![o].status = "RECONCILED"]
  <2>1. journal[o] \in PublishRow
    BY <1>0, <1>1, RecordKinds
  <2>2. LET r == [journal[o] EXCEPT !.status = "RECONCILED"] IN
        r \in PublishRow /\ r.status = "RECONCILED" /\ r.head = journal[o].head /\ r.sha = journal[o].sha
    BY <2>1 DEF PublishRow, Settled
  <2> QED
    BY <1>1, <2>1, <2>2 DEF TypeOK
<1>2. CASE /\ IsPull(journal[o]) /\ HeadList(journal[o].head) # <<>>
           /\ journal' = [journal EXCEPT ![o].status = "RECONCILED", ![o].pr = HeadList(journal[o].head)[1]]
  <2> DEFINE n == HeadList(journal[o].head)[1]
  <2>1. journal[o] \in PullRow
    BY <1>0, <1>2, RecordKinds
  <2>2. n \in NumbersOf(journal[o].head)
    BY <1>2, ListFacts DEF TypeOK
  <2>3. n \in 0..MaxPRs
    BY <2>2 DEF NumbersOf, TypeOK
  <2>4. LET r == [journal[o] EXCEPT !.status = "RECONCILED", !.pr = n] IN
        r \in PullRow /\ r.status = "RECONCILED" /\ r.head = journal[o].head /\ r.base = journal[o].base
    <3> HIDE DEF n
    <3> QED
      BY <2>1, <2>3 DEF PullRow, Settled
  <2> QED
    BY <1>2, <2>1, <2>4 DEF TypeOK
<1> QED
  BY <1>1, <1>2 DEF Reconcile

LEMMA TypeInit == Init => TypeOK /\ RowInv
<1> SUFFICES ASSUME Init PROVE TypeOK /\ RowInv
  OBVIOUS
<1>1. IdleCall \in Call /\ IdleCall.pc = "idle"
  BY MaxPRsAssumption DEF IdleCall, Call, Place
<1>2. <<>> \in Seq(PullRequest) /\ Len(<<>>) = 0
  OBVIOUS
<1>3. TypeOK
  BY <1>1, <1>2, MaxPRsAssumption DEF Init, TypeOK
<1>4. RowInv
  BY <1>1 DEF Init, RowInv
<1> QED
  BY <1>3, <1>4

\* A step of one call that leaves the table alone.
LEMMA RowMove ==
    ASSUME RowInv, NEW o \in Ops, journal' = journal, \A q \in Ops \ {o} : call'[q] = call[q],
           \/ call'[o].pc = "over"
           \/ /\ call[o].pc \notin {"idle", "over"} /\ call'[o].pc \notin {"idle", "over"}
              /\ call'[o].args = args(o)
              /\ call'[o].pc = "pushed" => IsPublish(args(o))
              /\ call'[o].pc \in {"create", "verify", "recheck"} => IsPull(args(o))
              /\ call'[o].pc = "confirm" => /\ call'[o].status \in Settled \ {"RECONCILED"}
                                            /\ IsPublish(args(o)) => call'[o].pr = 0
    PROVE  RowInv'
<1>1. ASSUME NEW q \in Ops \ {o}
      PROVE  args(q)' = args(q) /\ (Row(q) => Row(q)')
  BY DEF Row, args
<1>2. ASSUME call'[o].args = args(o) PROVE args(o)' = args(o) /\ (Row(o) => Row(o)')
  BY <1>2 DEF Row, args
<1>3. ASSUME NEW q \in Ops
      PROVE  (/\ call[q].pc = "idle" => journal[q] = NoRow
              /\ call[q].pc \notin {"idle", "over"} => Row(q)
              /\ call[q].pc = "pushed" => IsPublish(args(q))
              /\ call[q].pc \in {"create", "verify", "recheck"} => IsPull(args(q))
              /\ call[q].pc = "confirm" => /\ call[q].status \in Settled \ {"RECONCILED"}
                                           /\ IsPublish(args(q)) => call[q].pr = 0)'
  <2>1. CASE q = o
    BY <1>2, <2>1 DEF RowInv, IsPublish, IsPull
  <2>2. CASE q # o
    BY <1>1, <2>2 DEF RowInv, IsPublish, IsPull
  <2> QED
    BY <2>1, <2>2
<1> QED
  BY <1>3 DEF RowInv

\* A step of the table, or of the other end, that leaves the calls alone.
LEMMA RowsStay ==
    ASSUME RowInv, call' = call,
           \A q \in Ops : \/ journal'[q] = journal[q]
                          \/ journal[q] \in PublishRow /\ journal'[q] \in PublishRow
                             /\ journal'[q].head = journal[q].head /\ journal'[q].sha = journal[q].sha
                          \/ journal[q] \in PullRow /\ journal'[q] \in PullRow
                             /\ journal'[q].head = journal[q].head /\ journal'[q].base = journal[q].base
    PROVE  RowInv'
<1>1. ASSUME NEW q \in Ops PROVE Row(q) => Row(q)'
  BY <1>1, RecordKinds DEF Row, args
<1>2. ASSUME NEW q \in Ops, journal[q] = NoRow PROVE journal'[q] = NoRow
  BY <1>2, RecordKinds
<1> QED
  BY <1>1, <1>2 DEF RowInv, args

LEMMA TypeStep == ASSUME TypeOK, RowInv, [Next]_vars PROVE TypeOK' /\ RowInv'
<1> USE MaxPRsAssumption DEF remote, history
<1>1. ASSUME NEW o \in Ops, NEW h \in Heads, NEW s \in Shas, StartPublish(o, h, s)
      PROVE  TypeOK' /\ RowInv'
  <2> DEFINE a == [head |-> h, sha |-> s]
             row == [status |-> "PENDING", head |-> h, sha |-> s]
  <2>1. a \in Publish /\ row \in PublishRow /\ row.head = a.head /\ row.sha = a.sha
    BY DEF Publish, PublishRow
  <2>2. Begin(o, a) /\ journal' = [journal EXCEPT ![o] = row]
    BY <1>1 DEF StartPublish, RecordIntent
  <2> HIDE DEF a, row
  <2>3. /\ call' \in [Ops -> Call] /\ call'[o].pc = "intent" /\ call'[o].args = a
        /\ \A q \in Ops \ {o} : call'[q] = call[q]
    BY <2>1, <2>2, BeginTypes
  <2>4. /\ journal' \in [Ops -> {NoRow} \cup PublishRow \cup PullRow] /\ journal'[o] = row
        /\ \A q \in Ops \ {o} : journal'[q] = journal[q]
    BY <2>1, <2>2 DEF TypeOK
  <2>5. TypeOK'
    BY <1>1, <2>3, <2>4 DEF StartPublish, TypeOK
  <2>6. Row(o)' /\ \A q \in Ops \ {o} : args(q)' = args(q) /\ (Row(q) => Row(q)')
    BY <2>1, <2>3, <2>4 DEF Row, args
  <2> QED
    BY <2>3, <2>4, <2>5, <2>6 DEF RowInv
<1>2. ASSUME NEW o \in Ops, NEW h \in Heads, NEW b \in Bases, StartPull(o, h, b)
      PROVE  TypeOK' /\ RowInv'
  <2> DEFINE a == [head |-> h, base |-> b]
             row == [status |-> "PENDING", head |-> h, base |-> b, pr |-> 0]
  <2>1. a \in Pull /\ row \in PullRow /\ row.head = a.head /\ row.base = a.base
    BY DEF Pull, PullRow
  <2>2. Begin(o, a) /\ journal' = [journal EXCEPT ![o] = row]
    BY <1>2 DEF StartPull, RecordIntent
  <2> HIDE DEF a, row
  <2>3. /\ call' \in [Ops -> Call] /\ call'[o].pc = "intent" /\ call'[o].args = a
        /\ \A q \in Ops \ {o} : call'[q] = call[q]
    BY <2>1, <2>2, BeginTypes
  <2>4. /\ journal' \in [Ops -> {NoRow} \cup PublishRow \cup PullRow] /\ journal'[o] = row
        /\ \A q \in Ops \ {o} : journal'[q] = journal[q]
    BY <2>1, <2>2 DEF TypeOK
  <2>5. TypeOK'
    BY <1>2, <2>3, <2>4 DEF StartPull, TypeOK
  <2>6. Row(o)' /\ \A q \in Ops \ {o} : args(q)' = args(q) /\ (Row(q) => Row(q)')
    BY <2>1, <2>3, <2>4 DEF Row, args
  <2> QED
    BY <2>3, <2>4, <2>5, <2>6 DEF RowInv
<1>3. ASSUME NEW o \in Ops, NEW status \in {"FAILED", "UNCERTAIN", "PUBLISHED"}, Outcome(o, status, 0),
             call[o].pc \notin {"idle", "over"}, journal' = journal
      PROVE  RowInv' /\ call' \in [Ops -> Call]
  <2>1. status \in Settled \ {"RECONCILED"} /\ 0 \in 0..MaxPRs
    BY DEF Settled
  <2>2. /\ call' \in [Ops -> Call] /\ call'[o].pc = "confirm" /\ call'[o].args = args(o)
        /\ call'[o].status = status /\ call'[o].pr = 0
        /\ \A q \in Ops \ {o} : call'[q] = call[q]
    BY <1>3, <2>1, OutcomeTypes
  <2> QED
    BY <1>3, <2>1, <2>2, RowMove
<1>4. ASSUME NEW o \in Ops, NEW place \in {"pushed", "create", "verify", "recheck"}, Goto(o, place),
             call[o].pc \notin {"idle", "over"}, journal' = journal,
             IF place = "pushed" THEN IsPublish(args(o)) ELSE IsPull(args(o))
      PROVE  RowInv' /\ call' \in [Ops -> Call]
  <2>1. place \in Place
    BY DEF Place
  <2>2. /\ call' \in [Ops -> Call] /\ call'[o].pc = place /\ call'[o].args = args(o)
        /\ \A q \in Ops \ {o} : call'[q] = call[q]
    BY <1>4, <2>1, GotoTypes
  <2> QED
    BY <1>4, <2>2, RowMove
<1>5. ASSUME NEW o \in Ops, NEW status \in {"CREATED", "REUSED", "REUSED_AFTER_ERROR"},
             call[o].pc \notin {"idle", "over"}, IsPull(args(o)), journal' = journal,
             ListFor(o) # <<>>, UseNewest(o, ListFor(o), status)
      PROVE  RowInv' /\ call' \in [Ops -> Call]
  <2>1. status \in Settled \ {"RECONCILED"}
    BY DEF Settled
  <2>2. /\ call' \in [Ops -> Call]
        /\ \/ call'[o].pc = "over"
           \/ call'[o].pc = "confirm" /\ call'[o].args = args(o) /\ call'[o].status = status
        /\ \A q \in Ops \ {o} : call'[q] = call[q]
    BY <1>5, <2>1, UseNewestTypes DEF ListFor
  <2>3. ~IsPublish(args(o))
    BY <1>5, RecordKinds DEF RowInv, Row
  <2> QED
    BY <1>5, <2>1, <2>2, <2>3, RowMove
<1>6. ASSUME NEW o \in Ops, Push(o) PROVE TypeOK' /\ RowInv'
  <2>1. args(o).head \in Heads /\ args(o).sha \in Shas
    BY <1>6, RecordKinds DEF Push, RowInv, Row, Publish
  <2>2. call' \in [Ops -> Call] /\ RowInv'
    BY <1>3, <1>4, <1>6 DEF Push
  <2>3. refs' \in [Heads -> Shas \cup {NoSha}] /\ held' \in [Heads -> SUBSET Shas]
    BY <1>6, <2>1, NewRef DEF Push, TypeOK
  <2> QED
    BY <1>6, <2>2, <2>3 DEF Push, TypeOK
<1>7. ASSUME NEW o \in Ops, VerifyRef(o) PROVE TypeOK' /\ RowInv'
  <2>1. call' \in [Ops -> Call] /\ RowInv'
    BY <1>3, <1>7 DEF VerifyRef
  <2> QED
    BY <1>7, <2>1 DEF VerifyRef, TypeOK
<1>8. ASSUME NEW o \in Ops, LookUp(o) PROVE TypeOK' /\ RowInv'
  <2>1. call' \in [Ops -> Call] /\ RowInv'
    BY <1>3, <1>4, <1>5, <1>8 DEF LookUp
  <2>2. lookedAt' \in [Ops -> 0..MaxPRs]
    <3>1. Len(prs) \in 0..MaxPRs
      BY DEF TypeOK
    <3> QED
      BY <1>8, <3>1 DEF LookUp, TypeOK
  <2> QED
    BY <1>8, <2>1, <2>2 DEF LookUp, TypeOK
<1>9. ASSUME NEW o \in Ops, Create(o) PROVE TypeOK' /\ RowInv'
  <2>1. IsPull(args(o)) /\ args(o).head \in Heads /\ args(o).base \in Bases
    BY <1>9, RecordKinds DEF Create, RowInv, Row, Pull
  <2>2. call' \in [Ops -> Call] /\ RowInv'
    BY <1>4, <1>9, <2>1 DEF Create
  <2>3. prs' \in Seq(PullRequest) /\ Len(prs') <= MaxPRs
    BY <1>9, <2>1, NewPull DEF Create, TypeOK
  <2> QED
    BY <1>9, <2>2, <2>3 DEF Create, TypeOK
<1>10. ASSUME NEW o \in Ops, Recheck(o) PROVE TypeOK' /\ RowInv'
  <2>1. call' \in [Ops -> Call] /\ RowInv'
    BY <1>3, <1>5, <1>10 DEF Recheck, RowInv
  <2> QED
    BY <1>10, <2>1 DEF Recheck, TypeOK
<1>11. ASSUME NEW o \in Ops, VerifyCreated(o) PROVE TypeOK' /\ RowInv'
  <2>1. Len(ListFor(o)) = 1 => ListFor(o) # <<>>
    OBVIOUS
  <2>2. call' \in [Ops -> Call] /\ RowInv'
    BY <1>3, <1>5, <1>11, <2>1 DEF VerifyCreated, RowInv
  <2> QED
    BY <1>11, <2>2 DEF VerifyCreated, TypeOK
<1>12. ASSUME NEW o \in Ops, ConfirmOperation(o) PROVE TypeOK' /\ RowInv'
  <2>1. /\ call' \in [Ops -> Call] /\ call'[o].pc = "over" /\ \A q \in Ops \ {o} : call'[q] = call[q]
    BY <1>12, EndTypes DEF ConfirmOperation
  <2>2. /\ journal' \in [Ops -> {NoRow} \cup PublishRow \cup PullRow]
        /\ \A q \in Ops \ {o} : journal'[q] = journal[q]
    BY <1>12, ConfirmedRow
  <2>3. TypeOK'
    BY <1>12, <2>1, <2>2 DEF ConfirmOperation, TypeOK
  <2>4. \A q \in Ops \ {o} : args(q)' = args(q) /\ (Row(q) => Row(q)')
    BY <2>1, <2>2 DEF Row, args
  <2> QED
    BY <2>1, <2>2, <2>3, <2>4 DEF RowInv
<1>13. ASSUME NEW o \in Ops, Crash(o) PROVE TypeOK' /\ RowInv'
  <2>1. /\ call' \in [Ops -> Call] /\ call'[o].pc = "over" /\ \A q \in Ops \ {o} : call'[q] = call[q]
    BY <1>13, EndTypes DEF Crash
  <2>2. RowInv'
    BY <1>13, <2>1, RowMove DEF Crash
  <2> QED
    BY <1>13, <2>1, <2>2 DEF Crash, TypeOK
<1>14. ASSUME NEW o \in Ops, Reconcile(o) PROVE TypeOK' /\ RowInv'
  <2>1. /\ journal' \in [Ops -> {NoRow} \cup PublishRow \cup PullRow]
        /\ \A q \in Ops : \/ journal'[q] = journal[q]
                          \/ journal[q] \in PublishRow /\ journal'[q] \in PublishRow
                             /\ journal'[q].head = journal[q].head /\ journal'[q].sha = journal[q].sha
                          \/ journal[q] \in PullRow /\ journal'[q] \in PullRow
                             /\ journal'[q].head = journal[q].head /\ journal'[q].base = journal[q].base
    BY <1>14, ReconciledRow
  <2>2. call' = call
    BY <1>14 DEF Reconcile
  <2>3. RowInv'
    BY <2>1, <2>2, RowsStay
  <2> QED
    BY <1>14, <2>1, <2>3 DEF Reconcile, TypeOK
<1>15. ASSUME UNCHANGED <<journal, call>> PROVE RowInv'
  BY <1>15, RowsStay
<1>16. ASSUME NEW o \in Ops, LeavePending(o) PROVE TypeOK' /\ RowInv'
  BY <1>15, <1>16 DEF LeavePending, TypeOK
<1>17. CASE ReconcileStart
  BY <1>15, <1>17 DEF ReconcileStart, TypeOK
<1>18. ASSUME NEW h \in Heads, NEW s \in Shas, OtherPush(h, s) PROVE TypeOK' /\ RowInv'
  <2>1. refs' \in [Heads -> Shas \cup {NoSha}] /\ held' \in [Heads -> SUBSET Shas]
    BY <1>18, NewRef DEF OtherPush
  <2> QED
    BY <1>15, <1>18, <2>1 DEF OtherPush, TypeOK
<1>19. ASSUME NEW h \in Heads, NEW b \in Bases, OtherOpen(h, b) PROVE TypeOK' /\ RowInv'
  <2>1. prs' \in Seq(PullRequest) /\ Len(prs') <= MaxPRs
    BY <1>19, NewPull DEF OtherOpen
  <2> QED
    BY <1>15, <1>19, <2>1 DEF OtherOpen, TypeOK
<1>20. ASSUME NEW n \in 1..MaxPRs, Close(n) PROVE TypeOK' /\ RowInv'
  <2>1. prs' \in Seq(PullRequest) /\ Len(prs') = Len(prs)
    BY <1>20, ClosedPull
  <2> QED
    BY <1>15, <1>20, <2>1 DEF Close, TypeOK
<1>21. CASE UNCHANGED vars
  BY <1>15, <1>21 DEF vars, TypeOK
<1> QED
  BY <1>1, <1>2, <1>6, <1>7, <1>8, <1>9, <1>10, <1>11, <1>12, <1>13, <1>14, <1>16, <1>17, <1>18, <1>19,
     <1>20, <1>21 DEF Next, Step, Others

\* The variables hold what their comments say, and the row of a running call is the call's.
THEOREM TypeCorrect == Spec => []TypeOK
<1>1. TypeOK /\ RowInv /\ [Next]_vars => TypeOK' /\ RowInv'
  BY TypeStep
<1> QED
  BY TypeInit, <1>1, PTL DEF Spec

-----------------------------------------------------------------------------
(* What a step does to one operation, and to the pull requests *)

Starts(o) ==
    \/ \E h \in Heads, s \in Shas : StartPublish(o, h, s)
    \/ \E h \in Heads, b \in Bases : StartPull(o, h, b)

LEMMA StepOf ==
    ASSUME TypeOK, [Next]_vars, NEW o \in Ops
    PROVE  /\ call'[o] = call[o] \/ Starts(o) \/ Step(o) \/ Crash(o)
           /\ journal'[o] = journal[o] \/ Starts(o) \/ ConfirmOperation(o) \/ Reconcile(o)
           /\ lookedAt'[o] = lookedAt[o] \/ LookUp(o)
<1> USE DEF remote, history
<1>1. ASSUME NEW q \in Ops, Starts(q)
      PROVE  /\ q # o => call'[o] = call[o] /\ journal'[o] = journal[o]
             /\ lookedAt' = lookedAt
  BY <1>1 DEF Starts, StartPublish, StartPull, Begin, RecordIntent, TypeOK
<1>2. ASSUME NEW q \in Ops, q # o, NEW place, Goto(q, place) PROVE call'[o] = call[o]
  BY <1>2 DEF Goto, TypeOK
<1>3. ASSUME NEW q \in Ops, q # o, NEW status, NEW n, Outcome(q, status, n) PROVE call'[o] = call[o]
  BY <1>3 DEF Outcome, TypeOK
<1>4. ASSUME NEW q \in Ops, q # o, End(q) PROVE call'[o] = call[o]
  BY <1>4 DEF End, TypeOK
<1>5. ASSUME NEW q \in Ops, q # o, NEW list, NEW status, UseNewest(q, list, status) PROVE call'[o] = call[o]
  BY <1>3, <1>4, <1>5 DEF UseNewest
<1>6. ASSUME NEW q \in Ops, q # o, Step(q) PROVE call'[o] = call[o]
  BY <1>2, <1>3, <1>4, <1>5, <1>6
  DEF Step, Push, VerifyRef, LookUp, Create, Recheck, VerifyCreated, ConfirmOperation
<1>7. ASSUME NEW q \in Ops, Step(q)
      PROVE  journal'[o] = journal[o] \/ (q = o /\ ConfirmOperation(o))
  BY <1>7 DEF Step, Push, VerifyRef, LookUp, Create, Recheck, VerifyCreated, ConfirmOperation, TypeOK
<1>8. ASSUME NEW q \in Ops, Step(q)
      PROVE  lookedAt'[o] = lookedAt[o] \/ (q = o /\ LookUp(o))
  BY <1>8 DEF Step, Push, VerifyRef, LookUp, Create, Recheck, VerifyCreated, ConfirmOperation, TypeOK
<1>9. ASSUME NEW q \in Ops, q # o, Crash(q) PROVE call'[o] = call[o]
  BY <1>4, <1>9 DEF Crash
<1>10. ASSUME NEW q \in Ops, Crash(q) PROVE journal' = journal /\ lookedAt' = lookedAt
  BY <1>10 DEF Crash
<1>11. ASSUME NEW q \in Ops, Reconcile(q)
       PROVE  call' = call /\ lookedAt' = lookedAt /\ (q # o => journal'[o] = journal[o])
  BY <1>11 DEF Reconcile, TypeOK
<1>12. ASSUME NEW q \in Ops, LeavePending(q) PROVE UNCHANGED <<call, journal, lookedAt>>
  BY <1>12 DEF LeavePending
<1>13. CASE ReconcileStart
  BY <1>13 DEF ReconcileStart
<1>14. CASE Others
  BY <1>14 DEF Others, OtherPush, OtherOpen, Close
<1>15. CASE UNCHANGED vars
  BY <1>15 DEF vars
<1> QED
  BY <1>1, <1>6, <1>7, <1>8, <1>9, <1>10, <1>11, <1>12, <1>13, <1>14, <1>15 DEF Next, Starts

\* Once it has begun, an operation's row keeps what it names.
LEMMA RowStays ==
    ASSUME TypeOK, RowInv, [Next]_vars, NEW o \in Ops, call[o].pc # "idle"
    PROVE  /\ journal'[o].head = journal[o].head
           /\ IsPull(journal[o]) => IsPull(journal'[o]) /\ journal'[o].base = journal[o].base
           /\ IsPublish(journal'[o]) => IsPublish(journal[o]) /\ journal'[o].sha = journal[o].sha
           /\ IsPull(journal'[o]) => IsPull(journal[o])
<1>1. ~Starts(o)
  BY DEF Starts, StartPublish, StartPull, Begin
<1>2. CASE ConfirmOperation(o)
  <2>1. journal[o] \in PublishRow \/ journal[o] \in PullRow
    BY <1>2 DEF ConfirmOperation, RowInv, Row
  <2> QED
    BY <1>2, <2>1, ConfirmedRow, RecordKinds
<1>3. CASE Reconcile(o)
  BY <1>3, ReconciledRow, RecordKinds, MaxPRsAssumption
<1>4. CASE journal'[o] = journal[o]
  BY <1>4
<1> QED
  BY <1>1, <1>2, <1>3, <1>4, StepOf

\* Pull requests stay, with all that is asked of them here; a new one is the last, and is
\* another's or that of an operation at its create.
LEMMA PullsStay ==
    ASSUME TypeOK, RowInv, [Next]_vars
    PROVE  /\ DOMAIN prs = 1..Len(prs) /\ Len(prs) \in Nat /\ DOMAIN prs' = 1..Len(prs') /\ Len(prs') \in Nat
           /\ Len(prs) <= Len(prs')
           /\ \A n \in DOMAIN prs : /\ prs'[n].head = prs[n].head /\ prs'[n].base = prs[n].base
                                    /\ prs'[n].opener = prs[n].opener
           /\ \A n \in DOMAIN prs' \ DOMAIN prs :
                 /\ n = Len(prs) + 1
                 /\ \/ prs'[n].opener = "other"
                    \/ \E o \in Ops : /\ Create(o) /\ prs'[n].opener = o
                                      /\ prs'[n].head = args(o).head /\ prs'[n].base = args(o).base
<1> USE DEF remote, history
<1> DEFINE Same == prs' = prs
<1>0. DOMAIN prs = 1..Len(prs) /\ Len(prs) \in Nat
  BY DEF TypeOK
<1>1. CASE Same
  BY <1>0, <1>1
<1>2. ASSUME NEW o \in Ops, Create(o), ~Same
      PROVE  /\ DOMAIN prs' = 1..Len(prs') /\ Len(prs') = Len(prs) + 1
             /\ \A n \in DOMAIN prs : prs'[n] = prs[n]
             /\ prs'[Len(prs) + 1].opener = o
             /\ prs'[Len(prs) + 1].head = args(o).head /\ prs'[Len(prs) + 1].base = args(o).base
  <2>1. args(o).head \in Heads /\ args(o).base \in Bases
    BY <1>2, RecordKinds DEF Create, RowInv, Row, Pull
  <2>2. OpenPull(args(o).head, args(o).base, o)
    BY <1>2 DEF Create
  <2>3. /\ Len(prs') = Len(prs) + 1 /\ DOMAIN prs' = 1..(Len(prs) + 1)
        /\ \A n \in DOMAIN prs : n \in DOMAIN prs' /\ prs'[n] = prs[n]
        /\ prs'[Len(prs) + 1] =
              [head |-> args(o).head, base |-> args(o).base, state |-> "OPEN", opener |-> o]
    BY <2>1, <2>2, NewPull, MaxPRsAssumption
  <2> QED
    BY <2>3
<1>3. ASSUME NEW h \in Heads, NEW b \in Bases, OtherOpen(h, b)
      PROVE  /\ DOMAIN prs' = 1..Len(prs') /\ Len(prs') = Len(prs) + 1
             /\ \A n \in DOMAIN prs : prs'[n] = prs[n]
             /\ prs'[Len(prs) + 1].opener = "other"
  <2>1. OpenPull(h, b, "other")
    BY <1>3 DEF OtherOpen
  <2>2. /\ Len(prs') = Len(prs) + 1 /\ DOMAIN prs' = 1..(Len(prs) + 1)
        /\ \A n \in DOMAIN prs : n \in DOMAIN prs' /\ prs'[n] = prs[n]
        /\ prs'[Len(prs) + 1] = [head |-> h, base |-> b, state |-> "OPEN", opener |-> "other"]
    BY <2>1, NewPull, MaxPRsAssumption
  <2> QED
    BY <2>2
<1>4. ASSUME NEW n, Close(n)
      PROVE  /\ DOMAIN prs' = DOMAIN prs /\ Len(prs') = Len(prs)
             /\ \A m \in DOMAIN prs : /\ prs'[m].head = prs[m].head /\ prs'[m].base = prs[m].base
                                      /\ prs'[m].opener = prs[m].opener
  BY <1>4, ClosedPull
<1>5. \/ Same \/ \E o \in Ops : Create(o)
      \/ \E h \in Heads, b \in Bases : OtherOpen(h, b)
      \/ \E n \in 1..MaxPRs : Close(n)
  BY DEF Next, Step, Starts, StartPublish, StartPull, Push, VerifyRef, LookUp, Recheck, VerifyCreated,
         ConfirmOperation, Crash, Reconcile, LeavePending, ReconcileStart, Others, OtherPush, vars
<1> HIDE DEF Same
<1>6. CASE \E o \in Ops : Create(o) /\ ~Same
  BY <1>0, <1>2, <1>6
<1>7. CASE \E h \in Heads, b \in Bases : OtherOpen(h, b)
  BY <1>0, <1>3, <1>7
<1>8. CASE \E n \in 1..MaxPRs : Close(n)
  BY <1>0, <1>4, <1>8
<1> QED
  BY <1>1, <1>5, <1>6, <1>7, <1>8

\* Where each step of a call leads.
LEMMA PlaceAfter ==
    ASSUME TypeOK, NEW o \in Ops
    PROVE  /\ Push(o) => call'[o].pc \in {"pushed", "confirm"}
           /\ VerifyRef(o) => call'[o].pc = "confirm"
           /\ LookUp(o) => call'[o].pc \in {"confirm", "over", "create"}
           /\ Create(o) => call'[o].pc \in {"verify", "recheck"}
           /\ Recheck(o) \/ VerifyCreated(o) => call'[o].pc \in {"confirm", "over"}
           /\ ConfirmOperation(o) \/ Crash(o) => call'[o].pc = "over"
<1>1. call[o] \in Call
  BY CallTypes
<1>2. ASSUME NEW place, Goto(o, place) PROVE call'[o].pc = place
  BY <1>1, <1>2 DEF Goto, TypeOK, Call
<1>3. ASSUME NEW status, NEW n, Outcome(o, status, n) PROVE call'[o].pc = "confirm"
  BY <1>1, <1>3 DEF Outcome, TypeOK, Call
<1>4. ASSUME End(o) PROVE call'[o].pc = "over"
  BY <1>4, EndTypes, MaxPRsAssumption
<1>5. ASSUME NEW list, NEW status, UseNewest(o, list, status) PROVE call'[o].pc \in {"confirm", "over"}
  BY <1>3, <1>4, <1>5 DEF UseNewest
<1> QED
  BY <1>2, <1>3, <1>4, <1>5
  DEF Push, VerifyRef, LookUp, Create, Recheck, VerifyCreated, ConfirmOperation, Crash

-----------------------------------------------------------------------------
(* Every pull request the publisher opened has its row *)

OpenedInv ==
    \A n \in DOMAIN prs : prs[n].opener \in Ops =>
        LET o == prs[n].opener IN
        /\ call[o].pc \notin {"idle", "intent", "create"}
        /\ IsPull(journal[o]) /\ journal[o].head = prs[n].head /\ journal[o].base = prs[n].base

LEMMA PastCreate ==
    ASSUME TypeOK, [Next]_vars, NEW o \in Ops, call[o].pc \notin {"idle", "intent", "create"}
    PROVE  call'[o].pc \notin {"idle", "intent", "create"}
<1>1. ~Starts(o) /\ ~Push(o) /\ ~LookUp(o) /\ ~Create(o)
  BY DEF Starts, StartPublish, StartPull, Begin, Push, LookUp, Create
<1>2. call'[o] = call[o] \/ VerifyRef(o) \/ Recheck(o) \/ VerifyCreated(o) \/ ConfirmOperation(o) \/ Crash(o)
  BY <1>1, StepOf DEF Step
<1> QED
  BY <1>2, PlaceAfter

LEMMA OpenedStep == ASSUME TypeOK, RowInv, OpenedInv, [Next]_vars PROVE OpenedInv'
<1> SUFFICES ASSUME NEW n \in DOMAIN prs', NEW o \in Ops, o = prs'[n].opener
             PROVE  /\ call'[o].pc \notin {"idle", "intent", "create"}
                    /\ IsPull(journal'[o]) /\ journal'[o].head = prs'[n].head /\ journal'[o].base = prs'[n].base
  BY DEF OpenedInv, IsPull
<1>1. CASE n \in DOMAIN prs
  <2>1. prs'[n].head = prs[n].head /\ prs'[n].base = prs[n].base /\ prs[n].opener = o
    BY <1>1, PullsStay
  <2>2. /\ call[o].pc \notin {"idle", "intent", "create"}
        /\ IsPull(journal[o]) /\ journal[o].head = prs[n].head /\ journal[o].base = prs[n].base
    BY <1>1, <2>1 DEF OpenedInv
  <2>3. call'[o].pc \notin {"idle", "intent", "create"}
    BY <2>2, PastCreate
  <2>4. IsPull(journal'[o]) /\ journal'[o].head = journal[o].head /\ journal'[o].base = journal[o].base
    BY <2>2, RowStays
  <2> QED
    BY <2>1, <2>2, <2>3, <2>4
<1>2. CASE n \notin DOMAIN prs
  <2>1. Create(o) /\ prs'[n].head = args(o).head /\ prs'[n].base = args(o).base
    BY <1>2, PullsStay, OpsAssumption
  <2>2. call'[o].pc \notin {"idle", "intent", "create"} /\ journal'[o] = journal[o]
    BY <2>1, PlaceAfter DEF Create
  <2>3. IsPull(journal[o]) /\ journal[o].head = args(o).head /\ journal[o].base = args(o).base
    BY <2>1, RecordKinds DEF Create, RowInv, Row
  <2> QED
    BY <2>1, <2>2, <2>3
<1> QED
  BY <1>1, <1>2

\* Nothing is opened without a row written before it, for the same two branches: a crash
\* leaves the row behind.
THEOREM PullsAreJournaled == Spec => []EffectsAreJournaled
<1>1. Init => OpenedInv
  BY DEF Init, OpenedInv
<1>2. TypeOK /\ RowInv /\ OpenedInv /\ [Next]_vars => TypeOK' /\ RowInv' /\ OpenedInv'
  BY TypeStep, OpenedStep
<1>3. OpenedInv => EffectsAreJournaled
  BY DEF OpenedInv, EffectsAreJournaled
<1> QED
  BY TypeInit, <1>1, <1>2, <1>3, PTL DEF Spec

-----------------------------------------------------------------------------
(* No second pull request *)

LookInv ==
    /\ \A o \in Ops :
          /\ lookedAt[o] <= Len(prs)
          /\ call[o].pc = "create" => \A m \in 1..lookedAt[o] : m \notin Numbers(args(o).head, args(o).base)
    /\ NoSecondPullRequest

LEMMA LookStep == ASSUME TypeOK, RowInv, OpenedInv, LookInv, [Next]_vars PROVE LookInv'
<1>0. /\ DOMAIN prs = 1..Len(prs) /\ Len(prs) \in Nat /\ Len(prs') \in Nat /\ Len(prs) <= Len(prs')
      /\ \A o \in Ops : lookedAt[o] \in Nat
  BY PullsStay DEF TypeOK
<1>1. ASSUME NEW o \in Ops PROVE lookedAt'[o] <= Len(prs')
  <2>1. CASE lookedAt'[o] = lookedAt[o]
    BY <1>0, <2>1 DEF LookInv
  <2>2. CASE LookUp(o)
    <3>1. lookedAt'[o] = lookedAt[o] \/ lookedAt'[o] = Len(prs)
      BY <2>2 DEF LookUp, TypeOK
    <3> QED
      BY <1>0, <2>1, <3>1
  <2> QED
    BY <2>1, <2>2, StepOf
<1>2. ASSUME NEW o \in Ops, call'[o].pc = "create", NEW m \in 1..lookedAt'[o]
      PROVE  m \notin Numbers(args(o).head, args(o).base)'
  <2>1. CASE LookUp(o)
    <3>1. Goto(o, "create") /\ ListFor(o) = <<>> /\ prs' = prs
      <4>1. ~Outcome(o, "FAILED", 0)
        BY <1>2, OutcomeTypes, MaxPRsAssumption DEF Settled
      <4>2. ASSUME ListFor(o) # <<>> PROVE ~UseNewest(o, ListFor(o), "REUSED")
        BY <1>2, <4>2, UseNewestTypes, MaxPRsAssumption DEF Settled, ListFor
      <4> QED
        BY <2>1, <4>1, <4>2 DEF LookUp, remote
    <3>2. args(o)' = args(o)
      BY <3>1, GotoTypes DEF Place, args
    <3>3. Numbers(args(o).head, args(o).base) = {}
      BY <3>1, ListFacts DEF ListFor, TypeOK
    <3> QED
      BY <3>1, <3>2, <3>3 DEF Numbers
  <2>2. CASE call'[o] = call[o] /\ lookedAt'[o] = lookedAt[o]
    <3>1. m \in DOMAIN prs /\ m \notin Numbers(args(o).head, args(o).base)
      BY <1>0, <1>2, <2>2 DEF LookInv
    <3>2. args(o)' = args(o)
      BY <2>2 DEF args
    <3>3. prs'[m].head = prs[m].head /\ prs'[m].base = prs[m].base
      BY <3>1, PullsStay
    <3> QED
      BY <3>1, <3>2, <3>3 DEF Numbers
  <2>3. ~Starts(o) \/ call'[o].pc # "create"
    <3>1. ASSUME Starts(o) PROVE call'[o].pc = "intent"
      BY <3>1 DEF Starts, StartPublish, StartPull, Begin, TypeOK, Call
    <3> QED
      BY <3>1
  <2> QED
    BY <1>2, <2>1, <2>2, <2>3, StepOf, PlaceAfter DEF Step
<1>3. ASSUME NEW n \in DOMAIN prs', NEW m \in 1..(n - 1), NEW o \in Ops, prs'[n].opener = o,
             prs'[m].head = prs'[n].head, prs'[m].base = prs'[n].base
      PROVE  m > lookedAt'[o]
  <2>1. CASE n \in DOMAIN prs
    <3>1. /\ prs[n].opener = o /\ prs'[n].head = prs[n].head /\ prs'[n].base = prs[n].base
          /\ m \in DOMAIN prs /\ prs'[m].head = prs[m].head /\ prs'[m].base = prs[m].base
      <4>1. m \in DOMAIN prs
        BY <1>0, <2>1
      <4> QED
        BY <1>3, <2>1, <4>1, PullsStay
    <3>2. m > lookedAt[o]
      BY <1>3, <2>1, <3>1 DEF LookInv, NoSecondPullRequest
    <3>3. ~LookUp(o)
      BY <2>1, <3>1 DEF OpenedInv, LookUp
    <3>4. lookedAt'[o] = lookedAt[o]
      BY <3>3, StepOf
    <3> QED
      BY <3>2, <3>4
  <2>2. CASE n \notin DOMAIN prs
    <3>1. n = Len(prs) + 1 /\ Create(o) /\ prs'[n].head = args(o).head /\ prs'[n].base = args(o).base
      BY <1>3, <2>2, PullsStay, OpsAssumption
    <3>2. m \in DOMAIN prs
      BY <1>0, <3>1
    <3>3. m \in Numbers(args(o).head, args(o).base)
      BY <1>3, <3>1, <3>2, PullsStay DEF Numbers
    <3>4. lookedAt' = lookedAt /\ call[o].pc = "create"
      BY <3>1 DEF Create, history
    <3> QED
      BY <1>0, <3>2, <3>3, <3>4 DEF LookInv
  <2> QED
    BY <2>1, <2>2
<1>4. (\A o \in Ops : /\ lookedAt[o] <= Len(prs)
                      /\ call[o].pc = "create" =>
                            \A m \in 1..lookedAt[o] : m \notin Numbers(args(o).head, args(o).base))'
  BY <1>1, <1>2
<1>5. NoSecondPullRequest'
  BY <1>3 DEF NoSecondPullRequest
<1> QED
  BY <1>4, <1>5 DEF LookInv

\* What an operation opens did not exist when it looked, however many operations run, fail
\* and die: a lookup that found nothing is still true for what there was at the lookup.
THEOREM NothingIsOpenedTwice == Spec => []NoSecondPullRequest
<1>1. Init => OpenedInv /\ LookInv
  BY DEF Init, OpenedInv, LookInv, NoSecondPullRequest, IdleCall
<1>2. /\ TypeOK /\ RowInv /\ OpenedInv /\ LookInv /\ [Next]_vars
      => TypeOK' /\ RowInv' /\ OpenedInv' /\ LookInv'
  BY TypeStep, OpenedStep, LookStep
<1>3. LookInv => NoSecondPullRequest
  BY DEF LookInv
<1> QED
  BY TypeInit, <1>1, <1>2, <1>3, PTL DEF Spec

-----------------------------------------------------------------------------
(* Settled rows are true *)

Seen == {"CREATED", "REUSED", "REUSED_AFTER_ERROR"}

\* What a call knows of the remote when it confirms.
CallKnows(o) ==
    /\ call[o].pc = "verify" => \E n \in Numbers(args(o).head, args(o).base) : prs[n].opener = o
    /\ call[o].pc = "confirm" /\ IsPublish(args(o)) /\ call[o].status = "PUBLISHED"
          => args(o).sha \in held[args(o).head]
    /\ call[o].pc = "confirm" /\ IsPull(args(o)) /\ call[o].status \in Seen
          => /\ call[o].pr \in Numbers(args(o).head, args(o).base)
             /\ call[o].status = "CREATED" => prs[call[o].pr].opener = o

RowIsTrue(o) ==
    /\ IsPublish(journal[o]) /\ journal[o].status \in {"PUBLISHED", "RECONCILED"}
          => journal[o].sha \in held[journal[o].head]
    /\ IsPull(journal[o]) /\ journal[o].status \in Seen
          => /\ journal[o].pr \in Numbers(journal[o].head, journal[o].base)
             /\ journal[o].status = "CREATED" => prs[journal[o].pr].opener = o

TruthInv ==
    /\ \A h \in Heads : refs[h] # NoSha => refs[h] \in held[h]
    /\ \A o \in Ops : CallKnows(o) /\ RowIsTrue(o)

LEMMA HeldGrows ==
    ASSUME TypeOK, RowInv, [Next]_vars, NEW h \in Heads
    PROVE  /\ held[h] \subseteq held'[h]
           /\ (refs[h] # NoSha => refs[h] \in held[h]) => (refs'[h] # NoSha => refs'[h] \in held'[h])
<1> USE DEF remote, history
<1>1. ASSUME NEW g \in Heads, NEW s \in Shas, MoveRef(g, s)
      PROVE  /\ held[h] \subseteq held'[h]
             /\ (refs[h] # NoSha => refs[h] \in held[h]) => (refs'[h] # NoSha => refs'[h] \in held'[h])
  BY <1>1 DEF MoveRef, TypeOK
<1>2. ASSUME NEW o \in Ops, Push(o)
      PROVE  \/ UNCHANGED <<refs, held>>
             \/ \E g \in Heads, s \in Shas : MoveRef(g, s)
  <2>1. args(o).head \in Heads /\ args(o).sha \in Shas
    BY <1>2, RecordKinds DEF Push, RowInv, Row, Publish
  <2> QED
    BY <1>2, <2>1 DEF Push
<1>3. \/ UNCHANGED <<refs, held>>
      \/ \E g \in Heads, s \in Shas : MoveRef(g, s)
  BY <1>2 DEF Next, Step, StartPublish, StartPull, VerifyRef, LookUp, Create, Recheck, VerifyCreated,
         ConfirmOperation, Crash, Reconcile, LeavePending, ReconcileStart, Others, OtherPush, OtherOpen,
         Close, vars
<1> QED
  BY <1>1, <1>3

\* A pull request of two branches remains one of them, and its opener's.
LEMMA NumbersGrow ==
    ASSUME TypeOK, RowInv, [Next]_vars, NEW h, NEW b, NEW n \in Numbers(h, b)
    PROVE  n \in Numbers(h, b)' /\ prs'[n].opener = prs[n].opener
<1>1. n \in DOMAIN prs /\ n \in DOMAIN prs'
  BY PullsStay DEF Numbers
<1> QED
  BY <1>1, PullsStay DEF Numbers

\* What is confirmed after UseNewest: the newest of the list.
LEMMA NewestIsKnown ==
    ASSUME TypeOK, RowInv, NEW o \in Ops, NEW status \in Seen,
           call[o].pc \in {"intent", "recheck", "verify"}, IsPull(args(o)), prs' = prs, held' = held,
           ListFor(o) # <<>>, UseNewest(o, ListFor(o), status),
           status = "CREATED" => \A n \in Numbers(args(o).head, args(o).base) : prs[n].opener = o
    PROVE  CallKnows(o)'
<1>1. status \in Settled
  BY DEF Seen, Settled
<1>2. \/ call'[o].pc = "over"
      \/ /\ call'[o].pc = "confirm" /\ call'[o].args = args(o) /\ call'[o].status = status
         /\ call'[o].pr \in Numbers(args(o).head, args(o).base)
  BY <1>1, UseNewestTypes, MaxPRsAssumption DEF ListFor
<1>3. CASE call'[o].pc = "over"
  BY <1>3 DEF CallKnows
<1>4. CASE call'[o].pc # "over"
  <2>1. args(o)' = args(o)
    BY <1>2, <1>4 DEF args
  <2>2. call'[o].pr \in Numbers(args(o).head, args(o).base)'
    BY <1>2, <1>4, <2>1 DEF Numbers
  <2>3. status = "CREATED" => prs'[call'[o].pr].opener = o
    BY <1>2, <1>4
  <2>4. ~IsPublish(args(o)')
    BY <2>1, RecordKinds DEF RowInv, Row
  <2>5. call'[o].pc = "confirm" /\ call'[o].status = status
    BY <1>2, <1>4
  <2> QED
    BY <2>2, <2>3, <2>4, <2>5 DEF CallKnows, IsPublish
<1> QED
  BY <1>3, <1>4

LEMMA CallKnowsStep ==
    ASSUME TypeOK, RowInv, TruthInv, [Next]_vars, NEW o \in Ops
    PROVE  CallKnows(o)'
<1>1. CASE call'[o] = call[o]
  <2>1. args(o)' = args(o) /\ CallKnows(o)
    BY <1>1 DEF args, TruthInv
  <2>2. ASSUME call[o].pc = "verify"
        PROVE  \E n \in Numbers(args(o).head, args(o).base)' : prs'[n].opener = o
    BY <2>1, <2>2, NumbersGrow DEF CallKnows
  <2>3. ASSUME call[o].pc = "confirm", IsPublish(args(o)), call[o].status = "PUBLISHED"
        PROVE  args(o).sha \in held'[args(o).head]
    <3>1. args(o).head \in Heads
      BY <2>3, RecordKinds DEF RowInv, Row, Publish
    <3> QED
      BY <2>1, <2>3, <3>1, HeldGrows DEF CallKnows
  <2>4. ASSUME call[o].pc = "confirm", IsPull(args(o)), call[o].status \in Seen
        PROVE  /\ call[o].pr \in Numbers(args(o).head, args(o).base)'
               /\ call[o].status = "CREATED" => prs'[call[o].pr].opener = o
    BY <2>1, <2>4, NumbersGrow DEF CallKnows
  <2> QED
    BY <1>1, <2>1, <2>2, <2>3, <2>4 DEF CallKnows, IsPublish, IsPull
<1>2. ASSUME NEW status \in {"FAILED", "UNCERTAIN"}, Outcome(o, status, 0) PROVE CallKnows(o)'
  <2>1. status \in Settled /\ status \notin Seen /\ status # "PUBLISHED"
    BY DEF Settled, Seen
  <2>2. call'[o].pc = "confirm" /\ call'[o].status = status
    BY <1>2, <2>1, OutcomeTypes, MaxPRsAssumption
  <2> QED
    BY <2>1, <2>2 DEF CallKnows
<1>3. ASSUME call'[o].pc \notin {"verify", "confirm"} PROVE CallKnows(o)'
  BY <1>3 DEF CallKnows
<1>4. ASSUME NEW place \in {"pushed", "create", "recheck"}, Goto(o, place) PROVE CallKnows(o)'
  BY <1>3, <1>4, GotoTypes DEF Place
<1>5. CASE Starts(o)
  <2>1. call'[o].pc = "intent"
    BY <1>5 DEF Starts, StartPublish, StartPull, Begin, TypeOK, Call
  <2> QED
    BY <1>3, <2>1
<1>6. CASE Push(o)
  BY <1>2, <1>4, <1>6 DEF Push
<1>7. CASE VerifyRef(o)
  <2>1. CASE refs[args(o).head] = args(o).sha /\ Outcome(o, "PUBLISHED", 0)
    <3>1. args(o).head \in Heads /\ args(o).sha \in Shas
      BY <1>7, RecordKinds DEF VerifyRef, RowInv, Row, Publish
    <3>2. args(o).sha \in held[args(o).head]
      BY <2>1, <3>1, HeadsAssumption DEF TruthInv
    <3>3. call'[o].pc = "confirm" /\ call'[o].status = "PUBLISHED" /\ args(o)' = args(o)
      BY <2>1, OutcomeTypes, MaxPRsAssumption DEF Settled, args
    <3>4. held' = held
      BY <1>7 DEF VerifyRef, history
    <3> QED
      BY <3>2, <3>3, <3>4 DEF CallKnows, Seen
  <2> QED
    BY <1>2, <1>7, <2>1 DEF VerifyRef
<1>8. CASE LookUp(o)
  <2>1. CASE ListFor(o) # <<>> /\ UseNewest(o, ListFor(o), "REUSED")
    BY <1>8, <2>1, NewestIsKnown DEF LookUp, Seen, remote
  <2> QED
    BY <1>2, <1>4, <1>8, <2>1 DEF LookUp
<1>9. CASE Create(o)
  <2>1. CASE Goto(o, "verify") /\ OpenPull(args(o).head, args(o).base, o)
    <3>1. args(o).head \in Heads /\ args(o).base \in Bases
      BY <1>9, RecordKinds DEF Create, RowInv, Row, Pull
    <3>2. call'[o].pc = "verify" /\ args(o)' = args(o)
      BY <2>1, GotoTypes DEF Place, args
    <3>3. /\ Len(prs) + 1 \in DOMAIN prs'
          /\ prs'[Len(prs) + 1] =
                [head |-> args(o).head, base |-> args(o).base, state |-> "OPEN", opener |-> o]
      BY <2>1, <3>1, NewPull, MaxPRsAssumption
    <3>4. \E n \in Numbers(args(o).head, args(o).base)' : prs'[n].opener = o
      BY <3>2, <3>3 DEF Numbers
    <3> QED
      BY <3>2, <3>4 DEF CallKnows
  <2> QED
    BY <1>4, <1>9, <2>1 DEF Create
<1>10. CASE Recheck(o)
  <2>1. CASE ListFor(o) # <<>> /\ UseNewest(o, ListFor(o), "REUSED_AFTER_ERROR")
    BY <1>10, <2>1, NewestIsKnown DEF Recheck, Seen, remote, history, RowInv
  <2> QED
    BY <1>2, <1>10, <2>1 DEF Recheck
<1>11. CASE VerifyCreated(o)
  <2>1. CASE Len(ListFor(o)) = 1 /\ UseNewest(o, ListFor(o), "CREATED")
    <3>1. ListFor(o) # <<>>
      BY <2>1
    <3>2. \A m, n \in Numbers(args(o).head, args(o).base) : m = n
      BY <2>1, ListFacts DEF ListFor, TypeOK
    <3>3. \A n \in Numbers(args(o).head, args(o).base) : prs[n].opener = o
      BY <1>11, <3>2 DEF VerifyCreated, TruthInv, CallKnows
    <3>4. prs' = prs /\ held' = held /\ IsPull(args(o)) /\ call[o].pc = "verify"
      BY <1>11 DEF VerifyCreated, remote, history, RowInv
    <3> QED
      BY <2>1, <3>1, <3>3, <3>4, NewestIsKnown DEF Seen
  <2> QED
    BY <1>2, <1>11, <2>1 DEF VerifyCreated
<1>12. CASE ConfirmOperation(o) \/ Crash(o)
  BY <1>3, <1>12, PlaceAfter
<1> QED
  BY <1>1, <1>5, <1>6, <1>7, <1>8, <1>9, <1>10, <1>11, <1>12, StepOf DEF Step

LEMMA RowIsTrueStep ==
    ASSUME TypeOK, RowInv, TruthInv, [Next]_vars, NEW o \in Ops
    PROVE  RowIsTrue(o)'
<1>1. CASE journal'[o] = journal[o]
  <2>1. RowIsTrue(o)
    BY DEF TruthInv
  <2>2. ASSUME IsPublish(journal[o]), journal[o].status \in {"PUBLISHED", "RECONCILED"}
        PROVE  journal[o].sha \in held'[journal[o].head]
    <3>1. journal[o].head \in Heads
      BY <2>2, RecordKinds DEF TypeOK, PublishRow
    <3> QED
      BY <2>1, <2>2, <3>1, HeldGrows DEF RowIsTrue
  <2>3. ASSUME IsPull(journal[o]), journal[o].status \in Seen
        PROVE  /\ journal[o].pr \in Numbers(journal[o].head, journal[o].base)'
               /\ journal[o].status = "CREATED" => prs'[journal[o].pr].opener = o
    <3>1. /\ journal[o].pr \in Numbers(journal[o].head, journal[o].base)
          /\ journal[o].status = "CREATED" => prs[journal[o].pr].opener = o
      BY <2>1, <2>3 DEF RowIsTrue
    <3>2. /\ journal[o].pr \in DOMAIN prs /\ journal[o].pr \in DOMAIN prs'
          /\ prs[journal[o].pr].head = journal[o].head /\ prs[journal[o].pr].base = journal[o].base
      BY <3>1, PullsStay DEF Numbers
    <3>3. /\ prs'[journal[o].pr].head = journal[o].head /\ prs'[journal[o].pr].base = journal[o].base
          /\ prs'[journal[o].pr].opener = prs[journal[o].pr].opener
      BY <3>2, PullsStay
    <3> QED
      BY <1>1, <3>1, <3>2, <3>3 DEF Numbers
  <2> QED
    BY <1>1, <2>2, <2>3 DEF RowIsTrue, IsPublish, IsPull, Numbers
<1>2. CASE Starts(o)
  <2>1. journal'[o].status = "PENDING"
    <3>1. CASE \E h \in Heads, s \in Shas : StartPublish(o, h, s)
      BY <3>1 DEF StartPublish, RecordIntent, TypeOK
    <3>2. CASE \E h \in Heads, b \in Bases : StartPull(o, h, b)
      BY <3>2 DEF StartPull, RecordIntent, TypeOK
    <3> QED
      BY <1>2, <3>1, <3>2 DEF Starts
  <2> QED
    BY <2>1 DEF RowIsTrue, Seen
<1>3. CASE ConfirmOperation(o)
  <2>0. CallKnows(o) /\ Row(o) /\ call[o].pc = "confirm" /\ call[o].status # "RECONCILED"
        /\ prs' = prs /\ held' = held
    BY <1>3 DEF ConfirmOperation, TruthInv, RowInv, remote, history
  <2>1. CASE args(o) \in Publish /\ journal[o] \in PublishRow
    <3>1. /\ journal'[o] \in PublishRow /\ journal'[o].status = call[o].status
          /\ journal'[o].head = args(o).head /\ journal'[o].sha = args(o).sha
      BY <1>3, <2>0, <2>1, ConfirmedRow, RecordKinds DEF Row
    <3>2. call[o].status = "PUBLISHED" => args(o).sha \in held[args(o).head]
      BY <2>0, <2>1, RecordKinds DEF CallKnows
    <3>3. ~IsPull(journal'[o])
      BY <3>1, RecordKinds
    <3> QED
      BY <2>0, <3>1, <3>2, <3>3 DEF RowIsTrue, IsPull
  <2>2. CASE args(o) \in Pull /\ journal[o] \in PullRow
    <3>1. /\ journal'[o] \in PullRow /\ journal'[o].status = call[o].status
          /\ journal'[o].head = args(o).head /\ journal'[o].base = args(o).base
          /\ call[o].pr # 0 => journal'[o].pr = call[o].pr
      BY <1>3, <2>0, <2>2, ConfirmedRow, RecordKinds DEF Row
    <3>2. ASSUME call[o].status \in Seen
          PROVE  /\ journal'[o].pr = call[o].pr /\ call[o].pr \in Numbers(args(o).head, args(o).base)
                 /\ call[o].status = "CREATED" => prs[call[o].pr].opener = o
      <4>1. /\ call[o].pr \in Numbers(args(o).head, args(o).base)
            /\ call[o].status = "CREATED" => prs[call[o].pr].opener = o
        BY <2>0, <2>2, <3>2, RecordKinds DEF CallKnows
      <4>2. call[o].pr # 0
        BY <4>1, PullsStay DEF Numbers
      <4> QED
        BY <3>1, <4>1, <4>2
    <3>3. ~IsPublish(journal'[o])
      BY <3>1, RecordKinds
    <3> QED
      BY <2>0, <3>1, <3>2, <3>3 DEF RowIsTrue, IsPublish, Numbers
  <2> QED
    BY <2>0, <2>1, <2>2 DEF Row
<1>4. CASE Reconcile(o)
  <2>0. prs' = prs /\ held' = held
    BY <1>4 DEF Reconcile, remote, history
  <2>1. journal'[o].status = "RECONCILED"
    BY <1>4, ReconciledRow, MaxPRsAssumption
  <2>2. ASSUME IsPublish(journal'[o]) PROVE journal'[o].sha \in held'[journal'[o].head]
    <3>1. /\ journal[o] \in PublishRow /\ refs[journal[o].head] = journal[o].sha
          /\ journal'[o].head = journal[o].head /\ journal'[o].sha = journal[o].sha
      BY <1>4, <2>2, ReconciledRow, RecordKinds, MaxPRsAssumption
    <3>2. journal[o].sha \in held[journal[o].head]
      BY <3>1, HeadsAssumption DEF TruthInv, PublishRow
    <3> QED
      BY <2>0, <3>1, <3>2
  <2> QED
    BY <2>1, <2>2 DEF RowIsTrue, Seen, IsPublish
<1> QED
  BY <1>1, <1>2, <1>3, <1>4, StepOf

\* A settled row says what the remote has shown: in particular the one pull request a list
\* shows after a create is the one that was created, since that one is in the list.
THEOREM RowsAreTrue == Spec => []SettledRowIsTrue
<1>1. Init => TruthInv
  <2> SUFFICES ASSUME Init PROVE TruthInv
    OBVIOUS
  <2>1. \A o \in Ops : CallKnows(o)
    BY DEF Init, CallKnows, IdleCall
  <2>2. \A o \in Ops : RowIsTrue(o)
    BY RecordKinds DEF Init, RowIsTrue
  <2> QED
    BY <2>1, <2>2 DEF Init, TruthInv
<1>2. TypeOK /\ RowInv /\ TruthInv /\ [Next]_vars => TypeOK' /\ RowInv' /\ TruthInv'
  <2> SUFFICES ASSUME TypeOK, RowInv, TruthInv, [Next]_vars PROVE TypeOK' /\ RowInv' /\ TruthInv'
    OBVIOUS
  <2>1. (\A h \in Heads : refs[h] # NoSha => refs[h] \in held[h])'
    BY HeldGrows DEF TruthInv
  <2>2. (\A o \in Ops : CallKnows(o) /\ RowIsTrue(o))'
    BY CallKnowsStep, RowIsTrueStep
  <2> QED
    BY <2>1, <2>2, TypeStep DEF TruthInv
<1>3. TruthInv => SettledRowIsTrue
  BY DEF TruthInv, SettledRowIsTrue, RowIsTrue, Numbers, Seen
<1> QED
  BY TypeInit, <1>1, <1>2, <1>3, PTL DEF Spec
=============================================================================

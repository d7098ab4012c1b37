-------------------------- MODULE StateLedger_proofs --------------------------
(***************************************************************************)
(* Proofs about StateLedger, for every set of tasks, clients and SHAs and   *)
(* every retry budget.                                                      *)
(***************************************************************************)
EXTENDS StateLedger, FiniteSetTheorems, TLAPS

\* The statuses a task reaches only after it ran: its attempt number has left 0, where it starts.
RanStatus == {"RUNNING", "VALIDATING", "REVIEW", "READY_FOR_MERGE", "DONE", "FAILED", "NEEDS_HUMAN"}
RanHasAttempt ==
    \A t \in Task : /\ t \notin created => row[t].attempt = 0
                    /\ t \in created /\ row[t].status \in RanStatus => row[t].attempt >= 1

\* What a client knows is some earlier or the present revision, with the status it had.
Past(c, t) ==
    /\ t \notin created => known[c][t].revision = -1
    /\ known[c][t].revision <= row[t].revision
    /\ known[c][t].revision = row[t].revision => known[c][t].status = row[t].status
KnownIsPast == \A c \in Client, t \in Task : Past(c, t)

-----------------------------------------------------------------------------
(* The operators of the transition. *)

LEMMA GivenType ==
    ASSUME NEW S, NEW arg \in S \cup {None}, NEW recorded \in S \cup {None}
    PROVE  Given(arg, recorded) \in S \cup {None}
  BY DEF Given

\* A transition within the retry budget writes a well-formed row.
LEMMA RowAfterType ==
    ASSUME NEW r \in Row, NEW to \in Status, NEW base \in BaseSha \cup {None},
           NEW head \in PrHead \cup {None}, NEW candidate \in Digest \cup {None},
           WithinRetryBudget(r, to)
    PROVE  RowAfter(r, to, base, head, candidate) \in Row
  <1>1. r.revision + 1 \in Nat
    BY DEF Row
  <1>2. AttemptAfter(r, to) \in 0 .. MAX_RETRY_ATTEMPTS
    BY RetryAssumption DEF Row, AttemptAfter, WithinRetryBudget
  <1>3. Given(base, r.base) \in BaseSha \cup {None}
    BY DEF Row, Given
  <1>4. CandidateAfter(r, base, head, candidate) \in Digest \cup {None}
    BY DEF Row, CandidateAfter, Given
  <1>5. HeadAfter(r, base, head) \in PrHead \cup {None}
    BY DEF Row, HeadAfter, Given
  <1>6. Append(r.history, to) \in Seq(Status)
    BY DEF Row
  <1>. QED
    BY <1>1, <1>2, <1>3, <1>4, <1>5, <1>6 DEF Row, RowAfter

LEMMA FirstRowType ==
    ASSUME NEW base \in BaseSha \cup {None}
    PROVE  FirstRow(base) \in Row
  <1>1. "PROPOSED" \in Status
    BY DEF Status
  <1>2. <<"PROPOSED">> \in Seq(Status)
    BY <1>1
  <1>. QED
    BY <1>1, <1>2, RetryAssumption DEF FirstRow, Row

LEMMA ReadingType ==
    ASSUME NEW r \in Row
    PROVE  Reading(r) \in [revision : Nat \cup {-1}, status : Status]
  BY DEF Reading, Row

-----------------------------------------------------------------------------
\* The state of the ledger stays well-typed; in particular no attempt number exceeds
\* MAX_RETRY_ATTEMPTS.
THEOREM TypeCorrect == Spec => []TypeOK
  <1>1. Init => TypeOK
    <2> SUFFICES ASSUME Init PROVE TypeOK
      OBVIOUS
    <2>1. NotRead \in [revision : Nat \cup {-1}, status : Status]
      BY DEF NotRead, Status
    <2>2. row \in [Task -> Row]
      BY FirstRowType DEF Init
    <2>. QED
      BY <2>1, <2>2 DEF Init, TypeOK
  <1>2. TypeOK /\ [Next]_vars => TypeOK'
    <2> SUFFICES ASSUME TypeOK, [Next]_vars
                 PROVE  TypeOK'
      OBVIOUS
    <2>1. ASSUME NEW c \in Client, NEW t \in Task, NEW base \in BaseSha \cup {None},
                 InitializeTask(c, t, base)
          PROVE  TypeOK'
      <3>1. FirstRow(base) \in Row /\ Reading(FirstRow(base)) \in [revision : Nat \cup {-1}, status : Status]
        BY FirstRowType, ReadingType
      <3>. QED
        BY <2>1, <3>1 DEF InitializeTask, TypeOK
    <2>2. ASSUME NEW c \in Client, NEW t \in Task, GetState(c, t)
          PROVE  TypeOK'
      <3>1. Reading(row[t]) \in [revision : Nat \cup {-1}, status : Status]
        BY ReadingType DEF TypeOK
      <3>. QED
        BY <2>2, <3>1 DEF GetState, TypeOK
    <2>3. ASSUME NEW c \in Client, NEW t \in Task, NEW to \in Status,
                 NEW base \in BaseSha \cup {None}, NEW head \in PrHead \cup {None},
                 NEW candidate \in Digest \cup {None}, NEW requiresApproval \in BOOLEAN,
                 Transition(c, t, to, base, head, candidate, requiresApproval)
          PROVE  TypeOK'
      <3> DEFINE new == RowAfter(row[t], to, base, head, candidate)
      <3>1. new \in Row
        BY <2>3, RowAfterType DEF Transition, TypeOK
      <3>2. Reading(new) \in [revision : Nat \cup {-1}, status : Status]
        BY <3>1, ReadingType
      <3>3. <<new.base, new.head>> \in (BaseSha \cup {None}) \X (PrHead \cup {None})
        BY <3>1 DEF Row
      <3>4. /\ row' = [row EXCEPT ![t] = new]
            /\ known' = [known EXCEPT ![c][t] = Reading(new)]
            /\ evidence' = [evidence EXCEPT ![t] =
                             IF candidate # None THEN <<new.base, new.head>> ELSE @]
            /\ gated' \in {gated \cup {t}, gated}
            /\ UNCHANGED <<created, consumed>>
        BY <2>3 DEF Transition
      <3> HIDE DEF new
      <3>. QED
        BY <3>1, <3>2, <3>3, <3>4 DEF TypeOK
    <2>4. ASSUME NEW k \in Token, ConsumeToken(k)
          PROVE  TypeOK'
      BY <2>4 DEF ConsumeToken, TypeOK
    <2>5. CASE UNCHANGED vars
      BY <2>5 DEF vars, TypeOK
    <2>. QED
      BY <2>1, <2>2, <2>3, <2>4, <2>5 DEF Next
  <1>. QED
    BY <1>1, <1>2, PTL DEF Spec

-----------------------------------------------------------------------------
(* Compare-and-swap. *)

\* A reading identifies the row: when a client's revision is the current one, so is the status it
\* knows.
THEOREM ReadingsArePast == Spec => []KnownIsPast
  <1>1. Init => KnownIsPast
    BY DEF Init, KnownIsPast, Past, NotRead, FirstRow
  <1>2. TypeOK /\ KnownIsPast /\ [Next]_vars => KnownIsPast'
    <2> SUFFICES ASSUME TypeOK, KnownIsPast, [Next]_vars, NEW d \in Client, NEW u \in Task
                 PROVE  Past(d, u)'
      BY DEF KnownIsPast
    <2>0. /\ row[u] \in Row /\ known[d][u] \in [revision : Nat \cup {-1}, status : Status]
          /\ row[u].revision \in Nat /\ known[d][u].revision \in Nat \cup {-1}
          /\ Past(d, u)
      BY DEF TypeOK, KnownIsPast, Row
    <2>1. ASSUME NEW c \in Client, NEW t \in Task, NEW base \in BaseSha \cup {None},
                 InitializeTask(c, t, base)
          PROVE  Past(d, u)'
      BY <2>0, <2>1 DEF InitializeTask, TypeOK, Reading, FirstRow, Past
    <2>2. ASSUME NEW c \in Client, NEW t \in Task, GetState(c, t)
          PROVE  Past(d, u)'
      BY <2>0, <2>2 DEF GetState, TypeOK, Reading, Past
    <2>3. ASSUME NEW c \in Client, NEW t \in Task, NEW to \in Status,
                 NEW base \in BaseSha \cup {None}, NEW head \in PrHead \cup {None},
                 NEW candidate \in Digest \cup {None}, NEW requiresApproval \in BOOLEAN,
                 Transition(c, t, to, base, head, candidate, requiresApproval)
          PROVE  Past(d, u)'
      <3> DEFINE new == RowAfter(row[t], to, base, head, candidate)
      <3>1. /\ new.revision = row[t].revision + 1
            /\ Reading(new).revision = new.revision /\ Reading(new).status = new.status
        BY DEF RowAfter, Reading
      <3>2. /\ row' = [row EXCEPT ![t] = new]
            /\ known' = [known EXCEPT ![c][t] = Reading(new)]
            /\ t \in created /\ created' = created
        BY <2>3 DEF Transition
      <3> HIDE DEF new
      <3>. QED
        BY <2>0, <3>1, <3>2 DEF TypeOK, Past
    <2>4. ASSUME NEW k \in Token, ConsumeToken(k)
          PROVE  Past(d, u)'
      BY <2>0, <2>4 DEF ConsumeToken, Past
    <2>5. CASE UNCHANGED vars
      BY <2>0, <2>5 DEF vars, Past
    <2>. QED
      BY <2>1, <2>2, <2>3, <2>4, <2>5 DEF Next
  <1>. QED
    BY <1>1, <1>2, TypeCorrect, PTL DEF Spec

\* Whoever replaces a row has read exactly the revision and status that it replaces.
THEOREM TransitionsAreFresh == Spec => NoLostUpdate
  <1>1. TypeOK /\ KnownIsPast /\ [Next]_vars
          => [\A t \in created : row'[t] # row[t] =>
                 \E c \in Client : known[c][t] = Reading(row[t]) /\ known'[c][t] = Reading(row'[t])]_vars
    <2> DEFINE Fresh(u) ==
                 \E c \in Client : known[c][u] = Reading(row[u]) /\ known'[c][u] = Reading(row'[u])
    <2> SUFFICES ASSUME TypeOK, KnownIsPast, Next, NEW u \in created, row'[u] # row[u]
                 PROVE  Fresh(u)
      BY DEF vars
    <2>1. ASSUME NEW c \in Client, NEW t \in Task, NEW base \in BaseSha \cup {None},
                 InitializeTask(c, t, base)
          PROVE  Fresh(u)
      BY <2>1 DEF InitializeTask, TypeOK
    <2>2. ASSUME NEW c \in Client, NEW t \in Task, NEW to \in Status,
                 NEW base \in BaseSha \cup {None}, NEW head \in PrHead \cup {None},
                 NEW candidate \in Digest \cup {None}, NEW requiresApproval \in BOOLEAN,
                 Transition(c, t, to, base, head, candidate, requiresApproval)
          PROVE  Fresh(u)
      <3> DEFINE new == RowAfter(row[t], to, base, head, candidate)
      <3>1. /\ row' = [row EXCEPT ![t] = new]
            /\ known' = [known EXCEPT ![c][t] = Reading(new)]
            /\ known[c][t].revision = row[t].revision
        BY <2>2 DEF Transition, CasMatches
      <3>2. u = t
        BY <3>1 DEF TypeOK
      <3>3. known[c][t].status = row[t].status
        BY <3>1 DEF KnownIsPast, Past
      <3>4. known[c][t] \in [revision : Nat \cup {-1}, status : Status]
        BY DEF TypeOK
      <3>5. known[c][t] = Reading(row[t])
        BY <3>1, <3>3, <3>4 DEF Reading
      <3>6. known'[c][t] = Reading(row'[t])
        BY <3>1 DEF TypeOK
      <3>. QED
        BY <3>2, <3>5, <3>6
    <2>3. ASSUME NEW c \in Client, NEW t \in Task, GetState(c, t)
          PROVE  Fresh(u)
      BY <2>3 DEF GetState
    <2>4. ASSUME NEW k \in Token, ConsumeToken(k)
          PROVE  Fresh(u)
      BY <2>4 DEF ConsumeToken
    <2> HIDE DEF Fresh
    <2>. QED
      BY <2>1, <2>2, <2>3, <2>4 DEF Next
  <1>. QED
    BY <1>1, TypeCorrect, ReadingsArePast, PTL DEF Spec, NoLostUpdate

-----------------------------------------------------------------------------
(* Evidence and approval. *)

\* One transition keeps evidence and candidate in step.
LEMMA EvidenceAfter ==
    ASSUME NEW r, NEW to, NEW base, NEW head, NEW candidate, NEW recorded,
           r.candidate # None => recorded = <<r.base, r.head>>
    PROVE  LET new == RowAfter(r, to, base, head, candidate) IN
           new.candidate # None =>
              (IF candidate # None THEN <<new.base, new.head>> ELSE recorded) = <<new.base, new.head>>
  BY DEF RowAfter, CandidateAfter, HeadAfter, Given

\* No rebase or push leaves a candidate digest behind that was recorded for another tree.
THEOREM CandidateMatchesTree == Spec => []EvidenceIsCurrent
  <1>1. Init => EvidenceIsCurrent
    BY DEF Init, EvidenceIsCurrent
  <1>2. TypeOK /\ EvidenceIsCurrent /\ [Next]_vars => EvidenceIsCurrent'
    <2> SUFFICES ASSUME TypeOK, EvidenceIsCurrent, [Next]_vars,
                        NEW u \in created', row'[u].candidate # None
                 PROVE  evidence'[u] = <<row'[u].base, row'[u].head>>
      BY DEF EvidenceIsCurrent
    <2>1. ASSUME NEW c \in Client, NEW t \in Task, NEW base \in BaseSha \cup {None},
                 InitializeTask(c, t, base)
          PROVE  evidence'[u] = <<row'[u].base, row'[u].head>>
      BY <2>1 DEF InitializeTask, FirstRow, EvidenceIsCurrent, TypeOK
    <2>2. ASSUME NEW c \in Client, NEW t \in Task, NEW to \in Status,
                 NEW base \in BaseSha \cup {None}, NEW head \in PrHead \cup {None},
                 NEW candidate \in Digest \cup {None}, NEW requiresApproval \in BOOLEAN,
                 Transition(c, t, to, base, head, candidate, requiresApproval)
          PROVE  evidence'[u] = <<row'[u].base, row'[u].head>>
      <3> DEFINE new == RowAfter(row[t], to, base, head, candidate)
      <3>1. /\ row' = [row EXCEPT ![t] = new]
            /\ evidence' = [evidence EXCEPT ![t] =
                             IF candidate # None THEN <<new.base, new.head>> ELSE evidence[t]]
            /\ t \in created /\ created' = created
        BY <2>2 DEF Transition
      <3>2. new.candidate # None =>
              (IF candidate # None THEN <<new.base, new.head>> ELSE evidence[t]) = <<new.base, new.head>>
        BY <3>1, EvidenceAfter DEF EvidenceIsCurrent
      <3> HIDE DEF new
      <3>3. CASE u = t
        BY <3>1, <3>2, <3>3 DEF TypeOK
      <3>4. CASE u # t
        BY <3>1, <3>4 DEF TypeOK, EvidenceIsCurrent
      <3>. QED
        BY <3>3, <3>4
    <2>3. ASSUME NEW c \in Client, NEW t \in Task, GetState(c, t)
          PROVE  UNCHANGED <<created, row, evidence>>
      BY <2>3 DEF GetState
    <2>4. ASSUME NEW k \in Token, ConsumeToken(k)
          PROVE  UNCHANGED <<created, row, evidence>>
      BY <2>4 DEF ConsumeToken
    <2>5. CASE UNCHANGED vars
      BY <2>5 DEF vars, EvidenceIsCurrent
    <2>. QED
      BY <2>1, <2>2, <2>3, <2>4, <2>5 DEF Next, EvidenceIsCurrent
  <1>. QED
    BY <1>1, <1>2, TypeCorrect, PTL DEF Spec

\* A task made DONE through the gate stays DONE, under a consumed token for the head it names.
THEOREM GateBindsHead == Spec => []GatedDoneIsApproved
  <1> DEFINE GateInv == gated \subseteq created /\ GatedDoneIsApproved
  <1>1. Init => GateInv
    BY DEF Init, GatedDoneIsApproved
  <1>2. TypeOK /\ GateInv /\ [Next]_vars => GateInv'
    <2> SUFFICES ASSUME TypeOK, GateInv, [Next]_vars
                 PROVE  GateInv'
      OBVIOUS
    <2>1. ASSUME NEW c \in Client, NEW t \in Task, NEW base \in BaseSha \cup {None},
                 InitializeTask(c, t, base)
          PROVE  GateInv'
      BY <2>1 DEF InitializeTask, GatedDoneIsApproved, TypeOK
    <2>2. ASSUME NEW c \in Client, NEW t \in Task, NEW to \in Status,
                 NEW base \in BaseSha \cup {None}, NEW head \in PrHead \cup {None},
                 NEW candidate \in Digest \cup {None}, NEW requiresApproval \in BOOLEAN,
                 Transition(c, t, to, base, head, candidate, requiresApproval)
          PROVE  GateInv'
      <3> DEFINE new == RowAfter(row[t], to, base, head, candidate)
      <3>1. /\ row' = [row EXCEPT ![t] = new]
            /\ gated' = IF to = "DONE" /\ requiresApproval THEN gated \cup {t} ELSE gated
            /\ t \in created /\ created' = created /\ consumed' = consumed
            /\ row[t].status \notin TERMINAL_STATES
            /\ to = "DONE" /\ requiresApproval => ApprovedMerge(t, row[t], head)
        BY <2>2 DEF Transition
      <3>2. t \notin gated
        BY <3>1 DEF GatedDoneIsApproved, TERMINAL_STATES
      <3>3. new.status = to /\ (new.head # None => new.head = Given(head, row[t].head))
        BY DEF RowAfter, HeadAfter
      <3>4. ASSUME to = "DONE", requiresApproval, new.head # None
            PROVE  [task |-> t, head |-> new.head] \in consumed
        <4>1. PICK k \in consumed : k.task = t /\ k.head = new.head
          BY <3>1, <3>3, <3>4 DEF ApprovedMerge
        <4>2. k = [task |-> t, head |-> new.head]
          BY <4>1 DEF TypeOK, Token
        <4>. QED
          BY <4>1, <4>2
      <3> HIDE DEF new
      <3>5. ASSUME NEW u \in gated'
            PROVE  /\ row'[u].status = "DONE"
                   /\ row'[u].head # None => [task |-> u, head |-> row'[u].head] \in consumed'
        <4>1. CASE u = t
          <5>1. to = "DONE" /\ requiresApproval
            BY <3>1, <3>2, <3>5, <4>1
          <5>2. row'[t] = new
            BY <3>1 DEF TypeOK
          <5>. QED
            BY <3>1, <3>3, <3>4, <4>1, <5>1, <5>2
        <4>2. CASE u # t
          BY <3>1, <3>5, <4>2 DEF GatedDoneIsApproved, TypeOK
        <4>. QED
          BY <4>1, <4>2
      <3>. QED
        BY <3>1, <3>5 DEF GatedDoneIsApproved
    <2>3. ASSUME NEW c \in Client, NEW t \in Task, GetState(c, t)
          PROVE  GateInv'
      BY <2>3 DEF GetState, GatedDoneIsApproved
    <2>4. ASSUME NEW k \in Token, ConsumeToken(k)
          PROVE  GateInv'
      BY <2>4 DEF ConsumeToken, GatedDoneIsApproved
    <2>5. CASE UNCHANGED vars
      BY <2>5 DEF vars, GatedDoneIsApproved
    <2>. QED
      BY <2>1, <2>2, <2>3, <2>4, <2>5 DEF Next
  <1>. QED
    BY <1>1, <1>2, TypeCorrect, PTL DEF Spec

-----------------------------------------------------------------------------
(* The lifecycle. *)

\* One more edge keeps a path a path.
LEMMA PathExtends ==
    ASSUME NEW h \in Seq(Status), NEW n \in Nat, NEW to \in Status, Len(h) = n + 1,
           h[1] = "PROPOSED", <<h[n + 1], to>> \in ALLOWED_TRANSITIONS,
           \A i \in 1 .. n : <<h[i], h[i + 1]>> \in ALLOWED_TRANSITIONS
    PROVE  /\ Len(Append(h, to)) = n + 2
           /\ Append(h, to)[1] = "PROPOSED" /\ Append(h, to)[n + 2] = to
           /\ \A i \in 1 .. n + 1 : <<Append(h, to)[i], Append(h, to)[i + 1]>> \in ALLOWED_TRANSITIONS
  <1> DEFINE g == Append(h, to)
  <1>1. Len(g) = n + 2 /\ g[n + 2] = to /\ \A i \in 1 .. n + 1 : g[i] = h[i]
    OBVIOUS
  <1>2. ASSUME NEW i \in 1 .. n + 1
        PROVE  <<g[i], g[i + 1]>> \in ALLOWED_TRANSITIONS
    <2>1. CASE i = n + 1
      BY <1>1, <2>1
    <2>2. CASE i # n + 1
      <3>1. i \in 1 .. n /\ i + 1 \in 1 .. n + 1
        BY <2>2
      <3>2. g[i] = h[i] /\ g[i + 1] = h[i + 1]
        BY <1>1, <3>1
      <3>. QED
        BY <3>1, <3>2
    <2>. QED
      BY <2>1, <2>2
  <1>3. g[1] = "PROPOSED"
    BY <1>1
  <1> HIDE DEF g
  <1>. QED
    BY <1>1, <1>2, <1>3 DEF g

\* The history of every row is a path of the lifecycle that ends in its status.
THEOREM HistoryIsPath == Spec => []HistoryIsLegalPath
  <1> DEFINE Path(t) ==
        LET r == row[t] IN
        /\ Len(r.history) = r.revision + 1
        /\ r.history[1] = "PROPOSED" /\ r.history[Len(r.history)] = r.status
        /\ \A i \in 1 .. r.revision : <<r.history[i], r.history[i + 1]>> \in ALLOWED_TRANSITIONS
  <1>0. HistoryIsLegalPath <=> \A t \in created : Path(t)
    BY DEF HistoryIsLegalPath
  <1>1. Init => HistoryIsLegalPath
    BY DEF Init, HistoryIsLegalPath
  <1>2. TypeOK /\ HistoryIsLegalPath /\ [Next]_vars => HistoryIsLegalPath'
    <2> SUFFICES ASSUME TypeOK, HistoryIsLegalPath, [Next]_vars, NEW u \in created'
                 PROVE  Path(u)'
      BY DEF HistoryIsLegalPath
    <2>1. ASSUME NEW c \in Client, NEW t \in Task, NEW base \in BaseSha \cup {None},
                 InitializeTask(c, t, base)
          PROVE  Path(u)'
      <3>1. CASE u = t
        <4>1. row'[u] = FirstRow(base)
          BY <2>1, <3>1 DEF InitializeTask, TypeOK
        <4>2. Len(<<"PROPOSED">>) = 1 /\ <<"PROPOSED">>[1] = "PROPOSED"
          OBVIOUS
        <4>. QED
          BY <4>1, <4>2 DEF FirstRow
      <3>2. CASE u # t
        BY <2>1, <3>2, <1>0 DEF InitializeTask, TypeOK
      <3>. QED
        BY <3>1, <3>2
    <2>2. ASSUME NEW c \in Client, NEW t \in Task, NEW to \in Status,
                 NEW base \in BaseSha \cup {None}, NEW head \in PrHead \cup {None},
                 NEW candidate \in Digest \cup {None}, NEW requiresApproval \in BOOLEAN,
                 Transition(c, t, to, base, head, candidate, requiresApproval)
          PROVE  Path(u)'
      <3> DEFINE new == RowAfter(row[t], to, base, head, candidate)
      <3>1. /\ row' = [row EXCEPT ![t] = new]
            /\ t \in created /\ created' = created
            /\ <<row[t].status, to>> \in ALLOWED_TRANSITIONS
        BY <2>2 DEF Transition
      <3>2. CASE u = t
        <4>1. row'[u] = new
          BY <3>1, <3>2 DEF TypeOK
        <4>2. /\ new.revision = row[t].revision + 1 /\ new.status = to
              /\ new.history = Append(row[t].history, to)
          BY DEF RowAfter
        <4>3. row[t].history \in Seq(Status) /\ row[t].revision \in Nat
          BY DEF TypeOK, Row
        <4>4. Path(t)
          BY <1>0, <3>1
        <4> DEFINE h == row[t].history
                   n == row[t].revision
        <4>5. /\ Len(h) = n + 1 /\ h[1] = "PROPOSED" /\ h[n + 1] = row[t].status
              /\ \A i \in 1 .. n : <<h[i], h[i + 1]>> \in ALLOWED_TRANSITIONS
          BY <4>4
        <4>6. /\ Len(Append(h, to)) = n + 2
              /\ Append(h, to)[1] = "PROPOSED" /\ Append(h, to)[n + 2] = to
              /\ \A i \in 1 .. n + 1 :
                    <<Append(h, to)[i], Append(h, to)[i + 1]>> \in ALLOWED_TRANSITIONS
          <5>1. h \in Seq(Status) /\ n \in Nat /\ <<h[n + 1], to>> \in ALLOWED_TRANSITIONS
            BY <3>1, <4>3, <4>5
          <5> HIDE DEF h, n
          <5>. QED
            BY <5>1, <4>5, PathExtends
        <4>7. /\ Len(new.history) = new.revision + 1
              /\ new.history[1] = "PROPOSED" /\ new.history[Len(new.history)] = new.status
              /\ \A i \in 1 .. new.revision :
                    <<new.history[i], new.history[i + 1]>> \in ALLOWED_TRANSITIONS
          <5>1. new.history = Append(h, to) /\ new.revision = n + 1 /\ n \in Nat
            BY <4>2, <4>3
          <5> HIDE DEF new, h, n
          <5>. QED
            BY <5>1, <4>2, <4>6
        <4> HIDE DEF new
        <4>. QED
          BY <4>1, <4>7
      <3>3. CASE u # t
        BY <3>1, <3>3, <1>0 DEF TypeOK
      <3>. QED
        BY <3>2, <3>3
    <2>3. ASSUME NEW c \in Client, NEW t \in Task, GetState(c, t)
          PROVE  Path(u)'
      BY <1>0, <2>3 DEF GetState
    <2>4. ASSUME NEW k \in Token, ConsumeToken(k)
          PROVE  Path(u)'
      BY <1>0, <2>4 DEF ConsumeToken
    <2>5. CASE UNCHANGED vars
      BY <1>0, <2>5 DEF vars
    <2> HIDE DEF Path
    <2>. QED
      BY <2>1, <2>2, <2>3, <2>4, <2>5 DEF Next
  <1>. QED
    BY <1>1, <1>2, TypeCorrect, PTL DEF Spec

\* A task that ever ran has left attempt 0.
THEOREM RanTasksHaveAttempts == Spec => []RanHasAttempt
  <1>1. Init => RanHasAttempt
    BY DEF Init, RanHasAttempt, FirstRow
  <1>2. TypeOK /\ RanHasAttempt /\ [Next]_vars => RanHasAttempt'
    <2> DEFINE Ran(u) == /\ u \notin created => row[u].attempt = 0
                         /\ u \in created /\ row[u].status \in RanStatus => row[u].attempt >= 1
    <2> SUFFICES ASSUME TypeOK, RanHasAttempt, [Next]_vars, NEW u \in Task
                 PROVE  Ran(u)'
      BY DEF RanHasAttempt
    <2>1. ASSUME NEW c \in Client, NEW t \in Task, NEW base \in BaseSha \cup {None},
                 InitializeTask(c, t, base)
          PROVE  Ran(u)'
      BY <2>1 DEF InitializeTask, FirstRow, RanHasAttempt, RanStatus, TypeOK
    <2>2. ASSUME NEW c \in Client, NEW t \in Task, NEW to \in Status,
                 NEW base \in BaseSha \cup {None}, NEW head \in PrHead \cup {None},
                 NEW candidate \in Digest \cup {None}, NEW requiresApproval \in BOOLEAN,
                 Transition(c, t, to, base, head, candidate, requiresApproval)
          PROVE  Ran(u)'
      <3> DEFINE new == RowAfter(row[t], to, base, head, candidate)
      <3>1. /\ row' = [row EXCEPT ![t] = new]
            /\ t \in created /\ created' = created
            /\ <<row[t].status, to>> \in ALLOWED_TRANSITIONS
        BY <2>2 DEF Transition
      <3>2. new.status = to /\ new.attempt = AttemptAfter(row[t], to)
        BY DEF RowAfter
      <3>3. row[t].attempt \in Nat
        BY RetryAssumption DEF TypeOK, Row
      <3>4. to \in RanStatus => row[t].status \in RanStatus \/ (row[t].status = "READY" /\ to = "RUNNING")
        BY <3>1 DEF ALLOWED_TRANSITIONS, RanStatus
      <3>5. to \in RanStatus => AttemptAfter(row[t], to) >= 1
        BY <3>1, <3>3, <3>4 DEF AttemptAfter, RanHasAttempt
      <3> HIDE DEF new
      <3>. QED
        BY <3>1, <3>2, <3>5 DEF RanHasAttempt, TypeOK
    <2>3. ASSUME NEW c \in Client, NEW t \in Task, GetState(c, t)
          PROVE  Ran(u)'
      BY <2>3 DEF GetState, RanHasAttempt
    <2>4. ASSUME NEW k \in Token, ConsumeToken(k)
          PROVE  Ran(u)'
      BY <2>4 DEF ConsumeToken, RanHasAttempt
    <2>5. CASE UNCHANGED vars
      BY <2>5 DEF vars, RanHasAttempt
    <2> HIDE DEF Ran
    <2>. QED
      BY <2>1, <2>2, <2>3, <2>4, <2>5 DEF Next
  <1>. QED
    BY <1>1, <1>2, TypeCorrect, PTL DEF Spec

-----------------------------------------------------------------------------
(* The retry budget. *)

\* Appending a status adds at most one retry step and one run.
LEMMA AppendCounts ==
    ASSUME NEW h \in Seq(Status), NEW to \in Status, Len(h) >= 1
    PROVE  /\ Cardinality(RetrySteps(Append(h, to)))
                = Cardinality(RetrySteps(h)) + (IF IsRetry(h[Len(h)], to) THEN 1 ELSE 0)
           /\ Cardinality(RetrySteps(h)) \in Nat
           /\ EverRan(Append(h, to)) <=> EverRan(h) \/ to = "RUNNING"
  <1> DEFINE g == Append(h, to)
             n == Len(h)
  <1>1. n \in Nat /\ n >= 1 /\ Len(g) = n + 1 /\ g[n + 1] = to /\ \A i \in 1 .. n : g[i] = h[i]
    OBVIOUS
  <1>2. IsFiniteSet(RetrySteps(h)) /\ n \notin RetrySteps(h)
    <2>1. RetrySteps(h) \subseteq 1 .. n - 1
      BY DEF RetrySteps
    <2>2. IsFiniteSet(1 .. n - 1)
      <3>1. 1 \in Int /\ n - 1 \in Int
        BY <1>1
      <3> HIDE DEF n
      <3>. QED
        BY <3>1, FS_Interval
    <2>. QED
      BY <1>1, <2>1, <2>2, FS_Subset
  <1>3. \A i \in Nat : i \in RetrySteps(g) <=>
            i \in RetrySteps(h) \/ (i = n /\ IsRetry(h[n], to))
    <2> HIDE DEF g
    <2>1. \A i \in 1 .. n - 1 : g[i] = h[i] /\ g[i + 1] = h[i + 1]
      BY <1>1
    <2>2. g[n] = h[n] /\ g[n + 1] = to
      BY <1>1
    <2>. QED
      BY <1>1, <2>1, <2>2 DEF RetrySteps, IsRetry
  <1>4. RetrySteps(g) = IF IsRetry(h[n], to) THEN RetrySteps(h) \cup {n} ELSE RetrySteps(h)
    <2>1. RetrySteps(g) \subseteq Nat /\ RetrySteps(h) \subseteq Nat
      BY DEF RetrySteps
    <2>. QED
      BY <1>1, <1>3, <2>1
  <1>5. Cardinality(RetrySteps(h) \cup {n}) = Cardinality(RetrySteps(h)) + 1
    BY <1>2, FS_AddElement
  <1>6. Cardinality(RetrySteps(h)) \in Nat
    BY <1>2, FS_CardinalityType
  <1>7. EverRan(g) <=> EverRan(h) \/ to = "RUNNING"
    <2> HIDE DEF g
    <2>. QED
      BY <1>1 DEF EverRan
  <1> HIDE DEF g
  <1>. QED
    BY <1>4, <1>5, <1>6, <1>7 DEF g

\* The persisted attempt number counts exactly the retries after a failure, plus the first run.
THEOREM AttemptIsRetryCount == Spec => []AttemptCountsRetries
  <1> DEFINE Counted(t) ==
        LET h == row[t].history IN
        /\ row[t].attempt = Cardinality(RetrySteps(h)) + (IF EverRan(h) THEN 1 ELSE 0)
        /\ EverRan(h) <=> row[t].attempt >= 1
      CountInv == \A t \in created : Counted(t)
  <1>1. Init => CountInv
    BY DEF Init
  <1>2. TypeOK /\ HistoryIsLegalPath /\ RanHasAttempt /\ CountInv /\ [Next]_vars => CountInv'
    <2> SUFFICES ASSUME TypeOK, HistoryIsLegalPath, RanHasAttempt, CountInv, [Next]_vars,
                        NEW u \in created'
                 PROVE  Counted(u)'
      OBVIOUS
    <2>1. ASSUME NEW c \in Client, NEW t \in Task, NEW base \in BaseSha \cup {None},
                 InitializeTask(c, t, base)
          PROVE  Counted(u)'
      <3>1. CASE u = t
        <4> DEFINE one == <<"PROPOSED">>
        <4>1. row'[u].history = one /\ row'[u].attempt = 0
          BY <2>1, <3>1 DEF InitializeTask, TypeOK, FirstRow
        <4>2. RetrySteps(one) = {} /\ ~EverRan(one)
          BY DEF RetrySteps, EverRan
        <4>3. Cardinality(RetrySteps(one)) = 0
          BY <4>2, FS_EmptySet
        <4> HIDE DEF one
        <4>. QED
          BY <4>1, <4>2, <4>3
      <3>2. CASE u # t
        BY <2>1, <3>2 DEF InitializeTask, TypeOK
      <3>. QED
        BY <3>1, <3>2
    <2>2. ASSUME NEW c \in Client, NEW t \in Task, NEW to \in Status,
                 NEW base \in BaseSha \cup {None}, NEW head \in PrHead \cup {None},
                 NEW candidate \in Digest \cup {None}, NEW requiresApproval \in BOOLEAN,
                 Transition(c, t, to, base, head, candidate, requiresApproval)
          PROVE  Counted(u)'
      <3> DEFINE new == RowAfter(row[t], to, base, head, candidate)
                 h == row[t].history
      <3>1. /\ row' = [row EXCEPT ![t] = new]
            /\ t \in created /\ created' = created
            /\ <<row[t].status, to>> \in ALLOWED_TRANSITIONS
        BY <2>2 DEF Transition
      <3>2. CASE u = t
        <4>1. row'[u] = new
          BY <3>1, <3>2 DEF TypeOK
        <4>2. new.attempt = AttemptAfter(row[t], to) /\ new.history = Append(h, to)
          BY DEF RowAfter
        <4>3. h \in Seq(Status) /\ Len(h) >= 1 /\ h[Len(h)] = row[t].status
          BY <3>1 DEF TypeOK, Row, HistoryIsLegalPath
        <4>4. Counted(t) /\ row[t].attempt \in Nat
          BY <3>1, RetryAssumption DEF TypeOK, Row
        <4>5. /\ Cardinality(RetrySteps(Append(h, to)))
                   = Cardinality(RetrySteps(h)) + (IF IsRetry(row[t].status, to) THEN 1 ELSE 0)
              /\ Cardinality(RetrySteps(h)) \in Nat
              /\ EverRan(Append(h, to)) <=> EverRan(h) \/ to = "RUNNING"
          <5> HIDE DEF h
          <5>. QED
            BY <4>3, AppendCounts
        <4>6. /\ to = "RUNNING" => row[t].status = "READY"
              /\ row[t].status = "FAILED" => row[t].attempt >= 1
          BY <3>1 DEF ALLOWED_TRANSITIONS, RanHasAttempt, RanStatus
        <4>7. /\ AttemptAfter(row[t], to) = Cardinality(RetrySteps(Append(h, to)))
                      + (IF EverRan(Append(h, to)) THEN 1 ELSE 0)
              /\ EverRan(Append(h, to)) <=> AttemptAfter(row[t], to) >= 1
          BY <4>4, <4>5, <4>6 DEF AttemptAfter, IsRetry
        <4> HIDE DEF new, h
        <4>8. row'[u].attempt = AttemptAfter(row[t], to) /\ row'[u].history = Append(h, to)
          BY <4>1, <4>2
        <4>. QED
          BY <4>7, <4>8
      <3>3. CASE u # t
        BY <3>1, <3>3 DEF TypeOK
      <3>. QED
        BY <3>2, <3>3
    <2>3. ASSUME NEW c \in Client, NEW t \in Task, GetState(c, t)
          PROVE  Counted(u)'
      BY <2>3 DEF GetState
    <2>4. ASSUME NEW k \in Token, ConsumeToken(k)
          PROVE  Counted(u)'
      BY <2>4 DEF ConsumeToken
    <2>5. CASE UNCHANGED vars
      BY <2>5 DEF vars
    <2> HIDE DEF Counted
    <2>. QED
      BY <2>1, <2>2, <2>3, <2>4, <2>5 DEF Next
  <1>3. CountInv => AttemptCountsRetries
    BY DEF AttemptCountsRetries
  <1> HIDE DEF CountInv
  <1>. QED
    BY <1>1, <1>2, <1>3, TypeCorrect, HistoryIsPath, RanTasksHaveAttempts, PTL DEF Spec

\* The ledger implements the task lifecycle: every committed call is one lifecycle step, and
\* everything else stutters.
THEOREM LedgerImplementsLifecycle == Spec => ImplementsLifecycle
  <1> DEFINE Phase == [t \in Task |-> IF t \in created THEN row[t].status ELSE "NONE"]
             Retries == [t \in Task |-> IF row[t].attempt = 0 THEN 0 ELSE row[t].attempt - 1]
  <1>0. Lifecycle!ALLOWED_TRANSITIONS = ALLOWED_TRANSITIONS /\ Lifecycle!Status = Status
    BY DEF Lifecycle!ALLOWED_TRANSITIONS, ALLOWED_TRANSITIONS, Lifecycle!Status, Status
  <1>1. Init => Lifecycle!Init
    BY DEF Init, Lifecycle!Init, FirstRow
  <1>2. TypeOK /\ RanHasAttempt /\ [Next]_vars => [Lifecycle!Next]_(Lifecycle!lifecycle)
    <2> SUFFICES ASSUME TypeOK, RanHasAttempt, [Next]_vars
                 PROVE  Lifecycle!Next \/ UNCHANGED <<Phase, Retries>>
      BY DEF Lifecycle!lifecycle
    <2>1. ASSUME NEW c \in Client, NEW t \in Task, NEW base \in BaseSha \cup {None},
                 InitializeTask(c, t, base)
          PROVE  Lifecycle!Create(t)
      <3>1. /\ t \notin created /\ created' = created \cup {t}
            /\ row' = [row EXCEPT ![t] = FirstRow(base)]
        BY <2>1 DEF InitializeTask
      <3>2. Phase[t] = "NONE" /\ Phase' = [Phase EXCEPT ![t] = "PROPOSED"]
        BY <3>1 DEF TypeOK, FirstRow
      <3>3. Retries' = Retries
        BY <3>1 DEF TypeOK, FirstRow, RanHasAttempt
      <3>. QED
        BY <3>2, <3>3 DEF Lifecycle!Create
    <2>2. ASSUME NEW c \in Client, NEW t \in Task, NEW to \in Status,
                 NEW base \in BaseSha \cup {None}, NEW head \in PrHead \cup {None},
                 NEW candidate \in Digest \cup {None}, NEW requiresApproval \in BOOLEAN,
                 Transition(c, t, to, base, head, candidate, requiresApproval)
          PROVE  Lifecycle!Retry(t) \/ Lifecycle!Advance(t, to)
      <3> DEFINE new == RowAfter(row[t], to, base, head, candidate)
      <3>1. /\ row' = [row EXCEPT ![t] = new]
            /\ t \in created /\ created' = created
            /\ <<row[t].status, to>> \in ALLOWED_TRANSITIONS
            /\ WithinRetryBudget(row[t], to)
        BY <2>2 DEF Transition
      <3>2. new.status = to /\ new.attempt = AttemptAfter(row[t], to)
        BY DEF RowAfter
      <3> HIDE DEF new
      <3>3. Phase' = [Phase EXCEPT ![t] = to] /\ Phase[t] = row[t].status
        BY <3>1, <3>2 DEF TypeOK
      <3>4. \A u \in Task : row[u].attempt \in Nat
        BY RetryAssumption DEF TypeOK, Row
      <3>5. CASE IsRetry(row[t].status, to)
        <4>1. row[t].status = "FAILED" /\ to = "READY"
          BY <3>5 DEF IsRetry
        <4>2. row[t].attempt >= 1 /\ row[t].attempt < MAX_RETRY_ATTEMPTS
          BY <3>1, <3>4, <3>5, <4>1 DEF WithinRetryBudget, RanHasAttempt, RanStatus
        <4>3. new.attempt = row[t].attempt + 1
          BY <3>2, <3>5 DEF AttemptAfter
        <4>4. Retries[t] = row[t].attempt - 1 /\ Retries[t] < MAX_RETRY_ATTEMPTS - 1
          BY <3>4, <4>2, RetryAssumption
        <4>5. \A u \in Task : row'[u].attempt = IF u = t THEN row[t].attempt + 1 ELSE row[u].attempt
          BY <3>1, <4>3 DEF TypeOK
        <4>6. Retries' = [Retries EXCEPT ![t] = Retries[t] + 1]
          <5>1. Retries' = [u \in Task |-> IF row'[u].attempt = 0 THEN 0 ELSE row'[u].attempt - 1]
            OBVIOUS
          <5>2. ASSUME NEW u \in Task
                PROVE  (IF row'[u].attempt = 0 THEN 0 ELSE row'[u].attempt - 1)
                          = IF u = t THEN Retries[t] + 1 ELSE Retries[u]
            BY <3>4, <4>2, <4>4, <4>5
          <5>3. Retries = [u \in Task |-> Retries[u]]
            OBVIOUS
          <5> HIDE DEF Retries
          <5>. QED
            BY <5>1, <5>2, <5>3
        <4>. QED
          BY <3>3, <4>1, <4>4, <4>6 DEF Lifecycle!Retry
      <3>6. CASE ~IsRetry(row[t].status, to)
        <4>1. new.attempt = row[t].attempt \/ (row[t].attempt = 0 /\ new.attempt = 1)
          BY <3>2, <3>6 DEF AttemptAfter
        <4>2. Retries' = Retries
          BY <3>1, <3>4, <4>1 DEF TypeOK
        <4>3. <<Phase[t], to>> \in ALLOWED_TRANSITIONS /\ ~IsRetry(Phase[t], to)
          BY <3>1, <3>3, <3>6
        <4>. QED
          BY <1>0, <3>3, <4>2, <4>3 DEF Lifecycle!Advance, Lifecycle!IsRetry, IsRetry
      <3>. QED
        BY <3>5, <3>6
    <2>3. ASSUME NEW c \in Client, NEW t \in Task, GetState(c, t)
          PROVE  UNCHANGED <<Phase, Retries>>
      BY <2>3 DEF GetState
    <2>4. ASSUME NEW k \in Token, ConsumeToken(k)
          PROVE  UNCHANGED <<Phase, Retries>>
      BY <2>4 DEF ConsumeToken
    <2>5. CASE UNCHANGED vars
      BY <2>5 DEF vars
    <2>6. ASSUME NEW t \in Task, Lifecycle!Create(t)
          PROVE  Lifecycle!Next
      BY <2>6 DEF Lifecycle!Next
    <2>7. ASSUME NEW t \in Task, NEW to \in Status, Lifecycle!Retry(t) \/ Lifecycle!Advance(t, to)
          PROVE  Lifecycle!Next
      BY <1>0, <2>7 DEF Lifecycle!Next
    <2> HIDE DEF Phase, Retries
    <2>8. CASE \E c \in Client, t \in Task, base \in BaseSha \cup {None} : InitializeTask(c, t, base)
      BY <2>1, <2>6, <2>8
    <2>9. CASE \E c \in Client, t \in Task :
                  \E to \in {s \in Status : <<row[t].status, s>> \in ALLOWED_TRANSITIONS},
                     base \in BaseSha \cup {None}, head \in PrHead \cup {None},
                     candidate \in Digest \cup {None}, requiresApproval \in BOOLEAN :
                  Transition(c, t, to, base, head, candidate, requiresApproval)
      BY <2>2, <2>7, <2>9
    <2>. QED
      BY <2>3, <2>4, <2>5, <2>8, <2>9 DEF Next
  <1>. QED
    BY <1>1, <1>2, TypeCorrect, RanTasksHaveAttempts, PTL DEF Spec, ImplementsLifecycle, Lifecycle!Spec
=============================================================================

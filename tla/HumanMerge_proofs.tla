-------------------------- MODULE HumanMerge_proofs --------------------------
(***************************************************************************)
(* Proofs about HumanMerge, for any number of tokens, commits, keys and    *)
(* pull requests. Both properties rest on one fact about the table of      *)
(* approvals: what has been consumed or revoked stays so, and no row is    *)
(* written a second time (MarksStay).                                      *)
(***************************************************************************)
EXTENDS HumanMerge, TLAPS

-----------------------------------------------------------------------------
(* Types *)

LEMMA TypeInit == GateInit => GateTypeOK
  BY DEF GateInit, GateTypeOK, NoToken, NoFile, PullView, Question

LEMMA TypeNext == GateTypeOK /\ [GateNext]_gateVars => GateTypeOK'
<1> SUFFICES ASSUME GateTypeOK, [GateNext]_gateVars PROVE GateTypeOK'
  OBVIOUS
<1> USE DEF GateTypeOK, Question
<1>1. ASSUME NEW k \in Keys, Register(k) PROVE GateTypeOK'
  BY <1>1 DEF Register
<1>2. CASE RevokeApprover
  BY <1>2 DEF RevokeApprover
<1>3. ASSUME NEW t \in Tokens, NEW s \in Commits, NEW k \in Keys, IssueAuthenticatedToken(t, s, k)
      PROVE GateTypeOK'
  BY <1>3 DEF IssueAuthenticatedToken, Mirrored, Token
<1>4. ASSUME NEW t \in Tokens, NEW s \in Commits, VerifyAndConsumeToken(t, s) PROVE GateTypeOK'
  <2>1. token[t] \in Token
    BY <1>4 DEF VerifyAndConsumeToken, Known, Exists
  <2>2. [token[t] EXCEPT !.consumed = TRUE] \in Token
    BY <2>1 DEF Token
  <2> QED
    BY <1>4, <2>2 DEF VerifyAndConsumeToken, Mirrored
<1>5. ASSUME NEW t \in Tokens, RevokeToken(t) PROVE GateTypeOK'
  <2>1. token[t] \in Token
    BY <1>5 DEF RevokeToken, Known, Exists
  <2>2. [token[t] EXCEPT !.revoked = TRUE] \in Token
    BY <2>1 DEF Token
  <2> QED
    BY <1>5, <2>2 DEF RevokeToken, Mirrored
<1>6. ASSUME NEW t \in Tokens, NEW how \in {"issued", "consumed", "revoked"}, WriteMirror(t, how)
      PROVE GateTypeOK'
  <2>1. ASSUME copy[t] # NoFile
        PROVE  {[copy[t] EXCEPT !.consumed = TRUE], [copy[t] EXCEPT !.revoked = TRUE]} \subseteq Flags
    BY <2>1 DEF Flags
  <2>2. [consumed |-> FALSE, revoked |-> FALSE] \in Flags
    BY DEF Flags
  <2>3. copy'[t] \in Flags \cup {NoFile} /\ \A u \in Tokens \ {t} : copy'[u] = copy[u]
    BY <1>6, <2>1, <2>2 DEF WriteMirror
  <2>4. copy' \in [Tokens -> Flags \cup {NoFile}]
    BY <1>6, <2>3 DEF WriteMirror
  <2> QED
    BY <1>6, <2>4 DEF WriteMirror
<1>7. ASSUME NEW t \in Tokens, NEW how \in {"issued", "consumed", "revoked"}, LoseMirror(t, how)
      PROVE GateTypeOK'
  BY <1>7 DEF LoseMirror
<1>8. ASSUME NEW n \in Pulls, NEW s \in Commits, PushToPull(n, s) PROVE GateTypeOK'
  BY <1>8 DEF PushToPull, PullView
<1>9. ASSUME NEW n \in Pulls, NEW state \in {"MERGED", "CLOSED"}, NEW who \in {"nobody", "human", "bot"},
             EndPull(n, state, who)
      PROVE GateTypeOK'
  <2>1. [pull[n] EXCEPT !.state = state, !.by = who] \in PullView
    BY DEF PullView
  <2>2. pull' \in [Pulls -> PullView]
    BY <1>9, <2>1 DEF EndPull
  <2> QED
    BY <1>9, <2>2 DEF EndPull
<1>10. ASSUME NEW n \in Pulls, NEW s \in Commits, NEW t \in Tokens, CheckApproval(n, s, t) PROVE GateTypeOK'
  BY <1>10 DEF CheckApproval
<1>11. CASE ViewPull
  BY <1>11 DEF ViewPull
<1>12. CASE UNCHANGED gateVars
  BY <1>12 DEF gateVars
<1> QED
  BY <1>1, <1>2, <1>3, <1>4, <1>5, <1>6, <1>7, <1>8, <1>9, <1>10, <1>11, <1>12
  DEF GateNext, TokenNext, PullNext

\* The variables hold what their comments say, in every behaviour of the approvals table, its
\* copies and the pull requests.
THEOREM TypeCorrect == GateSpec => []GateTypeOK
  BY TypeInit, TypeNext, PTL DEF GateSpec

-----------------------------------------------------------------------------
(* What is consumed or revoked stays so *)

LEMMA MarksStay ==
    ASSUME GateTypeOK, [GateNext]_gateVars, NEW t \in Tokens, Exists(t)
    PROVE  /\ Exists(t)'
           /\ token'[t].head = token[t].head
           /\ token[t].consumed => token'[t].consumed /\ token'[t].revoked = token[t].revoked
           /\ token[t].revoked => token'[t].revoked
<1>0. token[t] \in Token
  BY DEF GateTypeOK, Exists
<1>1. ASSUME NEW u \in Tokens, NEW s \in Commits, NEW k \in Keys, IssueAuthenticatedToken(u, s, k)
      PROVE token'[t] = token[t]
  BY <1>1 DEF IssueAuthenticatedToken, GateTypeOK
<1>2. ASSUME NEW u \in Tokens, NEW s \in Commits, VerifyAndConsumeToken(u, s)
      PROVE \/ token'[t] = token[t]
            \/ ~token[t].consumed /\ token'[t] = [token[t] EXCEPT !.consumed = TRUE]
  BY <1>2 DEF VerifyAndConsumeToken, GateTypeOK
<1>3. ASSUME NEW u \in Tokens, RevokeToken(u)
      PROVE \/ token'[t] = token[t]
            \/ ~token[t].consumed /\ token'[t] = [token[t] EXCEPT !.revoked = TRUE]
  BY <1>3 DEF RevokeToken, GateTypeOK
<1>4. \/ UNCHANGED token
      \/ \E u \in Tokens, s \in Commits, k \in Keys : IssueAuthenticatedToken(u, s, k)
      \/ \E u \in Tokens, s \in Commits : VerifyAndConsumeToken(u, s)
      \/ \E u \in Tokens : RevokeToken(u)
  BY DEF GateNext, TokenNext, PullNext, Register, RevokeApprover, WriteMirror, LoseMirror, ViewPull,
         CheckApproval, PushToPull, EndPull, gateVars
<1>5. \/ token'[t] = token[t]
      \/ ~token[t].consumed /\ token'[t] = [token[t] EXCEPT !.consumed = TRUE]
      \/ ~token[t].consumed /\ token'[t] = [token[t] EXCEPT !.revoked = TRUE]
  BY <1>1, <1>2, <1>3, <1>4
<1>6. token'[t] \in Token
  BY <1>0, <1>5 DEF Token
<1>7. token'[t] # NoToken
  <2>1. "head" \in DOMAIN token'[t] /\ "head" \notin DOMAIN NoToken
    BY <1>6 DEF Token, NoToken
  <2> QED
    BY <2>1
<1> QED
  BY <1>0, <1>5, <1>7 DEF Exists, Token



-----------------------------------------------------------------------------
(* The merge gate *)

\* A call that has passed the check of its token, or has returned, holds a consumed approval
\* of the head it was asked about.
Approved(c) ==
    LET t == c[3] IN
    Exists(t) /\ token[t].head = c[2] /\ token[t].consumed /\ ~token[t].revoked

GateInv ==
    /\ \A c \in checking \cup verified : Approved(c)
    /\ \A c \in verified : MergedByHuman(c[1], c[2])

LEMMA ApprovedStays ==
    ASSUME GateTypeOK, [GateNext]_gateVars, NEW c \in Question, Approved(c) PROVE Approved(c)'
  BY MarksStay DEF Approved, Question

LEMMA MergeStays ==
    ASSUME GateTypeOK, [GateNext]_gateVars, NEW n \in Pulls, NEW s \in Commits, MergedByHuman(n, s)
    PROVE  MergedByHuman(n, s)'
<1>1. \/ UNCHANGED pull
      \/ \E m \in Pulls : \/ \E r \in Commits : PushToPull(m, r)
                          \/ \E who \in {"human", "bot"} : EndPull(m, "MERGED", who)
                          \/ EndPull(m, "CLOSED", "nobody")
  BY DEF GateNext, TokenNext, PullNext, Register, RevokeApprover, IssueAuthenticatedToken, RevokeToken,
         VerifyAndConsumeToken, WriteMirror, LoseMirror, ViewPull, CheckApproval, gateVars
<1>2. pull'[n] = pull[n]
  BY <1>1 DEF MergedByHuman, PushToPull, EndPull, PullIsOpen, GateTypeOK
<1> QED
  BY <1>2 DEF MergedByHuman

LEMMA GateStep == GateTypeOK /\ GateInv /\ [GateNext]_gateVars => GateInv'
<1> SUFFICES ASSUME GateTypeOK, GateInv, [GateNext]_gateVars PROVE GateInv'
  OBVIOUS
<1>1. ASSUME NEW c \in checking \cup verified PROVE Approved(c)'
  BY ApprovedStays DEF GateTypeOK, GateInv
<1>2. ASSUME NEW c \in verified PROVE MergedByHuman(c[1], c[2])'
  BY MergeStays DEF GateTypeOK, GateInv, Question
<1>3. ASSUME NEW n \in Pulls, NEW s \in Commits, NEW t \in Tokens, CheckApproval(n, s, t) PROVE GateInv'
  <2>1. Approved(<<n, s, t>>)
    BY <1>3 DEF CheckApproval, ConsumedBinding, Approved
  <2>2. Approved(<<n, s, t>>)'
    BY <2>1, ApprovedStays DEF Question
  <2> QED
    BY <1>1, <1>2, <1>3, <2>2 DEF CheckApproval, GateInv
<1>4. CASE ViewPull
  <2> PICK c \in checking : /\ checking' = {}
                            /\ verified' = IF MergedByHuman(c[1], c[2]) THEN verified \cup {c} ELSE verified
                            /\ UNCHANGED pull
    BY <1>4 DEF ViewPull
  <2>1. MergedByHuman(c[1], c[2]) => MergedByHuman(c[1], c[2])'
    BY DEF MergedByHuman
  <2> QED
    BY <1>1, <1>2, <2>1 DEF GateInv
<1>5. CASE UNCHANGED <<checking, verified>>
  BY <1>1, <1>2, <1>5 DEF GateInv
<1> QED
  BY <1>3, <1>4, <1>5 DEF GateNext, TokenNext, PullNext, Register, RevokeApprover, IssueAuthenticatedToken,
     RevokeToken, VerifyAndConsumeToken, WriteMirror, LoseMirror, PushToPull, EndPull, gateVars

\* verify_human_merge reports a merge only at the head of a consumed approval, merged by a
\* person, whatever pushes, bots, revocations and key rotations happen in between.
THEOREM GateIsSound == GateSpec => []VerifiedMergeIsApproved
<1>1. GateInit => GateInv
  BY DEF GateInit, GateInv
<1>2. GateInv => VerifiedMergeIsApproved
  BY DEF GateInv, VerifiedMergeIsApproved, Approved, MergedByHuman
<1> QED
  BY <1>1, <1>2, GateStep, TypeCorrect, PTL DEF GateSpec

-----------------------------------------------------------------------------
(* The JSON copies *)

\* A write that is on its way to the copy has been committed in the table.
Committed(t, how) ==
    /\ Exists(t)
    /\ how = "consumed" => token[t].consumed
    /\ how = "revoked" => token[t].revoked

CopyInv ==
    /\ CopyClaimsNoMore
    /\ \A m \in mirror : Committed(m[1], m[2])

LEMMA CommittedStays ==
    ASSUME GateTypeOK, [GateNext]_gateVars, NEW t \in Tokens, NEW how, Committed(t, how) PROVE Committed(t, how)'
  BY MarksStay DEF Committed

LEMMA CopyStep == GateTypeOK /\ CopyInv /\ [GateNext]_gateVars => CopyInv'
<1> SUFFICES ASSUME GateTypeOK, CopyInv, [GateNext]_gateVars PROVE CopyInv'
  OBVIOUS
<1>1. ASSUME NEW m \in mirror PROVE Committed(m[1], m[2])'
  BY CommittedStays DEF GateTypeOK, CopyInv
<1>2. ASSUME NEW t \in Tokens, copy[t] # NoFile
      PROVE  Exists(t)' /\ (copy[t].consumed => token'[t].consumed) /\ (copy[t].revoked => token'[t].revoked)
  BY <1>2, MarksStay DEF CopyInv, CopyClaimsNoMore
<1>3. UNCHANGED copy => CopyClaimsNoMore'
  BY <1>2 DEF CopyClaimsNoMore
<1>4. ASSUME NEW t \in Tokens, NEW how, mirror' = mirror \cup {<<t, how>>}, Committed(t, how)', UNCHANGED copy
      PROVE  CopyInv'
  BY <1>1, <1>3, <1>4 DEF CopyInv
<1>5. ASSUME NEW t \in Tokens, NEW s \in Commits, NEW k \in Keys, IssueAuthenticatedToken(t, s, k) PROVE CopyInv'
  <2>1. token'[t].consumed = FALSE /\ "head" \in DOMAIN token'[t] /\ "head" \notin DOMAIN NoToken
    BY <1>5 DEF IssueAuthenticatedToken, GateTypeOK, NoToken
  <2>2. Committed(t, "issued")'
    BY <2>1 DEF Committed, Exists
  <2> QED
    BY <1>4, <1>5, <2>2 DEF IssueAuthenticatedToken, Mirrored
<1>6. ASSUME NEW t \in Tokens, NEW s \in Commits, VerifyAndConsumeToken(t, s) PROVE CopyInv'
  <2>1. Exists(t)'
    BY <1>6, MarksStay DEF VerifyAndConsumeToken, Known
  <2>2. token[t] \in Token
    BY <1>6 DEF VerifyAndConsumeToken, Known, Exists, GateTypeOK
  <2>3. token'[t].consumed
    BY <1>6, <2>2 DEF VerifyAndConsumeToken, GateTypeOK, Token
  <2> QED
    BY <1>4, <1>6, <2>1, <2>3 DEF VerifyAndConsumeToken, Mirrored, Committed
<1>7. ASSUME NEW t \in Tokens, RevokeToken(t) PROVE CopyInv'
  <2>1. Exists(t)'
    BY <1>7, MarksStay DEF RevokeToken, Known
  <2>2. token[t] \in Token
    BY <1>7 DEF RevokeToken, Known, Exists, GateTypeOK
  <2>3. token'[t].revoked
    BY <1>7, <2>2 DEF RevokeToken, GateTypeOK, Token
  <2> QED
    BY <1>4, <1>7, <2>1, <2>3 DEF RevokeToken, Mirrored, Committed
<1>8. ASSUME NEW t \in Tokens, NEW how \in {"issued", "consumed", "revoked"}, WriteMirror(t, how) PROVE CopyInv'
  <2>1. Committed(t, how) /\ UNCHANGED token
    BY <1>8 DEF WriteMirror, CopyInv
  <2>2. ASSUME NEW u \in Tokens, copy'[u] # NoFile
        PROVE  Exists(u)' /\ (copy'[u].consumed => token'[u].consumed) /\ (copy'[u].revoked => token'[u].revoked)
    <3>1. CASE u # t
      <4>1. copy'[u] = copy[u]
        BY <1>8, <3>1 DEF WriteMirror, GateTypeOK
      <4> QED
        BY <1>2, <2>2, <4>1
    <3>2. CASE u = t
      <4>1. \/ copy'[t] = [consumed |-> FALSE, revoked |-> FALSE]
            \/ copy'[t] = copy[t] /\ copy[t] # NoFile
            \/ how = "consumed" /\ copy[t] # NoFile /\ copy'[t] = [copy[t] EXCEPT !.consumed = TRUE]
            \/ how = "revoked" /\ copy[t] # NoFile /\ copy'[t] = [copy[t] EXCEPT !.revoked = TRUE]
        BY <1>8, <2>2, <3>2 DEF WriteMirror, GateTypeOK
      <4>2. copy[t] # NoFile => copy[t] \in Flags
        BY DEF GateTypeOK
      <4> QED
        BY <1>2, <2>1, <3>2, <4>1, <4>2 DEF Committed, Flags, Exists
    <3> QED
      BY <3>1, <3>2
  <2>3. CopyClaimsNoMore'
    BY <2>2 DEF CopyClaimsNoMore
  <2> QED
    BY <1>1, <1>8, <2>3 DEF WriteMirror, CopyInv
<1>9. CASE mirror' \subseteq mirror /\ UNCHANGED copy
  BY <1>1, <1>3, <1>9 DEF CopyInv
<1> QED
  BY <1>5, <1>6, <1>7, <1>8, <1>9 DEF GateNext, TokenNext, PullNext, Register, RevokeApprover, LoseMirror,
     ViewPull, CheckApproval, PushToPull, EndPull, gateVars

\* The JSON copy of a token never claims a use or a revocation that the database does not hold,
\* wherever a process dies between the commit and the copy.
THEOREM CopyIsBehind == GateSpec => []CopyClaimsNoMore
<1>1. GateInit => CopyInv
  BY DEF GateInit, CopyInv, CopyClaimsNoMore
<1>2. CopyInv => CopyClaimsNoMore
  BY DEF CopyInv
<1> QED
  BY <1>1, <1>2, CopyStep, TypeCorrect, PTL DEF GateSpec
=============================================================================

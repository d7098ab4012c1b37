------------------------- MODULE Credentials_proofs -------------------------
(***************************************************************************)
(* Proofs about the parts that handle a credential: the one-time entries   *)
(* and the two brokers.                                                    *)
(*                                                                         *)
(* The entries, for any number of processes, approvals and versions of the *)
(* sources. That an approval is used once rests on the claim file alone:   *)
(* whoever may still use an approval is the one that created its claim     *)
(* (ClaimInv); approval file, pins and clock are not needed for it. They   *)
(* are for what a reported success means.                                  *)
(*                                                                         *)
(* The brokers, for any number of approvals, operations and grants, any    *)
(* clock and any time to live: no argument looks at the time. A handle's   *)
(* life is pending, active, over (HandleInv); what is withdrawn has its    *)
(* cancel event set, and the last locked part of execute reads it. A live  *)
(* grant is unused, and is for the credential the store holds (GrantInv).  *)
(***************************************************************************)
EXTENDS OwnerEntries, CredentialBrokers, TLAPS

-----------------------------------------------------------------------------
(* The one-time entries: types *)

LEMMA EntryTypeInit == EntryInit => EntryTypeOK
  BY TimeAssumption DEF EntryInit, EntryTypeOK

\* A process that is in a call knows its entry, approval and mark.
LEMMA CallTypes ==
    ASSUME EntryTypeOK, NEW p \in Procs, InCall(p)
    PROVE  /\ proc[p] \in Running
           /\ kind(p) \in Kinds /\ data(p) \in Kept /\ mark(p) \in Kinds \X ApprovalIds
<1>1. proc[p] \in Running
  BY DEF EntryTypeOK, Idle, Done, InCall, Places
<1> QED
  BY <1>1 DEF Running, Kept, kind, data, mark

\* Where a call goes next, its entry and its approval stay.
LEMMA ProceedTypes ==
    ASSUME EntryTypeOK, NEW p \in Procs, InCall(p), NEW place \in Places, Proceed(p, place)
    PROVE  /\ proc' \in [Procs -> {Idle, Done} \cup Running]
           /\ proc'[p].at = place /\ proc'[p].kind = kind(p) /\ proc'[p].data = data(p)
           /\ \A q \in Procs \ {p} : proc'[q] = proc[q]
<1>1. proc[p] \in Running
  BY CallTypes
<1>2. [proc[p] EXCEPT !.at = place] \in Running
  BY <1>1 DEF Running
<1> QED
  BY <1>1, <1>2 DEF Proceed, EntryTypeOK, Running, kind, data

LEMMA ReadingTypes ==
    ASSUME EntryTypeOK, NEW p \in Procs, InCall(p), StartReading(p)
    PROVE  /\ proc' \in [Procs -> {Idle, Done} \cup Running]
           /\ proc'[p].at = "reading" /\ proc'[p].kind = kind(p) /\ proc'[p].data = data(p)
           /\ \A q \in Procs \ {p} : proc'[q] = proc[q]
<1>1. proc[p] \in Running
  BY CallTypes
<1>2. [proc[p] EXCEPT !.at = "reading", !.started = clock] \in Running
  BY <1>1 DEF Running, Places, EntryTypeOK
<1> QED
  BY <1>1, <1>2 DEF StartReading, EntryTypeOK, Running, kind, data

LEMMA ScopeTypes ==
    ASSUME EntryTypeOK, NEW p \in Procs, InCall(p), EnterScope(p)
    PROVE  /\ proc' \in [Procs -> {Idle, Done} \cup Running]
           /\ proc'[p].at = "claimed" /\ proc'[p].kind = kind(p) /\ proc'[p].data.id = data(p).id
           /\ \A q \in Procs \ {p} : proc'[q] = proc[q]
<1> DEFINE scope == ScopeOf(kind(p), data(p))
           entered == [proc[p] EXCEPT !.at = "claimed", !.data = scope]
<1>1. proc[p] \in Running /\ data(p) \in Kept
  BY CallTypes
<1>2. scope \in Kept /\ scope.id = data(p).id
  BY <1>1 DEF ScopeOf, Kept, Unchecked
<1>3. entered \in Running /\ entered.kind = kind(p) /\ entered.data = scope /\ entered.at = "claimed"
  BY <1>1, <1>2 DEF Running, Places, kind
<1>4. proc' = [proc EXCEPT ![p] = entered]
  BY DEF EnterScope, data
<1> QED
  BY <1>2, <1>3, <1>4 DEF EntryTypeOK

LEMMA EntryTypeStep == ASSUME EntryTypeOK, [EntryNext]_entryVars PROVE EntryTypeOK'
<1> USE DEF owner, InCall
<1>1. ASSUME NEW p \in Procs, NEW k \in Kinds, Start(p, k) PROVE EntryTypeOK'
  <2>1. file[k] \in Approval
    BY <1>1 DEF Start, Loads, EntryTypeOK
  <2>2. [at |-> "loaded", kind |-> k, data |-> file[k], started |-> 0] \in Running
    BY <2>1, TimeAssumption DEF Running, Places, Approval, Pins, Kept
  <2> QED
    BY <1>1, <2>2 DEF Start, EntryTypeOK
<1>2. ASSUME NEW p \in Procs, CheckAgain(p) PROVE EntryTypeOK'
  BY <1>2, ProceedTypes DEF CheckAgain, EntryTypeOK, Places
<1>3. ASSUME NEW p \in Procs, Claim(p) PROVE EntryTypeOK'
  <2>1. kind(p) \in Kinds /\ data(p).id \in ApprovalIds
    BY <1>3, CallTypes DEF Claim, Places, Kept
  <2>2. proc' \in [Procs -> {Idle, Done} \cup Running]
    BY <1>3, ScopeTypes DEF Claim, Places
  <2> QED
    BY <1>3, <2>1, <2>2 DEF Claim, EntryTypeOK
<1>4. ASSUME NEW p \in Procs, BeginRead(p) PROVE EntryTypeOK'
  BY <1>4, ReadingTypes DEF BeginRead, EntryTypeOK, Places
<1>5. ASSUME NEW p \in Procs, BeginEnrollment(p) PROVE EntryTypeOK'
  BY <1>5, ProceedTypes DEF BeginEnrollment, EntryTypeOK, Places
<1>6. ASSUME NEW p \in Procs, AnswerPrompt(p) PROVE EntryTypeOK'
  BY <1>6, ProceedTypes DEF AnswerPrompt, EntryTypeOK, Places
<1>7. ASSUME NEW p \in Procs, WriteItem(p) PROVE EntryTypeOK'
  <2>1. proc' \in [Procs -> {Idle, Done} \cup Running] /\ mark(p) \in Kinds \X ApprovalIds
    BY <1>7, ProceedTypes, CallTypes DEF WriteItem, Places
  <2> QED
    BY <1>7, <2>1 DEF WriteItem, EntryTypeOK
<1>8. ASSUME NEW p \in Procs, BeginCheck(p) PROVE EntryTypeOK'
  BY <1>8, ReadingTypes DEF BeginCheck, EntryTypeOK, Places
<1>9. ASSUME NEW p \in Procs, ReadItem(p) PROVE EntryTypeOK'
  <2>1. proc' \in [Procs -> {Idle, Done} \cup Running] /\ mark(p) \in Kinds \X ApprovalIds
    BY <1>9, ProceedTypes, CallTypes DEF ReadItem, Places
  <2> QED
    BY <1>9, <2>1 DEF ReadItem, EntryTypeOK
<1>10. ASSUME NEW p \in Procs, Report(p), UNCHANGED <<owner, claims, item, uses>>
       PROVE  EntryTypeOK'
  BY <1>10 DEF Report, EntryTypeOK
<1>11. ASSUME NEW p \in Procs, FinishRead(p) PROVE EntryTypeOK'
  <2>1. CASE Proceed(p, "lookup")
    BY <1>11, <2>1, ProceedTypes DEF FinishRead, EntryTypeOK, Places
  <2> QED
    BY <1>10, <1>11, <2>1 DEF FinishRead
<1>12. ASSUME NEW p \in Procs, FinishLookup(p) PROVE EntryTypeOK'
  BY <1>10, <1>12 DEF FinishLookup
<1>13. ASSUME NEW p \in Procs, Stop(p) PROVE EntryTypeOK'
  BY <1>13 DEF Stop, Fail, EntryTypeOK
<1>14. ASSUME NEW k \in Kinds, NEW i \in ApprovalIds, Approve(k, i) PROVE EntryTypeOK'
  <2>1. clock + Window \in 0..(MaxClock + Window)
    BY TimeAssumption DEF EntryTypeOK
  <2>2. [id |-> i, pins |-> disk, expires |-> clock + Window] \in Approval
    BY <2>1 DEF EntryTypeOK, Approval
  <2> QED
    BY <1>14, <2>2 DEF Approve, EntryTypeOK
<1>15. ASSUME NEW k \in Kinds, Withdraw(k) PROVE EntryTypeOK'
  BY <1>15 DEF Withdraw, EntryTypeOK
<1>16. ASSUME NEW d \in Pins, EditSources(d) PROVE EntryTypeOK'
  BY <1>16 DEF EditSources, EntryTypeOK
<1>17. CASE DeleteOwner
  BY <1>17 DEF DeleteOwner, EntryTypeOK
<1>18. CASE EntryTick
  BY <1>18, TimeAssumption DEF EntryTick, EntryTypeOK
<1>19. CASE UNCHANGED entryVars
  BY <1>19 DEF entryVars, EntryTypeOK
<1> QED
  BY <1>1, <1>2, <1>3, <1>4, <1>5, <1>6, <1>7, <1>8, <1>9, <1>11, <1>12, <1>13, <1>14, <1>15, <1>16,
     <1>17, <1>18, <1>19 DEF EntryNext, CallStep

\* The variables hold what their comments say.
THEOREM EntryTypeCorrect == EntrySpec => []EntryTypeOK
<1>1. EntryInit => EntryTypeOK
  BY EntryTypeInit
<1>2. EntryTypeOK /\ [EntryNext]_entryVars => EntryTypeOK'
  BY EntryTypeStep
<1> QED
  BY <1>1, <1>2, PTL DEF EntrySpec

-----------------------------------------------------------------------------
(* The one-time entries: a reported success *)

LEMMA ReportStep == ASSUME EntryTypeOK, [EntryNext]_entryVars PROVE ReportsApproved
<1> DEFINE Approved(p) ==
              /\ clock < data(p).expires /\ data(p).pins.scope = disk.scope
              /\ kind(p) = "startup" => data(p).pins = disk /\ file["startup"] = data(p)
<1> SUFFICES ASSUME NEW q \in Procs, InCall(q), proc'[q].at = "reported" PROVE Approved(q)
  BY DEF ReportsApproved
<1> USE DEF owner
<1>1. proc[q].at # "reported" /\ proc' # proc
  BY DEF InCall, Places
<1>2. ASSUME Allowed(q) PROVE Approved(q)
  BY <1>2 DEF Allowed, StartupAllowed, ScopeAllowed, Loads
<1>3. ASSUME NEW p \in Procs, NEW place, Proceed(p, place), place # "reported" PROVE FALSE
  <2>1. proc' = [proc EXCEPT ![p] = [proc[p] EXCEPT !.at = place]]
    BY <1>3 DEF Proceed
  <2>2. p = q => proc'[q] = [proc[q] EXCEPT !.at = place]
    BY <2>1 DEF EntryTypeOK
  <2>3. p # q => proc'[q] = proc[q]
    BY <2>1 DEF EntryTypeOK
  <2>4. proc[q] \in Running
    BY CallTypes
  <2>5. [proc[q] EXCEPT !.at = place].at = place
    BY <2>4 DEF Running
  <2> QED
    BY <1>1, <1>3, <2>2, <2>3, <2>5
<1>4. ASSUME NEW p \in Procs, Report(p) PROVE p = q
  BY <1>1, <1>4 DEF Report, EntryTypeOK
<1>5. ASSUME NEW p \in Procs, StartReading(p) \/ EnterScope(p) \/ Fail(p) PROVE FALSE
  <2>1. p # q => proc'[q] = proc[q]
    BY <1>5 DEF StartReading, EnterScope, Fail, EntryTypeOK
  <2>2. Fail(q) => proc'[q].at = "idle"
    BY DEF Fail, Idle, EntryTypeOK
  <2> QED
    BY <1>1, <1>5, <2>1, <2>2, ScopeTypes, ReadingTypes
<1>6. ASSUME NEW p \in Procs, FinishRead(p) PROVE Approved(q)
  BY <1>2, <1>3, <1>4, <1>6 DEF FinishRead
<1>7. ASSUME NEW p \in Procs, FinishLookup(p) PROVE Approved(q)
  BY <1>2, <1>4, <1>7 DEF FinishLookup
<1>8. ASSUME NEW p \in Procs, NEW k \in Kinds, Start(p, k) PROVE FALSE
  BY <1>1, <1>8 DEF Start, EntryTypeOK
<1> HIDE DEF Approved
<1> QED
  BY <1>1, <1>3, <1>5, <1>6, <1>7, <1>8
     DEF EntryNext, CallStep, entryVars, CheckAgain, Claim, BeginRead, BeginEnrollment, AnswerPrompt,
         WriteItem, BeginCheck, ReadItem, Stop, Approve, Withdraw, EditSources, DeleteOwner, EntryTick

\* A success is reported only under an unexpired approval of the code that handles the key, and
\* of a startup only while the file still holds that approval and all the pinned code is as in it:
\* FinishRead and FinishLookup check again, and no other step reports.
THEOREM ReportsAreApproved == EntrySpec => SuccessIsStillApproved
<1>1. EntryTypeOK /\ [EntryNext]_entryVars => ReportsApproved
  BY ReportStep
<1>2. EntryTypeOK /\ [EntryNext]_entryVars => [ReportsApproved]_entryVars
  BY <1>1
<1>3. EntrySpec => []EntryTypeOK
  BY EntryTypeCorrect
<1> QED
  BY <1>2, <1>3, PTL DEF EntrySpec, SuccessIsStillApproved

-----------------------------------------------------------------------------
(* The one-time entries: one use *)

\* Past its claim and before the store: this call will be the one use of its approval.
MayUse(p) ==
    \/ proc[p].at \in {"claimed", "prompt", "write"}
    \/ proc[p].at = "reading" /\ kind(p) # "enroll"

ClaimInv ==
    /\ \A p \in Procs : MayUse(p) => data(p).id \in claims[kind(p)] /\ uses[mark(p)] = 0
    /\ \A p, q \in Procs : p # q /\ MayUse(p) /\ MayUse(q) => mark(p) # mark(q)
    /\ \A p \in Procs : proc[p].at \in {"prompt", "write", "registered"} => kind(p) = "enroll"
    /\ ApprovalIsUsedOnce

\* A step that claims nothing, uses nothing and gives nobody a use.
LEMMA QuietStep ==
    ASSUME ClaimInv, UNCHANGED <<claims, uses>>,
           \A q \in Procs : MayUse(q)' => MayUse(q) /\ kind(q)' = kind(q) /\ data(q)' = data(q),
           \A q \in Procs : proc'[q].at \in {"prompt", "write", "registered"} => kind(q)' = "enroll"
    PROVE  ClaimInv'
<1>1. (\A p \in Procs : MayUse(p) => data(p).id \in claims[kind(p)] /\ uses[mark(p)] = 0)'
  BY DEF ClaimInv, mark
<1>2. (\A p, q \in Procs : p # q /\ MayUse(p) /\ MayUse(q) => mark(p) # mark(q))'
  BY DEF ClaimInv, mark
<1>3. (\A p \in Procs : proc[p].at \in {"prompt", "write", "registered"} => kind(p) = "enroll")'
  BY DEF kind
<1>4. ApprovalIsUsedOnce'
  BY DEF ClaimInv, ApprovalIsUsedOnce
<1> QED
  BY <1>1, <1>2, <1>3, <1>4 DEF ClaimInv

\* A step of p that moves it on without claim or use.
LEMMA QuietMove ==
    ASSUME EntryTypeOK, ClaimInv, NEW p \in Procs, UNCHANGED <<claims, uses>>,
           \A q \in Procs \ {p} : proc'[q] = proc[q],
           MayUse(p)' => MayUse(p) /\ kind(p)' = kind(p) /\ data(p)' = data(p),
           proc'[p].at \in {"prompt", "write", "registered"} => kind(p)' = "enroll"
    PROVE  ClaimInv'
<1>1. \A q \in Procs : MayUse(q)' => MayUse(q) /\ kind(q)' = kind(q) /\ data(q)' = data(q)
  BY DEF MayUse, kind, data
<1>2. \A q \in Procs : proc'[q].at \in {"prompt", "write", "registered"} => kind(q)' = "enroll"
  BY DEF ClaimInv, kind
<1> QED
  BY <1>1, <1>2, QuietStep

\* The claim: no call has used this approval, and none may.
LEMMA ClaimStep ==
    ASSUME EntryTypeOK, ClaimInv, NEW p \in Procs, Claim(p)
    PROVE  ClaimInv'
<1> DEFINE m == mark(p)
<1>1. /\ kind(p) \in Kinds /\ data(p).id \in ApprovalIds
      /\ \A q \in Procs \ {p} : proc'[q] = proc[q]
      /\ proc'[p].at = "claimed" /\ kind(p)' = kind(p) /\ data(p)'.id = data(p).id
  BY CallTypes, ScopeTypes DEF Claim, InCall, Places, Kept, kind, data
<1>2. uses[m] = 0
  <2>1. m \in Kinds \X ApprovalIds /\ m = <<kind(p), data(p).id>>
    BY <1>1 DEF mark
  <2>2. uses[m] \in Nat
    BY <2>1 DEF EntryTypeOK
  <2>3. uses[m] <= 1 /\ uses[m] # 1
    BY <1>1, <2>1 DEF Claim, ClaimInv, ApprovalIsUsedOnce
  <2> QED
    BY <2>2, <2>3
<1>3. \A q \in Procs : MayUse(q) => mark(q) # m
  BY <1>1 DEF Claim, ClaimInv, mark
<1>4. \A k \in Kinds : claims[k] \subseteq claims'[k]
  BY DEF Claim, EntryTypeOK
<1>5. data(p).id \in claims'[kind(p)]
  BY <1>1 DEF Claim, EntryTypeOK
<1>6. \A q \in Procs \ {p} : /\ MayUse(q)' = MayUse(q) /\ mark(q)' = mark(q)
                             /\ kind(q)' = kind(q) /\ data(q)' = data(q)
  BY <1>1 DEF MayUse, mark, kind, data
<1>7. uses' = uses /\ mark(p)' = m
  BY <1>1 DEF Claim, mark
<1>8. (\A q \in Procs : MayUse(q) => data(q).id \in claims[kind(q)] /\ uses[mark(q)] = 0)'
  <2> SUFFICES ASSUME NEW q \in Procs, MayUse(q)'
               PROVE  data(q)'.id \in claims'[kind(q)'] /\ uses'[mark(q)'] = 0
    OBVIOUS
  <2>1. CASE q = p
    BY <1>1, <1>2, <1>5, <1>7, <2>1
  <2>2. CASE q # p
    <3>1. kind(q) \in Kinds
      BY <1>6, <2>2, CallTypes DEF InCall, Places, MayUse
    <3> QED
      BY <1>4, <1>6, <1>7, <2>2, <3>1 DEF ClaimInv
  <2> QED
    BY <2>1, <2>2
<1>9. (\A q, r \in Procs : q # r /\ MayUse(q) /\ MayUse(r) => mark(q) # mark(r))'
  BY <1>3, <1>6, <1>7 DEF ClaimInv
<1>10. (\A q \in Procs : proc[q].at \in {"prompt", "write", "registered"} => kind(q) = "enroll")'
  BY <1>1, <1>6 DEF ClaimInv
<1>11. ApprovalIsUsedOnce'
  BY <1>4, <1>7 DEF ClaimInv, ApprovalIsUsedOnce
<1> QED
  BY <1>8, <1>9, <1>10, <1>11 DEF ClaimInv

\* The use: it is p's to make, and afterwards p may not make another.
LEMMA UseStep ==
    ASSUME EntryTypeOK, ClaimInv, NEW p \in Procs, MayUse(p),
           proc'[p].at \in {"registered", "read"}, kind(p)' = kind(p), data(p)' = data(p),
           proc'[p].at = "registered" => kind(p) = "enroll",
           \A q \in Procs \ {p} : proc'[q] = proc[q],
           claims' = claims, uses' = [uses EXCEPT ![mark(p)] = @ + 1]
    PROVE  ClaimInv'
<1>1. kind(p) \in Kinds /\ data(p).id \in ApprovalIds
  BY CallTypes DEF InCall, Places, MayUse, Kept
<1>2. uses[mark(p)] = 0 /\ data(p).id \in claims[kind(p)]
  BY DEF ClaimInv
<1>3. ~MayUse(p)'
  BY DEF MayUse
<1>4. \A q \in Procs \ {p} : /\ MayUse(q)' = MayUse(q) /\ mark(q)' = mark(q)
                             /\ kind(q)' = kind(q) /\ data(q)' = data(q)
  BY DEF MayUse, mark, kind, data
<1>5. \A q \in Procs \ {p} : MayUse(q) => uses'[mark(q)] = 0
  <2> SUFFICES ASSUME NEW q \in Procs \ {p}, MayUse(q) PROVE uses'[mark(q)] = 0
    OBVIOUS
  <2>1. mark(q) \in Kinds \X ApprovalIds
    BY CallTypes DEF InCall, Places, MayUse
  <2>2. mark(q) # mark(p) /\ uses[mark(q)] = 0
    BY DEF ClaimInv
  <2> QED
    BY <2>1, <2>2 DEF EntryTypeOK
<1>6. (\A q \in Procs : MayUse(q) => data(q).id \in claims[kind(q)] /\ uses[mark(q)] = 0)'
  BY <1>3, <1>4, <1>5 DEF ClaimInv
<1>7. (\A q, r \in Procs : q # r /\ MayUse(q) /\ MayUse(r) => mark(q) # mark(r))'
  BY <1>3, <1>4 DEF ClaimInv
<1>8. (\A q \in Procs : proc[q].at \in {"prompt", "write", "registered"} => kind(q) = "enroll")'
  BY <1>4 DEF ClaimInv
<1>9. ApprovalIsUsedOnce'
  <2> SUFFICES ASSUME NEW k \in Kinds, NEW i \in ApprovalIds
               PROVE  uses'[<<k, i>>] <= 1 /\ (uses'[<<k, i>>] = 1 => i \in claims'[k])
    BY DEF ApprovalIsUsedOnce
  <2>1. CASE <<k, i>> = mark(p)
    BY <1>1, <1>2, <2>1 DEF EntryTypeOK, mark
  <2>2. CASE <<k, i>> # mark(p)
    BY <2>2 DEF EntryTypeOK, ClaimInv, ApprovalIsUsedOnce
  <2> QED
    BY <2>1, <2>2
<1> QED
  BY <1>6, <1>7, <1>8, <1>9 DEF ClaimInv

LEMMA UsesStep == ASSUME EntryTypeOK, ClaimInv, [EntryNext]_entryVars PROVE ClaimInv'
<1> USE DEF owner
<1>1. ASSUME NEW p \in Procs, NEW k \in Kinds, Start(p, k) PROVE ClaimInv'
  <2>1. proc'[p].at = "loaded" /\ \A q \in Procs \ {p} : proc'[q] = proc[q]
    BY <1>1 DEF Start, EntryTypeOK
  <2>2. ~MayUse(p)'
    BY <2>1 DEF MayUse
  <2> QED
    BY <1>1, <2>1, <2>2, QuietMove DEF Start
<1>2. ASSUME NEW p \in Procs, CheckAgain(p) PROVE ClaimInv'
  <2>1. proc'[p].at = "checked" /\ \A q \in Procs \ {p} : proc'[q] = proc[q]
    BY <1>2, ProceedTypes DEF InCall, CheckAgain, Places
  <2>2. ~MayUse(p)'
    BY <2>1 DEF MayUse
  <2> QED
    BY <1>2, <2>1, <2>2, QuietMove DEF CheckAgain
<1>3. ASSUME NEW p \in Procs, Claim(p) PROVE ClaimInv'
  BY <1>3, ClaimStep
<1>4. ASSUME NEW p \in Procs, BeginRead(p) PROVE ClaimInv'
  <2>1. /\ proc'[p].at = "reading" /\ kind(p)' = kind(p) /\ data(p)' = data(p)
        /\ \A q \in Procs \ {p} : proc'[q] = proc[q]
    BY <1>4, ReadingTypes DEF InCall, Places, BeginRead, kind, data
  <2>2. MayUse(p)
    BY <1>4 DEF BeginRead, MayUse
  <2> QED
    BY <1>4, <2>1, <2>2, QuietMove DEF BeginRead
<1>5. ASSUME NEW p \in Procs, BeginEnrollment(p) PROVE ClaimInv'
  <2>1. /\ proc'[p].at = "prompt" /\ kind(p)' = kind(p) /\ data(p)' = data(p)
        /\ \A q \in Procs \ {p} : proc'[q] = proc[q]
    BY <1>5, ProceedTypes DEF InCall, BeginEnrollment, Places, kind, data
  <2>2. MayUse(p) /\ kind(p) = "enroll"
    BY <1>5 DEF BeginEnrollment, MayUse
  <2> QED
    BY <1>5, <2>1, <2>2, QuietMove DEF BeginEnrollment
<1>6. ASSUME NEW p \in Procs, AnswerPrompt(p) PROVE ClaimInv'
  <2>1. /\ proc'[p].at = "write" /\ kind(p)' = kind(p) /\ data(p)' = data(p)
        /\ \A q \in Procs \ {p} : proc'[q] = proc[q]
    BY <1>6, ProceedTypes DEF InCall, AnswerPrompt, Places, kind, data
  <2>2. MayUse(p) /\ kind(p) = "enroll"
    BY <1>6 DEF AnswerPrompt, MayUse, ClaimInv
  <2> QED
    BY <1>6, <2>1, <2>2, QuietMove DEF AnswerPrompt
<1>7. ASSUME NEW p \in Procs, WriteItem(p) PROVE ClaimInv'
  <2>1. /\ proc'[p].at = "registered" /\ kind(p)' = kind(p) /\ data(p)' = data(p)
        /\ \A q \in Procs \ {p} : proc'[q] = proc[q]
    BY <1>7, ProceedTypes DEF InCall, WriteItem, Places, kind, data
  <2>2. MayUse(p) /\ kind(p) = "enroll"
    BY <1>7 DEF WriteItem, MayUse, ClaimInv
  <2> QED
    BY <1>7, <2>1, <2>2, UseStep DEF WriteItem
<1>8. ASSUME NEW p \in Procs, BeginCheck(p) PROVE ClaimInv'
  <2>1. /\ proc'[p].at = "reading" /\ kind(p)' = kind(p) /\ data(p)' = data(p)
        /\ \A q \in Procs \ {p} : proc'[q] = proc[q]
    BY <1>8, ReadingTypes DEF InCall, Places, BeginCheck, kind, data
  <2>2. kind(p) = "enroll"
    BY <1>8 DEF BeginCheck, ClaimInv
  <2>3. ~MayUse(p)'
    BY <2>1, <2>2 DEF MayUse
  <2> QED
    BY <1>8, <2>1, <2>3, QuietMove DEF BeginCheck
<1>9. ASSUME NEW p \in Procs, ReadItem(p) PROVE ClaimInv'
  <2>1. /\ proc'[p].at = "read" /\ kind(p)' = kind(p) /\ data(p)' = data(p)
        /\ \A q \in Procs \ {p} : proc'[q] = proc[q]
    BY <1>9, ProceedTypes DEF InCall, ReadItem, Places, kind, data
  <2>2. CASE kind(p) = "enroll"
    <3>1. ~MayUse(p)'
      BY <2>1 DEF MayUse
    <3> QED
      BY <1>9, <2>1, <2>2, <3>1, QuietMove DEF ReadItem
  <2>3. CASE kind(p) # "enroll"
    <3>1. MayUse(p)
      BY <1>9, <2>3 DEF ReadItem, MayUse
    <3> QED
      BY <1>9, <2>1, <2>3, <3>1, UseStep DEF ReadItem
  <2> QED
    BY <2>2, <2>3
<1>10. ASSUME NEW p \in Procs, Fail(p) \/ Report(p), UNCHANGED <<claims, uses>> PROVE ClaimInv'
  <2>1. proc'[p].at \in {"idle", "reported"} /\ \A q \in Procs \ {p} : proc'[q] = proc[q]
    BY <1>10 DEF Fail, Report, EntryTypeOK, Idle, Done
  <2>2. ~MayUse(p)'
    BY <2>1 DEF MayUse
  <2> QED
    BY <1>10, <2>1, <2>2, QuietMove
<1>11. ASSUME NEW p \in Procs, FinishRead(p) PROVE ClaimInv'
  <2>1. CASE Proceed(p, "lookup")
    <3>1. proc'[p].at = "lookup" /\ \A q \in Procs \ {p} : proc'[q] = proc[q]
      BY <1>11, <2>1, ProceedTypes DEF InCall, FinishRead, Places
    <3>2. ~MayUse(p)'
      BY <3>1 DEF MayUse
    <3> QED
      BY <1>11, <3>1, <3>2, QuietMove DEF FinishRead
  <2> QED
    BY <1>10, <1>11, <2>1 DEF FinishRead
<1>12. ASSUME NEW p \in Procs, FinishLookup(p) PROVE ClaimInv'
  BY <1>10, <1>12 DEF FinishLookup
<1>13. ASSUME NEW p \in Procs, Stop(p) PROVE ClaimInv'
  BY <1>10, <1>13 DEF Stop
<1>14. ASSUME UNCHANGED <<proc, claims, uses>> PROVE ClaimInv'
  BY <1>14, QuietStep DEF MayUse, kind, data, ClaimInv
<1> QED
  BY <1>1, <1>2, <1>3, <1>4, <1>5, <1>6, <1>7, <1>8, <1>9, <1>11, <1>12, <1>13, <1>14
  DEF EntryNext, CallStep, entryVars, Approve, Withdraw, EditSources, DeleteOwner, EntryTick

\* One approval is used at most once, and only after its claim was created: the exclusive
\* creation of the claim file leaves one call that may use it.
THEOREM ApprovalsAreSingleUse == EntrySpec => []ApprovalIsUsedOnce
<1>1. EntryInit => ClaimInv
  BY DEF EntryInit, ClaimInv, MayUse, ApprovalIsUsedOnce, Idle
<1>2. EntryTypeOK /\ ClaimInv /\ [EntryNext]_entryVars => ClaimInv'
  BY UsesStep
<1>3. ClaimInv => ApprovalIsUsedOnce
  BY DEF ClaimInv
<1>4. EntrySpec => []EntryTypeOK
  BY EntryTypeCorrect
<1> QED
  BY <1>1, <1>2, <1>3, <1>4, PTL DEF EntrySpec

-----------------------------------------------------------------------------
(* Functions on a set of keys *)

LEMMA WithDomain == ASSUME NEW f, NEW h, NEW v PROVE DOMAIN With(f, h, v) = DOMAIN f \cup {h}
  BY DEF With

LEMMA WithValue ==
    ASSUME NEW f, NEW h, NEW v, NEW i \in DOMAIN f \cup {h}
    PROVE  With(f, h, v)[i] = IF i = h THEN v ELSE f[i]
  BY DEF With

LEMMA WithoutDomain == ASSUME NEW f, NEW h PROVE DOMAIN Without(f, h) = DOMAIN f \ {h}
  BY DEF Without

LEMMA WithoutValue ==
    ASSUME NEW f, NEW h, NEW i \in DOMAIN f \ {h} PROVE Without(f, h)[i] = f[i]
  BY DEF Without

LEMMA EmptyDomain == DOMAIN <<>> = {}
  OBVIOUS

-----------------------------------------------------------------------------
(* BoundedMockBroker *)

IsContext(x) ==
    /\ x = [operation |-> x.operation, deadline |-> x.deadline, cancel |-> x.cancel]
    /\ x.cancel \in BOOLEAN

HandleInv ==
    /\ \A h \in Issued : IsContext(context[h])
    /\ thread \in [Approvals -> {"none", "entered", "value", "ok", "failed"}]
    /\ result \in [Approvals -> Statuses \cup {"none"}]
    /\ Issued \subseteq Approvals
    /\ active \cup DOMAIN pending \cup withdrawn \subseteq Issued
    /\ \A h \in Approvals :
        /\ h \in active <=> thread[h] # "none"
        /\ h \in DOMAIN pending => h \notin active
        /\ h \in Live => result[h] = "none"
        /\ result[h] # "none" => h \in Issued
    /\ \A h \in withdrawn : context[h].cancel /\ result[h] # "ok"

LEMMA HandleInit == BrokerInit => HandleInv
  BY EmptyDomain DEF BrokerInit, HandleInv, Live, Issued

LEMMA CancelIsSet ==
    ASSUME HandleInv, NEW H, SetCancel(H)
    PROVE  /\ Issued' = Issued
           /\ \A h \in Issued :
                /\ IsContext(context'[h])
                /\ context[h].cancel \/ h \in H => context'[h].cancel
<1>1. Issued' = Issued
  BY DEF SetCancel, Issued
<1>2. ASSUME NEW h \in Issued
      PROVE  /\ IsContext(context'[h])
             /\ context[h].cancel \/ h \in H => context'[h].cancel
  <2> DEFINE flag == context[h].cancel \/ h \in H
  <2>1. context'[h] = [context[h] EXCEPT !.cancel = flag]
    BY DEF SetCancel, Issued
  <2>2. context[h] = [operation |-> context[h].operation, deadline |-> context[h].deadline,
                      cancel |-> context[h].cancel]
    BY DEF HandleInv, IsContext
  <2>3. flag \in BOOLEAN
    OBVIOUS
  <2> HIDE DEF flag
  <2>4. context'[h] = [operation |-> context[h].operation, deadline |-> context[h].deadline, cancel |-> flag]
    BY <2>1, <2>2
  <2>5. IsContext(context'[h]) /\ context'[h].cancel = flag
    BY <2>3, <2>4 DEF IsContext
  <2> QED
    BY <2>5 DEF flag
<1> QED
  BY <1>1, <1>2

LEMMA HandleStep == HandleInv /\ [BrokerNext]_brokerVars => HandleInv'
<1> SUFFICES ASSUME HandleInv, [BrokerNext]_brokerVars PROVE HandleInv'
  OBVIOUS
<1> USE DEF HandleInv, Live, Issued, Statuses
<1>1. ASSUME NEW h \in Approvals, NEW op \in Operations, NEW d \in 1..MaxNow, GrantTrusted(h, op, d)
      PROVE  HandleInv'
  <2>1. Issued' = Issued \cup {h} /\ DOMAIN pending' = DOMAIN pending \cup {h} /\ h \notin Issued
    BY <1>1, WithDomain DEF GrantTrusted
  <2>2. /\ \A w \in Issued : context'[w] = context[w]
        /\ context'[h] = [operation |-> op, deadline |-> d, cancel |-> FALSE]
    BY <1>1, WithValue DEF GrantTrusted
  <2>3. \A w \in Issued' : IsContext(context'[w])
    <3>1. IsContext(context'[h])
      BY <2>2 DEF IsContext
    <3>2. ASSUME NEW w \in Issued PROVE IsContext(context'[w])
      BY <2>2
    <3> HIDE DEF IsContext
    <3> QED
      BY <2>1, <3>1, <3>2
  <2> QED
    BY <1>1, <2>1, <2>2, <2>3 DEF GrantTrusted
<1>2. ASSUME NEW h \in Approvals, Enter(h) PROVE HandleInv'
  <2>1. DOMAIN pending' = DOMAIN pending \ {h} /\ h \in DOMAIN pending
    BY <1>2, WithoutDomain DEF Enter
  <2> QED
    BY <1>2, <2>1 DEF Enter
<1>3. ASSUME NEW h \in Approvals, ReadStore(h) PROVE HandleInv'
  BY <1>3 DEF ReadStore
<1>4. ASSUME NEW h \in Approvals, RunAdapter(h) PROVE HandleInv'
  BY <1>4 DEF RunAdapter
<1>5. ASSUME NEW h \in Approvals, Finish(h) PROVE HandleInv'
  <2>1. FinalStatus(h) \in Statuses /\ (h \in withdrawn => FinalStatus(h) # "ok")
    BY <1>5 DEF Finish, FinalStatus
  <2> QED
    BY <1>5, <2>1 DEF Finish
<1>6. ASSUME NEW h \in Approvals, CancelTrusted(h) PROVE HandleInv'
  <2>1. DOMAIN pending' = DOMAIN pending \ {h} /\ h \in Live
    BY <1>6, WithoutDomain DEF CancelTrusted
  <2>2. /\ Issued' = Issued
        /\ \A w \in Issued : IsContext(context'[w])
        /\ \A w \in withdrawn \cup {h} : w \in Issued => context'[w].cancel
    BY <1>6, CancelIsSet DEF CancelTrusted
  <2> QED
    BY <1>6, <2>1, <2>2 DEF CancelTrusted
<1>7. ASSUME NEW op \in Operations, DeleteTrusted(op) PROVE HandleInv'
  <2> DEFINE mine == {h \in Live : context[h].operation = op}
  <2>1. DOMAIN pending' = DOMAIN pending \ mine
    BY <1>7 DEF DeleteTrusted
  <2>2. /\ Issued' = Issued
        /\ \A w \in Issued : IsContext(context'[w])
        /\ \A w \in withdrawn \cup mine : w \in Issued => context'[w].cancel
    BY <1>7, CancelIsSet DEF DeleteTrusted
  <2>3. mine \subseteq Live /\ withdrawn' = withdrawn \cup mine /\ UNCHANGED <<active, thread, result>>
    BY <1>7 DEF DeleteTrusted
  <2> HIDE DEF mine
  <2>4. \A w \in withdrawn' : result[w] # "ok" /\ w \in Issued
    BY <2>3
  <2> QED
    BY <2>1, <2>2, <2>3, <2>4
<1>8. CASE UNCHANGED bounded
  BY <1>8 DEF bounded
<1> QED
  BY <1>1, <1>2, <1>3, <1>4, <1>5, <1>6, <1>7, <1>8
  DEF BrokerNext, BoundedNext, LocalNext, GrantLocal, RevokeLocal, ExecuteLocal, EnrollTrusted, DeleteLocal,
      BrokerTick, brokerVars

\* A handle of the bounded broker is entered at most once, and never after it was withdrawn or
\* had returned, whatever cancel_trusted, delete_trusted and the now do between its steps.
THEOREM HandlesAreSingleUse == BrokerSpec => []HandleIsUsedOnce
<1>1. HandleInv => HandleIsUsedOnce
  BY DEF HandleInv, HandleIsUsedOnce, Live
<1> QED
  BY <1>1, HandleInit, HandleStep, PTL DEF BrokerSpec

\* execute never answers "ok" for a handle that was cancelled or whose credential was deleted
\* before it returned: the second locked part decides, not the adapter.
THEOREM WithdrawalWins == BrokerSpec => []WithdrawnIsNotOk
<1>1. HandleInv => WithdrawnIsNotOk
  BY DEF HandleInv, WithdrawnIsNotOk
<1> QED
  BY <1>1, HandleInit, HandleStep, PTL DEF BrokerSpec

-----------------------------------------------------------------------------
(* LocalCredentialBroker *)

\* A live grant was given for the credential the store holds now, and has used nothing yet.
GrantInv ==
    /\ used \in [Grants -> Seq(Nat)]
    /\ \A g \in Grants :
        /\ g \in DOMAIN grant => g \in DOMAIN grantedFor /\ grantedFor[g] = enrolled /\ used[g] = <<>>
        /\ g \notin DOMAIN grantedFor => used[g] = <<>>
        /\ used[g] # <<>> => used[g] = <<grantedFor[g]>>
    /\ enrolled \in Nat /\ enrolls \in Nat

LEMMA GrantStep == GrantInv /\ [BrokerNext]_brokerVars => GrantInv'
<1> SUFFICES ASSUME GrantInv, [BrokerNext]_brokerVars PROVE GrantInv'
  OBVIOUS
<1> USE DEF GrantInv
<1>1. CASE EnrollTrusted
  BY <1>1, EmptyDomain DEF EnrollTrusted
<1>2. CASE DeleteLocal
  BY <1>2, EmptyDomain DEF DeleteLocal
<1>3. ASSUME NEW g \in Grants, GrantLocal(g) PROVE GrantInv'
  <2>1. DOMAIN grant' = DOMAIN grant \cup {g} /\ DOMAIN grantedFor' = DOMAIN grantedFor \cup {g}
    BY <1>3, WithDomain DEF GrantLocal
  <2>2. grantedFor'[g] = enrolled /\ \A f \in DOMAIN grantedFor : f # g => grantedFor'[f] = grantedFor[f]
    BY <1>3, WithValue DEF GrantLocal
  <2> QED
    BY <1>3, <2>1, <2>2 DEF GrantLocal
<1>4. ASSUME NEW g \in Grants, RevokeLocal(g) PROVE GrantInv'
  <2>1. DOMAIN grant' = DOMAIN grant \ {g}
    BY <1>4, WithoutDomain DEF RevokeLocal
  <2> QED
    BY <1>4, <2>1 DEF RevokeLocal
<1>5. ASSUME NEW g \in Grants, ExecuteLocal(g) PROVE GrantInv'
  <2>1. DOMAIN grant' = DOMAIN grant \ {g} /\ g \in DOMAIN grant
    BY <1>5, WithoutDomain DEF ExecuteLocal
  <2>2. \/ UNCHANGED used
        \/ used' = [used EXCEPT ![g] = <<grantedFor[g]>>]
    BY <1>5, <2>1, Append(<<>>, enrolled) = <<enrolled>> DEF ExecuteLocal, Use
  <2>3. UNCHANGED <<enrolled, enrolls, grantedFor>>
    BY <1>5 DEF ExecuteLocal
  <2>4. /\ <<grantedFor[g]>> \in Seq(Nat) /\ <<grantedFor[g]>> # <<>>
        /\ g \in DOMAIN grantedFor
    BY <2>1
  <2>5. CASE UNCHANGED used
    BY <2>1, <2>3, <2>5
  <2>6. CASE used' = [used EXCEPT ![g] = <<grantedFor[g]>>]
    BY <2>1, <2>3, <2>4, <2>6
  <2> QED
    BY <2>2, <2>5, <2>6
<1>6. CASE UNCHANGED local
  BY <1>6 DEF local
<1> QED
  BY <1>1, <1>2, <1>3, <1>4, <1>5, <1>6
  DEF BrokerNext, BoundedNext, LocalNext, GrantTrusted, Enter, ReadStore, RunAdapter, Finish, CancelTrusted,
      DeleteTrusted, BrokerTick, brokerVars

\* A grant of the local broker is used at most once, with the credential it was given for: an
\* execution takes its grant away before the store is read, enrolling again and deleting take all
\* of them away before it changes.
THEOREM GrantsAreBound == BrokerSpec => []GrantKeepsItsCredential
<1>1. BrokerInit => GrantInv
  BY EmptyDomain DEF BrokerInit, GrantInv
<1>2. GrantInv => GrantKeepsItsCredential
  BY DEF GrantInv, GrantKeepsItsCredential
<1> QED
  BY <1>1, <1>2, GrantStep, PTL DEF BrokerSpec
=============================================================================

---------------------------- MODULE OwnerEntries ----------------------------
(***************************************************************************)
(* The three entries by which the owner lets a program touch the provider  *)
(* key kept in the Windows credential store, once per approval:            *)
(*   enroll   runpod_local_owner_bootstrap.run: writes the key, reads it   *)
(*   account  runpod_v2_account_owner_entry.run: reads it, asks the        *)
(*            provider for the account                                     *)
(*   startup  runpod_startup_credential.ProviderOnce.read: hands it to the *)
(*            worker                                                       *)
(* An approval is a file with an identifier, an expiry and the digests of  *)
(* the code it is for: of the part that handles the key (the flow, the     *)
(* credential store and the interpreter, SCOPE_PINS) and of the rest (the  *)
(* entry itself and what else it imports). It is consumed by creating a    *)
(* claim file exclusively before the store is touched; past the claim,     *)
(* enroll and account go on with the first part of the digests only.       *)
(* Approval, code and clock may change, and the process may die, between   *)
(* any two steps. The owner's SID is that of every process and left out.   *)
(***************************************************************************)
EXTENDS Integers

CONSTANTS
    Procs,       \* processes that run an entry, one call after the other
    Kinds,       \* the entries of the instance
    ApprovalIds, \* approval identifiers
    Digests,     \* what the sources of one part may hash to
    Window,      \* life of an approval (1800 s or 300 s)
    ReadLimit,   \* longest read accepted (10 s)
    MaxClock     \* bound: end of time

ASSUME KindsAssumption == Kinds \subseteq {"enroll", "account", "startup"}
ASSUME TimeAssumption == Window \in Nat /\ ReadLimit \in Nat /\ MaxClock \in Nat

VARIABLES
    clock, disk,  \* the time, and the digests of the sources
    file,         \* the approval file of each entry
    claims,       \* the claim files of each entry
    item,         \* the credential item
    proc,         \* the call each process is in
    uses          \* history: calls that touched the store under each approval

owner == <<clock, disk, file>>
entryVars == <<clock, disk, file, claims, item, proc, uses>>

NoApproval == [none |-> TRUE]
Pins == [scope : Digests, rest : Digests]
Approval == [id : ApprovalIds, pins : Pins, expires : 0..(MaxClock + Window)]

\* What a call goes by once its approval is claimed: a scope with the pins of one part, or, for
\* a startup, the approval as it was loaded.
Unchecked == "unchecked"
ScopeOf(k, approval) == IF k = "startup" THEN approval ELSE [approval EXCEPT !.pins.rest = Unchecked]
Kept == [id : ApprovalIds, pins : [scope : Digests, rest : Digests \cup {Unchecked}],
         expires : 0..(MaxClock + Window)]

Places == {"loaded", "checked", "claimed", "prompt", "write", "registered", "reading",
           "read", "lookup"}
Idle == [at |-> "idle", kind |-> "none", data |-> NoApproval, started |-> 0]
Done == [Idle EXCEPT !.at = "reported"]   \* the last call reported success
Running == [at : Places, kind : Kinds, data : Kept, started : 0..MaxClock]

EntryTypeOK ==
    /\ clock \in 0..MaxClock /\ disk \in Pins
    /\ file \in [Kinds -> {NoApproval} \cup Approval]
    /\ claims \in [Kinds -> SUBSET ApprovalIds]
    /\ item \in {"none", "key"}
    /\ proc \in [Procs -> {Idle, Done} \cup Running]
    /\ uses \in [Kinds \X ApprovalIds -> Nat]

EntryInit ==
    /\ clock = 0 /\ disk \in Pins
    /\ file = [k \in Kinds |-> NoApproval]
    /\ claims = [k \in Kinds |-> {}]
    /\ item \in {"none", "key"}
    /\ proc = [p \in Procs |-> Idle]
    /\ uses = [u \in Kinds \X ApprovalIds |-> 0]

-----------------------------------------------------------------------------
(* What a call checks *)

data(p) == proc[p].data
kind(p) == proc[p].kind
mark(p) == <<kind(p), data(p).id>>

\* _approval with _verify, load_approved and load_approval: the file now, complete and valid.
Loads(k) ==
    /\ file[k] # NoApproval
    /\ file[k].pins = disk /\ clock < file[k].expires

\* RunPodLocalCredentialFlow._allowed: the pins and the expiry of the scope.
ScopeAllowed(p) == data(p).pins.scope = disk.scope /\ clock < data(p).expires

\* fault: another approval in the file serves as well
StartupAllowed_AnyFile(p) == clock < data(p).expires /\ Loads(kind(p))

\* ProviderOnce._allowed: the approval file must also still be there, unchanged.
StartupAllowed(p) == clock < data(p).expires /\ Loads(kind(p)) /\ file[kind(p)] = data(p)

Allowed(p) == IF kind(p) = "startup" THEN StartupAllowed(p) ELSE ScopeAllowed(p)

\* The check before the claim. The bootstrap hashes the sources again; the account entry
\* loads the file again, whatever it now holds, and keeps what it loaded first.
AllowedToClaim(p) ==
    CASE kind(p) = "enroll"  -> data(p).pins = disk
      [] kind(p) = "account" -> Loads("account")
      [] kind(p) = "startup" -> StartupAllowed(p)

ReadInTime(p) == clock - proc[p].started < ReadLimit

Proceed(p, place) == proc' = [proc EXCEPT ![p].at = place]
EnterScope(p) ==
    proc' = [proc EXCEPT ![p].at = "claimed", ![p].data = ScopeOf(kind(p), @)]
StartReading(p) == proc' = [proc EXCEPT ![p].at = "reading", ![p].started = clock]
Report(p) == proc' = [proc EXCEPT ![p] = Done]
Fail(p) == proc' = [proc EXCEPT ![p] = Idle]

InCall(p) == proc[p].at \in Places

-----------------------------------------------------------------------------
(* The steps of a call. Each but Start may also refuse, fail or die: Stop. *)

Start(p, k) ==
    /\ ~InCall(p) /\ Loads(k)
    /\ proc' = [proc EXCEPT ![p] = [at |-> "loaded", kind |-> k, data |-> file[k], started |-> 0]]
    /\ UNCHANGED <<owner, claims, item, uses>>

CheckAgain(p) ==
    /\ proc[p].at = "loaded" /\ AllowedToClaim(p)
    /\ Proceed(p, "checked")
    /\ UNCHANGED <<owner, claims, item, uses>>

\* fault: an existing claim file is opened as well
Claim_Shared(p) ==
    /\ proc[p].at = "checked"
    /\ claims' = [claims EXCEPT ![kind(p)] = @ \cup {data(p).id}]
    /\ EnterScope(p)
    /\ UNCHANGED <<owner, item, uses>>

\* O_CREAT | O_EXCL: of all who try, ever, one creates the file.
Claim(p) ==
    /\ proc[p].at = "checked" /\ data(p).id \notin claims[kind(p)]
    /\ claims' = [claims EXCEPT ![kind(p)] = @ \cup {data(p).id}]
    /\ EnterScope(p)
    /\ UNCHANGED <<owner, item, uses>>

\* read_account_once and ProviderOnce.read up to the read.
BeginRead(p) ==
    /\ proc[p].at = "claimed" /\ kind(p) # "enroll" /\ Allowed(p)
    /\ StartReading(p)
    /\ UNCHANGED <<owner, claims, item, uses>>

\* enroll_owner: the item must not exist, before the prompt and after it.
BeginEnrollment(p) ==
    /\ proc[p].at = "claimed" /\ kind(p) = "enroll" /\ Allowed(p) /\ item = "none"
    /\ Proceed(p, "prompt")
    /\ UNCHANGED <<owner, claims, item, uses>>

AnswerPrompt(p) ==
    /\ proc[p].at = "prompt" /\ Allowed(p) /\ item = "none"
    /\ Proceed(p, "write")
    /\ UNCHANGED <<owner, claims, item, uses>>

WriteItem(p) ==
    /\ proc[p].at = "write"
    /\ item' = "key"
    /\ uses' = [uses EXCEPT ![mark(p)] = @ + 1]
    /\ Proceed(p, "registered")
    /\ UNCHANGED <<owner, claims>>

\* local_use_once, under the approval of the enrollment.
BeginCheck(p) ==
    /\ proc[p].at = "registered" /\ Allowed(p)
    /\ StartReading(p)
    /\ UNCHANGED <<owner, claims, item, uses>>

\* The enrollment's own read is part of its use.
ReadItem(p) ==
    /\ proc[p].at = "reading" /\ item = "key"
    /\ uses' = IF kind(p) = "enroll" THEN uses ELSE [uses EXCEPT ![mark(p)] = @ + 1]
    /\ Proceed(p, "read")
    /\ UNCHANGED <<owner, claims, item>>

\* registered-ready, or the key handed to the worker.
FinishRead(p) ==
    /\ proc[p].at = "read" /\ Allowed(p) /\ ReadInTime(p)
    /\ \/ kind(p) # "account" /\ Report(p)
       \/ kind(p) = "account" /\ Proceed(p, "lookup")
    /\ UNCHANGED <<owner, claims, item, uses>>

\* account-verified: the provider has answered, and it is not too late.
FinishLookup(p) ==
    /\ proc[p].at = "lookup" /\ Allowed(p) /\ ReadInTime(p)
    /\ Report(p)
    /\ UNCHANGED <<owner, claims, item, uses>>

\* A check refuses, a call fails, the prompt is cancelled, or the process dies.
Stop(p) ==
    /\ InCall(p)
    /\ Fail(p)
    /\ UNCHANGED <<owner, claims, item, uses>>

-----------------------------------------------------------------------------
(* The owner, and time *)

Approve(k, i) ==
    /\ file' = [file EXCEPT ![k] = [id |-> i, pins |-> disk, expires |-> clock + Window]]
    /\ UNCHANGED <<clock, disk, claims, item, proc, uses>>

Withdraw(k) ==
    /\ file[k] # NoApproval
    /\ file' = [file EXCEPT ![k] = NoApproval]
    /\ UNCHANGED <<clock, disk, claims, item, proc, uses>>

EditSources(d) ==
    /\ d # disk
    /\ disk' = d
    /\ UNCHANGED <<clock, file, claims, item, proc, uses>>

\* delete_owner.
DeleteOwner ==
    /\ item = "key"
    /\ item' = "none"
    /\ UNCHANGED <<owner, claims, proc, uses>>

EntryTick ==
    /\ clock < MaxClock
    /\ clock' = clock + 1
    /\ UNCHANGED <<disk, file, claims, item, proc, uses>>

CallStep(p) ==
    \/ CheckAgain(p) \/ Claim(p)
    \/ BeginRead(p) \/ BeginEnrollment(p) \/ AnswerPrompt(p) \/ WriteItem(p) \/ BeginCheck(p)
    \/ ReadItem(p) \/ FinishRead(p) \/ FinishLookup(p)

EntryNext ==
    \/ \E p \in Procs : CallStep(p) \/ Stop(p) \/ \E k \in Kinds : Start(p, k)
    \/ \E k \in Kinds : Withdraw(k) \/ \E i \in ApprovalIds : Approve(k, i)
    \/ \E d \in Pins : EditSources(d)
    \/ DeleteOwner
    \/ EntryTick

EntrySpec == EntryInit /\ [][EntryNext]_entryVars

-----------------------------------------------------------------------------
(* Properties *)

\* One approval lets one call touch the credential, whatever crashes, is retried, or runs
\* beside it, and whatever the approval file says later; and the claim comes first.
ApprovalIsUsedOnce ==
    \A k \in Kinds, i \in ApprovalIds :
        /\ uses[<<k, i>>] <= 1
        /\ uses[<<k, i>>] = 1 => i \in claims[k]

\* A call reports success only while its approval has not expired, while the code that handles
\* the key is the code it was given for, and, for a startup, while all of the pinned code is and
\* the owner has neither withdrawn nor replaced the approval: what was checked before the read is
\* checked again after it. (Of enroll and account the rest may have changed since the claim.)
ReportsApproved ==
    \A p \in Procs :
        InCall(p) /\ proc'[p].at = "reported" =>
            /\ clock < data(p).expires /\ data(p).pins.scope = disk.scope
            /\ kind(p) = "startup" => data(p).pins = disk /\ file["startup"] = data(p)

SuccessIsStillApproved == [][ReportsApproved]_entryVars
=============================================================================

-------------------------- MODULE CredentialBrokers --------------------------
(***************************************************************************)
(* The two in-process brokers. BoundedMockBroker                           *)
(* (orchestrator/bounded_credential_mock.py) gives one handle for each     *)
(* approval; execute moves it from pending to active under the lock, reads *)
(* the store and runs the adapter outside it, and takes the lock again to  *)
(* decide the status, while other threads cancel handles and delete        *)
(* credentials. LocalCredentialBroker (orchestrator/                       *)
(* local_credential_broker.py) does everything under its lock; its grants  *)
(* are for the credential that was enrolled when they were given.          *)
(***************************************************************************)
EXTENDS Integers, Sequences

CONSTANTS
    Approvals,  \* bounded approvals; each names its handle
    Operations, \* operations with a store each
    Grants,     \* handles of the local broker
    TTL,        \* life of a handle before its execution begins
    MaxNow,   \* bound: end of time
    MaxEnroll   \* bound: enrollments in the local broker

VARIABLES
    now,
    \* BoundedMockBroker
    pending,   \* handles not yet used, with the time their entry ends
    active,    \* handles whose execution is between the two locked parts
    context,   \* per issued approval: operation, deadline, cancel event
    thread,    \* per approval: what its execution has got so far
    stored,    \* operations whose store holds a credential
    result,    \* what execute returned for each approval
    withdrawn, \* history: handles cancelled or deleted before execute returned
    \* LocalCredentialBroker
    enrolled,  \* which credential the store holds, 0 for none
    enrolls,   \* history: enrollments so far
    grant,     \* live grants: the end of their life
    grantedFor,\* history: the credential each grant was given for
    used       \* history: the credentials each grant has used, one after the other

ASSUME BoundsAssumption == TTL \in Nat /\ MaxNow \in Nat /\ MaxEnroll \in Nat

bounded == <<pending, active, context, thread, stored, result, withdrawn>>
local == <<enrolled, enrolls, grant, grantedFor, used>>
brokerVars == <<now, bounded, local>>

Min(m, n) == IF m < n THEN m ELSE n
Without(f, h) == [i \in DOMAIN f \ {h} |-> f[i]]
With(f, h, v) == [i \in DOMAIN f \cup {h} |-> IF i = h THEN v ELSE f[i]]

Times == 0..(MaxNow + TTL)
Context == [operation : Operations, deadline : Times, cancel : BOOLEAN]
Statuses == {"ok", "failed", "cancelled", "expired"}

BrokerTypeOK ==
    /\ now \in 0..MaxNow
    /\ DOMAIN pending \subseteq Approvals /\ \A h \in DOMAIN pending : pending[h] \in Times
    /\ active \subseteq Approvals
    /\ DOMAIN context \subseteq Approvals /\ \A h \in DOMAIN context : context[h] \in Context
    /\ thread \in [Approvals -> {"none", "entered", "value", "ok", "failed"}]
    /\ stored \subseteq Operations
    /\ result \in [Approvals -> Statuses \cup {"none"}]
    /\ withdrawn \subseteq Approvals
    /\ {enrolled, enrolls} \subseteq 0..MaxEnroll
    /\ DOMAIN grant \subseteq Grants /\ \A g \in DOMAIN grant : grant[g] \in Times
    /\ DOMAIN grantedFor \subseteq Grants /\ \A g \in DOMAIN grantedFor : grantedFor[g] \in 0..MaxEnroll
    /\ used \in [Grants -> Seq(1..MaxEnroll)]

BrokerInit ==
    /\ now = 0
    /\ pending = <<>> /\ active = {} /\ context = <<>>
    /\ thread = [h \in Approvals |-> "none"]
    /\ stored = Operations
    /\ result = [h \in Approvals |-> "none"]
    /\ withdrawn = {}
    /\ enrolled = 0 /\ enrolls = 0
    /\ grant = <<>> /\ grantedFor = <<>>
    /\ used = [g \in Grants |-> <<>>]

-----------------------------------------------------------------------------
(* BoundedMockBroker *)

Issued == DOMAIN context

\* AdapterContext.stopped.
Stopped(h) == context[h].cancel \/ now >= context[h].deadline

GrantTrusted(h, op, deadline) ==
    /\ h \notin Issued /\ now < deadline
    /\ context' = With(context, h, [operation |-> op, deadline |-> deadline, cancel |-> FALSE])
    /\ pending' = With(pending, h, Min(now + TTL, deadline))
    /\ UNCHANGED <<now, active, thread, stored, result, withdrawn, local>>

\* fault: the handle stays pending while it is used
Enter_Kept(h) ==
    /\ h \in DOMAIN pending
    /\ ~Stopped(h) /\ now < pending[h]
    /\ active' = active \cup {h}
    /\ thread' = [thread EXCEPT ![h] = "entered"]
    /\ UNCHANGED <<now, pending, context, stored, result, withdrawn, local>>

\* First locked part of execute. A request it denies changes nothing.
Enter(h) ==
    /\ h \in DOMAIN pending
    /\ ~Stopped(h) /\ now < pending[h]
    /\ pending' = Without(pending, h)
    /\ active' = active \cup {h}
    /\ thread' = [thread EXCEPT ![h] = "entered"]
    /\ UNCHANGED <<now, context, stored, result, withdrawn, local>>

ReadStore(h) ==
    /\ thread[h] = "entered"
    /\ thread' = [thread EXCEPT ![h] = IF context[h].operation \in stored THEN "value" ELSE "failed"]
    /\ UNCHANGED <<now, pending, active, context, stored, result, withdrawn, local>>

RunAdapter(h) ==
    /\ thread[h] = "value"
    /\ thread' = [thread EXCEPT ![h] = IF Stopped(h) THEN "failed" ELSE "ok"]
    /\ UNCHANGED <<now, pending, active, context, stored, result, withdrawn, local>>

\* fault: the adapter's answer is final
FinalStatus_Adapter(h) == thread[h]

\* Second locked part: what happened meanwhile decides over what the adapter said.
FinalStatus(h) ==
    IF context[h].cancel THEN "cancelled"
    ELSE IF now >= context[h].deadline THEN "expired" ELSE thread[h]

Finish(h) ==
    /\ thread[h] \in {"ok", "failed"}
    /\ active' = active \ {h}
    /\ result' = [result EXCEPT ![h] = FinalStatus(h)]
    /\ thread' = [thread EXCEPT ![h] = "none"]
    /\ UNCHANGED <<now, pending, context, stored, withdrawn, local>>

Live == DOMAIN pending \cup active
SetCancel(H) == context' = [h \in Issued |-> [context[h] EXCEPT !.cancel = @ \/ h \in H]]

CancelTrusted(h) ==
    /\ h \in Live
    /\ pending' = Without(pending, h)
    /\ SetCancel({h})
    /\ withdrawn' = withdrawn \cup {h}
    /\ UNCHANGED <<now, active, thread, stored, result, local>>

\* The store's own delete may fail; the handles are gone all the same.
DeleteTrusted(op) ==
    LET mine == {h \in Live : context[h].operation = op}
    IN  /\ pending' = [h \in DOMAIN pending \ mine |-> pending[h]]
        /\ SetCancel(mine)
        /\ withdrawn' = withdrawn \cup mine
        /\ stored' \in {stored \ {op}, stored}
        /\ UNCHANGED <<now, active, thread, result, local>>

-----------------------------------------------------------------------------
(* LocalCredentialBroker *)

\* fault: the grants survive a new enrollment
EnrollTrusted_Keep ==
    /\ enrolls < MaxEnroll
    /\ enrolls' = enrolls + 1
    /\ enrolled' \in {enrolls + 1, enrolled}
    /\ UNCHANGED <<now, bounded, grant, grantedFor, used>>

\* The grants go first, so none survives a write that fails.
EnrollTrusted ==
    /\ enrolls < MaxEnroll
    /\ grant' = <<>>
    /\ enrolls' = enrolls + 1
    /\ enrolled' \in {enrolls + 1, enrolled}
    /\ UNCHANGED <<now, bounded, grantedFor, used>>

GrantLocal(g) ==
    /\ g \notin DOMAIN grantedFor
    /\ grant' = With(grant, g, now + TTL)
    /\ grantedFor' = With(grantedFor, g, enrolled)
    /\ UNCHANGED <<now, bounded, enrolled, enrolls, used>>

RevokeLocal(g) ==
    /\ g \in DOMAIN grant
    /\ grant' = Without(grant, g)
    /\ UNCHANGED <<now, bounded, enrolled, enrolls, grantedFor, used>>

Use(g) == used' = IF enrolled = 0 THEN used ELSE [used EXCEPT ![g] = Append(@, enrolled)]

\* fault: the grant is left in place, for a retry
ExecuteLocal_Keep(g) ==
    /\ g \in DOMAIN grant /\ now < grant[g]
    /\ Use(g)
    /\ UNCHANGED <<now, bounded, enrolled, enrolls, grant, grantedFor>>

\* The grant is consumed before the store is read.
ExecuteLocal(g) ==
    /\ g \in DOMAIN grant /\ now < grant[g]
    /\ grant' = Without(grant, g)
    /\ Use(g)
    /\ UNCHANGED <<now, bounded, enrolled, enrolls, grantedFor>>

DeleteLocal ==
    /\ grant' = <<>>
    /\ enrolled' \in {0, enrolled}
    /\ UNCHANGED <<now, bounded, enrolls, grantedFor, used>>

BrokerTick ==
    /\ now < MaxNow
    /\ now' = now + 1
    /\ UNCHANGED <<bounded, local>>

BoundedNext ==
    \/ \E h \in Approvals :
        \/ \E op \in Operations, d \in 1..MaxNow : GrantTrusted(h, op, d)
        \/ Enter(h) \/ ReadStore(h) \/ RunAdapter(h) \/ Finish(h) \/ CancelTrusted(h)
    \/ \E op \in Operations : DeleteTrusted(op)

LocalNext ==
    \/ \E g \in Grants : GrantLocal(g) \/ RevokeLocal(g) \/ ExecuteLocal(g)
    \/ EnrollTrusted \/ DeleteLocal

BrokerNext == BoundedNext \/ LocalNext \/ BrokerTick

BrokerSpec == BrokerInit /\ [][BrokerNext]_brokerVars

-----------------------------------------------------------------------------
(* Properties *)

\* A handle is in one place: waiting, running, or over. It is never given back, and an
\* execution that is running, or that has returned, cannot be entered again.
HandleIsUsedOnce ==
    \A h \in Approvals :
        h \in DOMAIN pending => h \notin active /\ thread[h] = "none" /\ result[h] = "none"

\* A handle cancelled, or whose credential was deleted, at any moment before execute has
\* returned is never answered "ok", although the adapter may already have said so.
WithdrawnIsNotOk == \A h \in withdrawn : result[h] # "ok"

\* A grant is used at most once, and with the credential it was given for: the first execution
\* consumes it, even one that fails, and a new enrollment or a deletion makes it void.
GrantKeepsItsCredential ==
    \A g \in Grants : used[g] # <<>> => g \in DOMAIN grantedFor /\ used[g] = <<grantedFor[g]>>
=============================================================================

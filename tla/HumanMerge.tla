----------------------------- MODULE HumanMerge -----------------------------
(***************************************************************************)
(* The evidence behind DONE: a merge approval bound to a head commit       *)
(* (orchestrator/core/approval.py), signed by an approver of the registry  *)
(* (core/auth.py), consumed once, and the pull request the person then     *)
(* merged, looked at by verify_human_merge (adapters/github.py). The task, *)
(* repository, target and plan a token is bound to are taken as matching;  *)
(* the commit is what moves. Expiry is modelled in ApprovedContainer, and  *)
(* authentication is enforced, as it is once a registry is configured.     *)
(* Each change of the approvals table is committed first and mirrored into *)
(* a JSON file afterwards, by a process that may die in between.           *)
(***************************************************************************)
EXTENDS Integers

CONSTANTS
    Tokens, \* token identifiers
    Commits,   \* commits
    Keys,   \* keys of the approver, one registered at a time
    Pulls   \* pull requests

VARIABLES
    token,    \* table approvals
    copy,     \* the JSON files
    mirror,   \* what a process has committed and not yet mirrored
    approver, \* the approver's entry in the registry
    pull,     \* the pull requests on GitHub
    checking, \* verify_human_merge calls whose token has been accepted
    verified  \* what verify_human_merge has reported as merged

gateVars == <<token, copy, mirror, approver, pull, checking, verified>>

-----------------------------------------------------------------------------
NoToken == [consumed |-> FALSE, revoked |-> FALSE]
Flags == [consumed : BOOLEAN, revoked : BOOLEAN]
Token == [head : Commits, key : Keys, consumed : BOOLEAN, revoked : BOOLEAN]
Exists(t) == token[t] # NoToken
NoFile == [missing |-> TRUE]

PullView == [head : Commits, state : {"OPEN", "CLOSED", "MERGED"}, by : {"nobody", "human", "bot"}]

\* A call of verify_human_merge: the pull request, the expected head and the token.
Question == Pulls \X Commits \X Tokens

GateInit ==
    /\ token = [t \in Tokens |-> NoToken]
    /\ copy = [t \in Tokens |-> NoFile]
    /\ mirror = {}
    /\ \E k \in Keys : approver = [key |-> k, revoked |-> FALSE]
    /\ pull \in [Pulls -> [head : Commits, state : {"OPEN"}, by : {"nobody"}]]
    /\ checking = {}
    /\ verified = {}

-----------------------------------------------------------------------------
(* The registry of approvers *)

\* register replaces the entry, and with it a revocation.
Register(k) ==
    /\ approver' = [key |-> k, revoked |-> FALSE]
    /\ UNCHANGED <<token, copy, mirror, pull, checking, verified>>

RevokeApprover ==
    /\ approver' = [approver EXCEPT !.revoked = TRUE]
    /\ UNCHANGED <<token, copy, mirror, pull, checking, verified>>

\* authenticate_and_authorize and verify_token_identity.
Recognised(k) == ~approver.revoked /\ k = approver.key

-----------------------------------------------------------------------------
(* Tokens *)

Mirrored(t, how) == mirror' = mirror \cup {<<t, how>>}

IssueAuthenticatedToken(t, s, k) ==
    /\ ~Exists(t) /\ Recognised(k)
    /\ token' = [token EXCEPT ![t] = [head |-> s, key |-> k, consumed |-> FALSE, revoked |-> FALSE]]
    /\ Mirrored(t, "issued")
    /\ UNCHANGED <<copy, approver, pull, checking, verified>>

\* A token is known to others once its issuer has returned, after the file is written.
Known(t) == Exists(t) /\ <<t, "issued">> \notin mirror

RevokeToken(t) ==
    /\ Known(t) /\ ~token[t].consumed
    /\ token' = [token EXCEPT ![t].revoked = TRUE]
    /\ Mirrored(t, "revoked")
    /\ UNCHANGED <<copy, approver, pull, checking, verified>>

\* fault: the copy is written although the transaction rolled back
VerifyAndConsumeToken_MirrorFirst(t, s) ==
    /\ Known(t)
    /\ ~token[t].revoked /\ ~token[t].consumed
    /\ Recognised(token[t].key) /\ token[t].head = s
    /\ token' \in {token, [token EXCEPT ![t].consumed = TRUE]}
    /\ Mirrored(t, "consumed")
    /\ UNCHANGED <<copy, approver, pull, checking, verified>>

VerifyAndConsumeToken(t, s) ==
    /\ Known(t)
    /\ ~token[t].revoked /\ ~token[t].consumed
    /\ Recognised(token[t].key) /\ token[t].head = s
    /\ token' = [token EXCEPT ![t].consumed = TRUE]
    /\ Mirrored(t, "consumed")
    /\ UNCHANGED <<copy, approver, pull, checking, verified>>

\* _write_token_json and _update_token_json, which leaves a missing file missing.
WriteMirror(t, how) ==
    /\ <<t, how>> \in mirror
    /\ mirror' = mirror \ {<<t, how>>}
    /\ \/ how = "issued" /\ copy' = [copy EXCEPT ![t] = [consumed |-> FALSE, revoked |-> FALSE]]
       \/ how # "issued" /\ copy[t] = NoFile /\ UNCHANGED copy
       \/ how = "consumed" /\ copy[t] # NoFile /\ copy' = [copy EXCEPT ![t].consumed = TRUE]
       \/ how = "revoked" /\ copy[t] # NoFile /\ copy' = [copy EXCEPT ![t].revoked = TRUE]
    /\ UNCHANGED <<token, approver, pull, checking, verified>>

\* The process ends, or the file cannot be written: the table keeps what was committed.
LoseMirror(t, how) ==
    /\ <<t, how>> \in mirror
    /\ mirror' = mirror \ {<<t, how>>}
    /\ UNCHANGED <<token, copy, approver, pull, checking, verified>>

-----------------------------------------------------------------------------
(* verify_human_merge *)

\* verify_consumed_token_binding.
ConsumedBinding(t, s) ==
    /\ Exists(t) /\ ~token[t].revoked /\ token[t].consumed
    /\ Recognised(token[t].key) /\ token[t].head = s

CheckApproval(n, s, t) ==
    /\ checking = {} /\ ConsumedBinding(t, s)
    /\ checking' = {<<n, s, t>>}
    /\ UNCHANGED <<token, copy, mirror, approver, pull, verified>>

\* fault: the head that was merged is not compared
MergedByHuman_AnyHead(n, s) == pull[n].state = "MERGED" /\ pull[n].by = "human"

MergedByHuman(n, s) == pull[n].state = "MERGED" /\ pull[n].head = s /\ pull[n].by = "human"

\* gh pr view: reported as merged, reported as not merged, or raised.
ViewPull ==
    \E c \in checking :
        /\ checking' = {}
        /\ verified' = IF MergedByHuman(c[1], c[2]) THEN verified \cup {c} ELSE verified
        /\ UNCHANGED <<token, copy, mirror, approver, pull>>

-----------------------------------------------------------------------------
(* GitHub: an open pull request shows the tip of its branch *)

PullIsOpen(n) == pull[n].state = "OPEN"

PushToPull(n, s) ==
    /\ PullIsOpen(n)
    /\ pull' = [pull EXCEPT ![n].head = s]
    /\ UNCHANGED <<token, copy, mirror, approver, checking, verified>>

EndPull(n, state, who) ==
    /\ PullIsOpen(n)
    /\ pull' = [pull EXCEPT ![n].state = state, ![n].by = who]
    /\ UNCHANGED <<token, copy, mirror, approver, checking, verified>>

TokenNext ==
    \/ \E k \in Keys : Register(k)
    \/ RevokeApprover
    \/ \E t \in Tokens :
        \/ \E s \in Commits, k \in Keys : IssueAuthenticatedToken(t, s, k)
        \/ \E s \in Commits : VerifyAndConsumeToken(t, s)
        \/ RevokeToken(t)
        \/ \E how \in {"issued", "consumed", "revoked"} : WriteMirror(t, how) \/ LoseMirror(t, how)

PullNext ==
    \E n \in Pulls :
        \/ \E s \in Commits : PushToPull(n, s)
        \/ \E who \in {"human", "bot"} : EndPull(n, "MERGED", who)
        \/ EndPull(n, "CLOSED", "nobody")
        \/ \E s \in Commits, t \in Tokens : CheckApproval(n, s, t)

GateNext == TokenNext \/ PullNext \/ ViewPull

GateSpec == GateInit /\ [][GateNext]_gateVars

-----------------------------------------------------------------------------
(* Properties *)

\* The variables hold what their comments say.
GateTypeOK ==
    /\ token \in [Tokens -> {NoToken} \cup Token]
    /\ copy \in [Tokens -> {NoFile} \cup Flags]
    /\ mirror \subseteq Tokens \X {"issued", "consumed", "revoked"}
    /\ approver \in [key : Keys, revoked : BOOLEAN]
    /\ pull \in [Pulls -> PullView]
    /\ checking \subseteq Question
    /\ verified \subseteq Question

\* What verify_human_merge reports as merged was merged by a person at the very head a
\* consumed approval names, and that approval was never withdrawn: a push after the
\* approval, a merge by a bot or a revocation leads to another answer, in any order.
VerifiedMergeIsApproved ==
    \A c \in verified :
        /\ pull[c[1]].state = "MERGED" /\ pull[c[1]].by = "human"
        /\ pull[c[1]].head = token[c[3]].head
        /\ token[c[3]].consumed /\ ~token[c[3]].revoked

\* The JSON file never shows a consumption or a revocation that the table has not
\* committed: the database row is the source of truth (_update_token_json).
CopyClaimsNoMore ==
    \A t \in Tokens : copy[t] # NoFile =>
        /\ Exists(t)
        /\ copy[t].consumed => token[t].consumed
        /\ copy[t].revoked => token[t].revoked
=============================================================================

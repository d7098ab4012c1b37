\* Two operations on one branch and two bases; two tokens, keys and commits at the gate;
\* two processes and two approvals at each entry; two handles; two grants.
SPECIFICATION MCSpec
CONSTANTS
    p = p  q = q  x = x  y = y  a = a  b = b  NoSha = NoSha  k1 = k1  old = old
    \* the publisher
    Ops <- MCOps
    Heads = {feature}
    Bases <- MCBases
    Shas <- MCShas
    MaxPRs = 2
    \* the gate
    Tokens = {t1, t2}
    Commits = {old, new}
    Keys = {k1, k2}
    Pulls = {n1}
    \* the entries
    Procs <- MCOps
    Kinds = {"enroll", "account", "startup"}
    ApprovalIds <- MCBases
    Digests <- MCShas
    Window = 1
    ReadLimit = 1
    MaxClock = 1
    \* the brokers
    Approvals <- MCOps
    Operations = {trial, monitor}
    Grants <- MCOps
    TTL = 1
    MaxNow = 2
    MaxEnroll = 2
SYMMETRY Symmetric
INVARIANTS
    EffectsAreJournaled
    SettledRowIsTrue
    NoSecondPullRequest
    VerifiedMergeIsApproved
    CopyClaimsNoMore
    ApprovalIsUsedOnce
    HandleIsUsedOnce
    WithdrawnIsNotOk
    GrantKeepsItsCredential
PROPERTIES
    SuccessIsStillApproved

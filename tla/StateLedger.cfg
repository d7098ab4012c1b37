\* One task, two clients racing on it, and a retry budget small enough to be used up within
\* MaxRevision transitions.
CONSTANTS
    Task = {t1}
    Client = {c1, c2}
    BaseSha = {b1}
    PrHead = {h1, h2}
    Digest = {d1}
    None = None
    MAX_RETRY_ATTEMPTS = 2
    MaxRevision = 7
SYMMETRY ClientSymmetry
SPECIFICATION Spec
INVARIANTS
    TypeOK
    HistoryIsLegalPath
    AttemptCountsRetries
    EvidenceIsCurrent
    GatedDoneIsApproved
PROPERTIES
    NoLostUpdate
    ImplementsLifecycle

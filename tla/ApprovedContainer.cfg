\* Two control databases that share one table of approvals, and two controllers; and,
\* apart from it, measurements of a candidate of two files.
CONSTANTS
    right = right
    Controller = {k1, k2}
    Database = {d1, d2}
    Task = {t1}
    TokenId = {right, wrong}
    Bound <- OneToken
    Careful = {d1}
    None = None
    app = app  doc = doc  c1 = c1  Gone = Gone
    Paths = {app, doc}
    Contents = {c1, c2}
    Commits <- BaseCommits
    Collectable = {app, doc}
    Scope = {app, doc}
    MaxEvidence = 1
SPECIFICATION MCSpec
SYMMETRY ContainerSymmetry
INVARIANTS
    TypeOK
    RunsAreApproved
    StartedOnce
    JournalPrecedesContainer
    CleanupIsFinal
    ResultIsMeasured
    EvidenceIsOfWhatRan
    KeptEvidenceIsSame
PROPERTIES
    SavedResultIsKept
    ImplementsRuns
CHECK_DEADLOCK FALSE

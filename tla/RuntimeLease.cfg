\* Two workers and an operator (any process may act as either) on one task, over a clock long
\* enough for a lease to expire and for two takeovers.
CONSTANTS
    Process = {p1, p2, p3}
    Task = {t1}
    Timeout = 1
    MaxTime = 2
    MaxEpoch = 3
SYMMETRY ProcessSymmetry
SPECIFICATION Spec
INVARIANTS
    TypeOK
    OwnerKeepsLease
PROPERTIES
    EpochsAreFresh
    ImplementsTable

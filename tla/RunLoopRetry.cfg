\* A task fails, is retried and fails again, while the task that depends on it is still BLOCKED.
CONSTANTS
    first = first
    other = other
    last = last
    Controller = {k1}
    MaxLive = 1
    Task = {first, last}
    Deps <- ChainDeps
    Conflicts <- NoConflicts
    MaxWorkers = 2
    Adapters = {"contract"}
    HumanMoves <- DecideRetry
    Cancels = FALSE
    None = None
    MaxEpoch = 2
SPECIFICATION FairSpec
PROPERTY
    FinishedSessionCloses
CHECK_DEADLOCK FALSE

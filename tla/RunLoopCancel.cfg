\* One task, one controller, and an operator who cancels the task while it is being dispatched.
CONSTANTS
    first = first
    other = other
    last = last
    Controller = {k1, k2}
    MaxLive = 1
    Task = {first}
    Deps <- NoDeps
    Conflicts <- NoConflicts
    MaxWorkers = 2
    Adapters = {"container"}
    HumanMoves <- DecideRetry
    Cancels = TRUE
    None = None
    MaxEpoch = 1
SPECIFICATION Spec
INVARIANT
    LeaseCoversSession
CHECK_DEADLOCK FALSE

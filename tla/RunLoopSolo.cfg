\* Two tasks that must not run together, a controller and its successor after a crash.
\* Everything may stop for good once no controller is left: no deadlock check.
CONSTANTS
    first = first
    other = other
    last = last
    Controller = {k1, k2}
    MaxLive = 1
    Task = {first, other}
    Deps <- NoDeps
    Conflicts <- SharedPath
    MaxWorkers = 2
    Adapters = {"container", "contract"}
    HumanMoves <- DecideRetry
    Cancels = FALSE
    None = None
    MaxEpoch = 2
SYMMETRY TaskSymmetry
SPECIFICATION Spec
INVARIANTS
    TypeOK
    OneWorkerPerTask
    NoConflictingRuns
    RunningIsAttended
CHECK_DEADLOCK FALSE

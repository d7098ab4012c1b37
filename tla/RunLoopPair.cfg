\* Two controllers of the same plan at the same time.
\* Everything may stop for good once no controller is left: no deadlock check.
CONSTANTS
    first = first
    other = other
    last = last
    Controller = {k1, k2}
    MaxLive = 2
    Task = {first}
    Deps <- NoDeps
    Conflicts <- NoConflicts
    MaxWorkers = 2
    Adapters = {"contract"}
    HumanMoves <- DecideRetry
    Cancels = FALSE
    None = None
    MaxEpoch = 2
SPECIFICATION FairSpec
INVARIANTS
    OneWorkerPerTask
    OneSessionPerRun
PROPERTIES
    ResultsMatchRun
    FinishedSessionCloses
CHECK_DEADLOCK FALSE

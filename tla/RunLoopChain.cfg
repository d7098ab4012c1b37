\* A task and one that depends on it, up to the merge of the first, with the cancel command.
\* Everything may stop for good once no controller is left: no deadlock check.
CONSTANTS
    first = first
    other = other
    last = last
    Controller = {k1, k2}
    MaxLive = 1
    Task = {first, last}
    Deps <- ChainDeps
    Conflicts <- NoConflicts
    MaxWorkers = 2
    Adapters = {"container", "contract"}
    HumanMoves <- DecideAll
    Cancels = TRUE
    None = None
    MaxEpoch = 1
SYMMETRY ControllerSymmetry
SPECIFICATION Spec
INVARIANTS
    DependenciesAreDone
CHECK_DEADLOCK FALSE

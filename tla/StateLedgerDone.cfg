\* The ledger alone: nobody is obliged to ask for the human approval gate.
CONSTANTS
    Task = {t1}
    Client = {c1, c2}
    BaseSha = {b1}
    PrHead = {h1, h2}
    Digest = {d1}
    None = None
    MAX_RETRY_ATTEMPTS = 2
    MaxRevision = 6
SYMMETRY ClientSymmetry
SPECIFICATION Spec
INVARIANT
    DoneNeedsConsumedToken

\* The cancel command while a container runs.
CONSTANTS
    right = right
    Controller = {k1}
    Database = {d1}
    Task = {t1}
    TokenId = {right}
    Bound <- OneToken
    Careful = {d1}
    None = None
SPECIFICATION Spec
INVARIANT
    CancelledWorkIsOver
CHECK_DEADLOCK FALSE

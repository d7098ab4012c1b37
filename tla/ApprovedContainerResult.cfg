\* A recovery that begins while the run's controller is still at work.
CONSTANTS
    right = right
    Controller = {k1, k2}
    Database = {d1}
    Task = {t1}
    TokenId = {right}
    Bound <- OneToken
    Careful = {}
    None = None
SPECIFICATION Spec
PROPERTY
    ResultSurvivesRecovery
CHECK_DEADLOCK FALSE

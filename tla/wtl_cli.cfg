SPECIFICATION RunSpec
CONSTANTS
    MaxIter = 4
    MaxRetry = 1
    Phases = {p1}
    Initialize <- SimpleInitialize
    AfterTurn <- SimpleAfterTurn
    OnWaitResolved <- SimpleOnWaitResolved
    HasWaitHandler = FALSE
    CanCompact = FALSE
INVARIANTS
    RunTellsTruth
PROPERTIES
    KeepsRunnersRules
CHECK_DEADLOCK FALSE

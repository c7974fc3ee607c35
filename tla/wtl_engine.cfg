SPECIFICATION FairSpec
CONSTANTS
    MaxIter = 3
    MaxRetry = 1
    Phases = {p1, p2}
    Initialize <- AnyInitialize
    AfterTurn <- ContractAfterTurn
    OnWaitResolved <- ContractOnWaitResolved
    HasWaitHandler = TRUE
    CanCompact = TRUE
INVARIANTS
    TypeOK
    SummaryMatchesStream
    RetryBudget
PROPERTIES
    StreamWellFormed
    TurnsFollowPlan
    KeepsContract
    RunEnds
CHECK_DEADLOCK FALSE

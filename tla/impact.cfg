SPECIFICATION FairSpec
CONSTANTS
    MaxRetries = 2
    MaxIterations = 8
    AgentData = {"collected", "linked", "scored", "analysis"}
    SourceKeys = {k1, k2}
    MaxSources = 2
    Faults = {"tui", "calls"}
INVARIANTS
    TypeOK
    SourcesVouched
    RetryBudget
    ScreenTellsRun
    ResultIsConsistent
    ExitTellsOutcome
PROPERTIES
    CommandEnds
CHECK_DEADLOCK FALSE

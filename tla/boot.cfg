SPECIFICATION Spec
CONSTANTS
    MaxCommands = 3
    w1 = w1
    w2 = w2
    Worktrees = {w1, w2}
    Base = 0
    Offset <- OverlappingOffset
    PortRange = 2
    FallbackRange = 2
    MaxPort = 1
    Overrides = {1}
    MaxForeign = 1
    MaxActive = 2
    MaxKills = 1
INVARIANTS
    TypeOK
    AppsRecorded
    CommandsGoOn
PROPERTIES
    AnswersFromOwnApp
CHECK_DEADLOCK FALSE

SPECIFICATION FairSpec
CONSTANTS
    MaxTurns = 2
    MaxNotes = 1
    Cap = 3
    Faults = {"die", "stderr"}
INVARIANTS
    TypeOK
    TurnResultIsServers
    ResponseBelongsToTurn
PROPERTIES
    ClientIsRunner
    CallsReturn
CHECK_DEADLOCK FALSE

SPECIFICATION FairSpec
CONSTANTS
    MaxTurns = 1
    MaxNotes = 1
    Cap = 2
    Faults = {"die"}
PROPERTIES
    RunGoesOn
CHECK_DEADLOCK FALSE

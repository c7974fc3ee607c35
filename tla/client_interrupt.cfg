SPECIFICATION FairSpec
CONSTANTS
    MaxTurns = 1
    MaxNotes = 2
    Cap = 1
    Faults = {}
PROPERTIES
    CtrlCStopsTheRun
CHECK_DEADLOCK FALSE

SPECIFICATION FairSpec
CONSTANTS
    Runs = {r1, r2}
    NoRun = NoRun
    Limits = {0, 2}
INVARIANTS
    TypeOK
    SessionsTellRuns
    CleanedUp
    StartsClean
    PRAfterPromise
PROPERTIES
    RunEnds
CHECK_DEADLOCK FALSE

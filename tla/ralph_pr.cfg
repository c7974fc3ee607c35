SPECIFICATION Spec
CONSTANTS
    Runs = {r1}
    NoRun = NoRun
    Limits = {1}
INVARIANTS
    PRRequiresCompletion
CHECK_DEADLOCK FALSE

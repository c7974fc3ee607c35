SPECIFICATION Spec
CONSTANTS
    Runs = {r1, r2}
    NoRun = NoRun
    Limits = {1}
INVARIANTS
    WorktreeExclusion
CHECK_DEADLOCK FALSE

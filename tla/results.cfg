SPECIFICATION Spec
CONSTANTS
    Rows <- FewRows
    Lines <- SomeLines
    Widths = {1, 2}
    Heights = {2}
    MaxSaves = 2
    Seconds = {1, 2}
    WritesFail = TRUE
INVARIANTS
    TypeOK
    ScreenShowsSelection
    SavedIsWhole
CHECK_DEADLOCK FALSE

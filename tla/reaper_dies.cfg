CONSTANTS
    Paths = {p1, p2}
    TmpPaths = {}
    MaxBatch = 2
    MaxEvents = 4
SPECIFICATION Spec
INVARIANT ReaperSurvives
CHECK_DEADLOCK FALSE

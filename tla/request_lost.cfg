CONSTANTS
    Paths = {p1, p2}
    TmpPaths = {}
    MaxBatch = 1
    MaxEvents = 4
SPECIFICATION FairSpec
PROPERTY EveryRequestIsServed
CHECK_DEADLOCK FALSE

CONSTANTS
    Flavours = {"C"}
    Dirs = {d}
    Places <- MCPlaces
    WatchPaths <- MCWatchPaths
    Names <- MCNames
    LongNames = {}
    Processes = {p1}
    CRoom = 2
    GoRoom = 6
    LongSize = 3
    MaxChanges = 3
SPECIFICATION Spec
INVARIANT EveryArrivalIsHeard
CHECK_DEADLOCK FALSE

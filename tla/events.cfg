CONSTANTS
    Flavours = {"C", "Go"}
    Dirs = {d}
    Places <- MCPlaces
    WatchPaths <- MCWatchPaths
    Names <- MCNames
    LongNames <- MCLongNames
    Processes = {p1, p2}
    CRoom = 2
    GoRoom = 6
    LongSize = 3
    MaxChanges = 3
SPECIFICATION FairSpec
INVARIANT TypeOK
INVARIANT ArrivalsAreHeard
INVARIANT RemovalsAreHeard
INVARIANT OnlyWatchedHeard
PROPERTY EventsAreHandled
CHECK_DEADLOCK FALSE

CONSTANTS
    Scans = {s1, s2}
    Sizes = {1, 2}
    TicksPerSecond = 2
    MaxTicks = 2
SYMMETRY Symmetry
SPECIFICATION Spec
INVARIANT TypeOK
INVARIANT CacheSound
CHECK_DEADLOCK FALSE

CONSTANTS
    CWatchers = {c1, c2}
    GoWatchers = {g1}
SPECIFICATION Spec
INVARIANT TypeOK
INVARIANT RunningIsReached
INVARIANT FailsOnlyInOverlap
CHECK_DEADLOCK FALSE

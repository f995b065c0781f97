CONSTANTS
    Paths = {p1, p2, t}
    TmpPaths = {t}
    MaxBatch = 2
    MaxEvents = 4
SPECIFICATION FairSpec
INVARIANT TypeOK
INVARIANT CancelledScanLeavesNothing
INVARIANT ReaperSeesQueued
INVARIANT ReaperDiesOnlyByMixedMessage
PROPERTY EntriesAreReaped
PROPERTY AcceptedRequestsAreServed
CHECK_DEADLOCK FALSE

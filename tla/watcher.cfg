CONSTANTS
    Fds = {1, 2, 3}
    InitialCapacity = 1
    SocketRoom = 1
    MaxMessages = 3
SPECIFICATION FairSpec
INVARIANT TypeOK
INVARIANT TableIsConsistent
INVARIANT RefcountExact
INVARIANT ClientsMissNothing
INVARIANT AbortsOnlyForSlowClient
INVARIANT CleanShutdown
PROPERTY EveryMessageTaken
PROPERTY ImplementsBroadcast
CHECK_DEADLOCK FALSE

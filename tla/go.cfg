CONSTANTS
    Conns = {c1, c2}
    Capacity = 1
    SocketRoom = 1
    MaxMessages = 3
SPECIFICATION FairSpec
INVARIANT TypeOK
INVARIANT InOrderOrLost
PROPERTY ImplementsBroadcast
PROPERTY RequestsAreTaken
PROPERTY EventsAreDrained
PROPERTY GoneClientsLeave
CHECK_DEADLOCK FALSE

CONSTANTS
    Items = {a, b}
    Clients = {c1, c2, c3}
    MaxPuts = 4
SPECIFICATION Spec
INVARIANT TypeOK
INVARIANT NobodySleepsBesideWork
PROPERTY ImplementsChannel
CHECK_DEADLOCK FALSE

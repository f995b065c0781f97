CONSTANTS
    Items = {a, b}
    MaxPuts = 3
    max_scans = 2
    Options = {"default", "given"}
SPECIFICATION FairSpec
INVARIANT TypeOK
INVARIANT WaitsForSomething
INVARIANT NoIdleSlot
INVARIANT StartIsOrdered
INVARIANT ExitMeansAllLogged
PROPERTY CrawlCompletes
PROPERTY ClamdExitEndsMain
CHECK_DEADLOCK FALSE

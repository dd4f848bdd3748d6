CONSTANTS
    Clients = {c1, c2}
    None = None
    EvtDepth = 2
    ReqDepth = 1
    BackoffMin = 5
    BackoffMax = 60
    MaxMessages = 2
    MaxFails = 6
SPECIFICATION FairSpec
INVARIANTS
    TypeOK
    SleepFollowsFailures
PROPERTIES
    SetupEnds
CHECK_DEADLOCK FALSE

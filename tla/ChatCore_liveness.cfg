CONSTANTS
    BusDepth = 1
    RxDepth = 1
    AccumMax = 32
    IdleTicks = 2
    BackoffTicks = 2
    PressTicks = 1
    MaxEdges = 2
    MaxInputs = 1
SPECIFICATION FairSpec
CHECK_DEADLOCK FALSE
PROPERTIES
    ConnectingResolves
    UnusedSessionEnds

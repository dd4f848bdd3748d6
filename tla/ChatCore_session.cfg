CONSTANTS
    BusDepth = 2
    RxDepth = 1
    AccumMax = 32
    IdleTicks = 1
    BackoffTicks = 1
    PressTicks = 2
    MaxEdges = 3
    MaxInputs = 1
SPECIFICATION Spec
CHECK_DEADLOCK FALSE
INVARIANTS
    TypeOK
    AudioFollowsState
    PttFollowsButton
    TurnModeAgrees
    StreamIsFresh
    EventsAreWhole

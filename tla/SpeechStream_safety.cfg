CONSTANTS
    RingCap = 5
    OutCap = 2
    Chunk = 2
    OpenTries = 1
    RecvTries = 2
    PumpTries = 2
    CloseTries = 1
    MaxUnits = 7
    MaxClips = 2
SPECIFICATION Spec
INVARIANTS
    TypeOK
    NoGap
    NothingHeld
PROPERTIES
    PlayedToTheEnd
CHECK_DEADLOCK FALSE

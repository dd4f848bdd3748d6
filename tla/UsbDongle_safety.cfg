CONSTANTS
    MaxStores = 1
SPECIFICATION FairSpec
INVARIANTS
    TypeOK
    PageIsWhole
    SwitchIsToTheOther
    FiguresMatchReadings
PROPERTIES
    QueuedActionRuns
    ClientsAreServed
CHECK_DEADLOCK FALSE

CONSTANTS
    c1 = c1
    c2 = c2
    c3 = c3
    Contacts <- MCContacts
    Tables <- MCTables
    ContactMax = 2
    MsgqDepth = 2
    LoopWait = 1
    CallTimeout = 2
    CallStopWait = 2
    ButtonConfirm = 1
    BatteryPoll = 1
    FailedRecover = 2
    SmsEnabled = FALSE
    MaxTriggers = 2
    MaxUpdates = 1
SPECIFICATION Spec
INVARIANTS
    TypeOK
    RosterKept
    SessionConsistent
    IndicatorsShowAlert
PROPERTIES
    ImplementsRotation

CONSTANTS
    c1 = c1
    c2 = c2
    c3 = c3
    Contacts <- MCContacts
    Tables <- OneTable
    ContactMax = 2
    MsgqDepth = 1
    LoopWait = 1
    CallTimeout = 1
    CallStopWait = 2
    ButtonConfirm = 2
    BatteryPoll = 1
    FailedRecover = 1
    SmsEnabled = TRUE
    MaxTriggers = 2
    MaxUpdates = 0
SPECIFICATION FairSpec
PROPERTIES
    AlertResolves
    TalkEnds

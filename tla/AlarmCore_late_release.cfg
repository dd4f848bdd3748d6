CONSTANTS
    c1 = c1
    c2 = c2
    c3 = c3
    Contacts <- MCContacts
    Tables <- OneTable
    ContactMax = 2
    MsgqDepth = 2
    LoopWait = 1
    CallTimeout = 2
    CallStopWait = 2
    ButtonConfirm = 2
    BatteryPoll = 2
    FailedRecover = 2
    SmsEnabled = FALSE
    MaxTriggers = 1
    MaxUpdates = 0
SPECIFICATION Spec
PROPERTIES
    DisconnectIsOfCurrentCall

CONSTANTS
    c1 = c1
    c2 = c2
    c3 = c3
    blank = blank
    Contacts <- MCContacts
    Lists <- MCLists
    Defaults <- MCDefaults
    ContactMax = 2
    MaxUpdates = 3
    MaxGets = 2
    MaxRestarts = 1
SPECIFICATION Spec
INVARIANTS
    TypeOK
    OneDownloadIsSafe
PROPERTIES
    AckedSurvivesRestart
    ImplementsRegister
CHECK_DEADLOCK FALSE

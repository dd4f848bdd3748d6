CONSTANTS
    MsgqDepth = 8
    Inflight = 3
SPECIFICATION FairSpec
INVARIANTS
    TypeOK
PROPERTIES
    OpensClean
    RetriesUnlessDropped
CHECK_DEADLOCK FALSE

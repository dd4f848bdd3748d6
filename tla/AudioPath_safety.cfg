CONSTANTS
    QueueDepth = 1
    Prebuffer = 2
    DropWindow = 2
    Cooldown = 1
SPECIFICATION FairSpec
INVARIANTS
    TypeOK
    BoundedResidue
    OneTrailingAppend
PROPERTIES
    MuteEnds
    StopReleasesPlayer

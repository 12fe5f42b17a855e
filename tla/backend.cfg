SPECIFICATION FairSpec
CONSTANTS
    Replica <- MCReplica
    MaxViews <- MCMaxViews
    MaxExpire <- MCMaxExpire
    Tls = TRUE
    MayStop = {1}
    FirstLeader = 1
    BufferSize = 1
CHECK_DEADLOCK FALSE
INVARIANT NewestKept
INVARIANT FetchRecorded
PROPERTIES
    GetEnds
    StopEndsLater

SPECIFICATION FairSpec
CONSTANTS
    Community = Community
    Nobody = Nobody
    u1 = u1
    s1 = s1
    s2 = s2
    Units <- OneUnit
    Sockets <- TwoSockets
    ChannelOf <- BothOnCommunity
    MaxReadings = 2
    MinInterval = 1
    DbMayFail = TRUE
INVARIANTS
    TypeOK
    OneBroadcast
    NobodyForgotten
    StaleOnlyIfMissed
PROPERTIES
    ImplementsFeed
    QueuedKept
    QueuedReaches

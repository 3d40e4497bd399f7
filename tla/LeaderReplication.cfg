CONSTANTS
    Leader = Leader
    f1 = f1
    p1 = p1
    p2 = p2
    Follower <- OneFollower
    Producer <- TwoProducers
    AcksAll <- OneProducer
    MaxLag = 1
    MaxFaults = 1
    MaxDrops = 1
SPECIFICATION FairSpec
CHECK_DEADLOCK FALSE
INVARIANTS
    TypeOK
    FollowerIsPrefix
    ProgressIsReal
    HwmIsReplicated
PROPERTIES
    AckIsReplicated
    Converges

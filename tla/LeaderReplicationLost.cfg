CONSTANTS
    Leader = Leader
    f1 = f1
    p1 = p1
    p2 = p2
    Follower <- OneFollower
    Producer <- OneProducer
    AcksAll <- OneProducer
    MaxLag = 1
    MaxFaults = 0
    MaxDrops = 0
SPECIFICATION SpecRegistered
CHECK_DEADLOCK FALSE
INVARIANT SuccessorHasAcked

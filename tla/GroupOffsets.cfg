CONSTANTS
    c1 = c1
    c2 = c2
    c3 = c3
    Consumer <- TwoConsumers
    OffsetOverride <- OneOverride
    PartitionCount = 2
    MaxRecords = 2
    MaxJoins = 3
    MaxFaults = 1
    MaxRestarts = 1
SPECIFICATION FairSpec
CHECK_DEADLOCK FALSE
INVARIANT NothingSkipped
PROPERTIES
    ResumesFromLastCommit
    DeadMemberIsEvicted

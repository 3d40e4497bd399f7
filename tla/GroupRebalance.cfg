CONSTANTS
    c1 = c1
    c2 = c2
    c3 = c3
    Consumer <- ThreeConsumers
    OffsetOverride <- NoOverride
    PartitionCount = 3
    MaxRecords = 0
    MaxJoins = 5
    MaxFaults = 1
    MaxRestarts = 0
SPECIFICATION Spec
CHECK_DEADLOCK FALSE
SYMMETRY Symmetry
INVARIANTS
    TypeOK
    OneOwner
    StableGroupCoversTopic
    HeldIsAssigned
PROPERTY AssignmentIsFinal

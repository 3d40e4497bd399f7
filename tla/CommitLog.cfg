CONSTANTS
    FrameSize = {1, 2}
    MaxSegBytes = 4
    IndexInterval = 2
    MaxBatch = 2
    MaxOffset = 5
    MaxCrashes = 2
SPECIFICATION Spec
CHECK_DEADLOCK FALSE
INVARIANTS
    TypeOK
    LogEndIsDurable
    ReadIsExact
PROPERTY ImplementsLog

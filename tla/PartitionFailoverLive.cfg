CONSTANTS
    Broker = {1, 2, 3}
    PartitionCount = 1
    ReplicationFactor = 3
    Unclean = FALSE
    MaxCreates = 0
    MaxElections = 1
    MaxReports = 1
    MaxSuspicions = 1
    MaxBreaks = 0
    MaxCrashes = 1
SPECIFICATION FairSpec
CHECK_DEADLOCK FALSE
INVARIANTS
    TypeOK
    LeadersHoldReplicas
    RolesFollowTable
    ViewsStayCurrent
PROPERTY FailoverCompletes

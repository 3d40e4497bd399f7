CONSTANTS
    Broker = {1, 2, 3}
    PartitionCount = 1
    ReplicationFactor = 2
    Unclean = TRUE
    MaxCreates = 1
    MaxElections = 2
    MaxReports = 0
    MaxSuspicions = 1
    MaxBreaks = 1
    MaxCrashes = 0
SPECIFICATION Spec
CHECK_DEADLOCK FALSE
INVARIANTS
    LeadersHoldReplicas
    ReplicasAgree

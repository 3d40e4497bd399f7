CONSTANTS
    b1 = b1
    b2 = b2
    b3 = b3
    None = None
    Broker <- MCPair
    MaxTerm = 2
    MaxRounds = 4
    MaxBreaks = 2
    MaxCrashes = 1
SPECIFICATION FairSpec

CHECK_DEADLOCK FALSE
INVARIANT KnownLeaderWasElected
PROPERTY OutgrownLeaderStepsDown

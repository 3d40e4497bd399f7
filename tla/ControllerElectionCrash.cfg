CONSTANTS
    b1 = b1
    b2 = b2
    b3 = b3
    None = None
    Broker <- MCBroker
    MaxTerm = 2
    MaxRounds = 3
    MaxBreaks = 0
    MaxCrashes = 1
SPECIFICATION Spec
SYMMETRY Symmetry
CHECK_DEADLOCK FALSE
INVARIANTS
    TypeOK
    OneVotePerTerm
    VotesRestOnDisk
    ElectionSafety
    LeaderWasElected
PROPERTY TermsAndVotesStick

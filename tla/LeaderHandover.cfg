SPECIFICATION FairSpec
CONSTANTS
    Broker = {b1, b2, b3}
    First = b1
    Entry = b2
    Producer = {p}
    MaxAttempts = 2
    MaxElections = 1
    MaxFaults = 1
\* With every bound used up and nothing left to fetch the system rests.
CHECK_DEADLOCK FALSE
INVARIANTS
    TypeOK
    LogsAreNumbered
    LogsAgree
    RetriesBoundCopies
    ReaderSeesOneLog
PROPERTIES
    FollowersCatchUp
    ProducerGetsThrough

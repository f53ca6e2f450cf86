SPECIFICATION FairSpec
CONSTANTS
    None = None
    Events = {o1, o2}
    Publishers = {p1, p2}
    BatchSize = 2
    MaxFaults = 3
INVARIANTS
    TypeOK
    PublishedWasSent
    DuplicatesExplained
PROPERTIES
    ClaimsRespected
    EventuallyPublished
CHECK_DEADLOCK FALSE

SPECIFICATION FairSpec
CONSTANTS
    a = a
    b = b
    j1 = j1
    Event = {a, b}
    Occurred <- OccurredAt
    Browser = {a}
    LastDay = 1
    DayStart <- Starts
    MaxSkew = 1
    MaxPast = 1
    MaxFuture = 1
    Job = {j1}
    Policies <- AllPolicies
    NoLimit = NoLimit
    MinInboxRetention = 2
    RetentionAlone = TRUE
    MaxNow = 3
    MaxFailures = 1
CHECK_DEADLOCK FALSE
INVARIANTS
    TypeOK
    FloorComplete
    NothingMissed
PROPERTIES
    HistoryKept
    EventuallyCounted

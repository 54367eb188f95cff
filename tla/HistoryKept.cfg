SPECIFICATION Spec
CONSTANTS
    a = a
    b = b
    j1 = j1
    Event = {a, b}
    Occurred <- OccurredAt
    Browser = {a}
    LastDay = 1
    DayStart <- Starts
    MaxSkew = 1
    MaxPast = 1
    MaxFuture = 1
    Job = {j1}
    Policies <- RawPolicy
    NoLimit = NoLimit
    MinInboxRetention = 2
    RetentionAlone = FALSE
    MaxNow = 4
    MaxFailures = 0
CHECK_DEADLOCK FALSE
PROPERTIES
    HistoryKept

SPECIFICATION FairSpec
CONSTANTS
    r1 = r1
    r2 = r2
    r3 = r3
    a = a
    b = b
    x = x
    y = y
    NoPayload = NoPayload
    Request <- Three
    Single <- OnlyThird
    Event = {a, b}
    Payload = {x, y}
    Batch <- Batches
    InitialRows <- EmptyOrUsed
    MaxCalls = 2
    RecordOps = TRUE
    PoolSize = 3
    MaxFailures = 1
    MaxPurges = 1
CHECK_DEADLOCK FALSE
INVARIANTS
    TypeOK
    StoredOnce
    CountersMatchFacts
    NoStandstill
PROPERTIES
    
    EveryRequestEnds

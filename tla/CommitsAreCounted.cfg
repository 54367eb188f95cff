SPECIFICATION FairSpec
CONSTANTS
    r1 = r1
    r2 = r2
    r3 = r3
    a = a
    b = b
    x = x
    y = y
    NoPayload = NoPayload
    Request <- Two
    Single <- None
    Event = {a, b}
    Payload = {x, y}
    Batch <- PlainBatches
    InitialRows <- Empty
    MaxCalls = 2
    RecordOps = TRUE
    PoolSize = 2
    MaxFailures = 0
    MaxPurges = 0
CHECK_DEADLOCK FALSE
PROPERTY CommitsAreCounted

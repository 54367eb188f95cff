SPECIFICATION FairSpec
CONSTANTS
    w1 = w1
    w2 = w2
    r1 = r1
    e1 = e1
    e2 = e2
    x = x
    y = y
    bad = bad
    NoPayload = NoPayload
    None = None
    Worker <- Workers
    Request <- Requests
    Entry <- Entries
    Payload <- Payloads
    Registered <- Good
    Jobs <- JobRecords
    Posts <- JobPosts
    MaxTrouble = 1
CHECK_DEADLOCK FALSE
INVARIANTS
    TypeOK
    OneDeliverer
    
    
PROPERTIES
    SettledStays
    ImplementsTransactionalOutbox
    EventuallySettled

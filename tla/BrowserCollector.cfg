SPECIFICATION Spec
CONSTANTS
    r1 = r1
    r2 = r2
    r3 = r3
    a = a
    b = b
    x = x
    y = y
    NoEnvelope = NoEnvelope
    Request = {r1, r2, r3}
    Event = {a, b}
    Payload = {x, y}
    Body <- Batches
    Adapters = {"memory", "postgres"}
    MaxBatchEvents = 3
    Limits = {1, 2}
    Window = 2
    MaxNow = 2
    MaxFailures = 1
CHECK_DEADLOCK FALSE
SYMMETRY Requests
INVARIANTS
    TypeOK
    AcceptedIsStored
    OneRequestIsFirst
    
    AdmissionsBounded

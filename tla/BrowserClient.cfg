SPECIFICATION Spec
CONSTANTS
    a = a
    b = b
    c = c
    Event <- MixedEvent
    PurposeOf <- MixedPurposeOf
    Legacy <- MixedLegacy
    Toggled <- MeasurementOnly
    MaxEvents = 2
    MaxBatchSize = 2
    MaxEventAge = 0
    MaxRetries = 1
    Transport = "collector"
    HasBeacon = TRUE
    MaxNow = 0
    MaxChain = 1
INVARIANTS
    Accounted
    QueueBounded
    QueueIsItsLoops
    
    UnsentHaveConsent
PROPERTIES
    QuietOnceDestroyed
    ImplementsDelivery

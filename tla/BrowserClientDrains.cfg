SPECIFICATION FairSpec
CONSTANTS
    a = a
    b = b
    c = c
    Event <- PairEvent
    PurposeOf <- PairPurposeOf
    Legacy <- PairLegacy
    Toggled <- AnalyticsOnly
    MaxEvents = 2
    MaxBatchSize = 2
    MaxEventAge = 0
    MaxRetries = 1
    Transport = "custom"
    HasBeacon = FALSE
    MaxNow = 1
    MaxChain = 1
INVARIANTS
    NotStranded
PROPERTIES
    Drains

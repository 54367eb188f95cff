SPECIFICATION Spec
CONSTANTS
    a = a
    b = b
    c = c
    Event <- PairEvent
    PurposeOf <- PairPurposeOf
    Legacy <- NoLegacy
    Toggled <- AnalyticsOnly
    MaxEvents = 2
    MaxBatchSize = 2
    MaxEventAge = 0
    MaxRetries = 1
    Transport = "collector"
    HasBeacon = FALSE
    MaxNow = 0
    MaxChain = 1
INVARIANT RevocationDropsRetries

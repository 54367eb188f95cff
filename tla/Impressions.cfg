SPECIFICATION FairSpec
CONSTANTS
    e1 = e1
    e2 = e2
    o1 = o1
    o2 = o2
    Element = {e1, e2}
    Subject = {"job", "promo"}
    Eligible = {"job"}
    Observation = {o1, o2}
    Surface = {"list"}
    None = None
    Dwell = 2
    Recycles = FALSE
    Remounts = TRUE
    Waits = TRUE
    MaxViews = 2
    MaxFailures = 1
INVARIANTS
    
    PendingHasTimer
PROPERTIES
    OneSecondUninterrupted
    VisibleIsCounted

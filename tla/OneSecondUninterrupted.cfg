SPECIFICATION Spec
CONSTANTS
    e1 = e1
    e2 = e2
    o1 = o1
    o2 = o2
    Element = {e1}
    Subject = {"job"}
    Eligible = {"job"}
    Observation = {o1, o2}
    Surface = {"list"}
    None = None
    Dwell = 1
    Recycles = FALSE
    Remounts = FALSE
    Waits = TRUE
    MaxViews = 2
    MaxFailures = 1
PROPERTY
    OneSecondUninterrupted

SPECIFICATION Spec
CONSTANTS
    c1 = c1
    c2 = c2
    home = home
    None = None
    Call <- Calls
    Path <- Paths
    PathOf <- CallPath
    Inactivity = 1
    MaxAge = 2
    MaxNow = 3
    MaxIds = 2
    MaxChanges = 2
CHECK_DEADLOCK FALSE
INVARIANTS
    ErasedUntilGranted
    
    MarkedWasRecorded
PROPERTIES
    SessionsEnd

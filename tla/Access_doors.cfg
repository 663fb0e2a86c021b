SPECIFICATION AccessFairSpec
CONSTANTS
    Request = {r1, r2, r3}
    Device = {d1}
    Visitor = {r3}
    None = None
    Inactivity = 0
    AccessLife = 1
    Skew = 1
    RefreshLife = 2
    FlagLife = 1
    MaxTime = 2
INVARIANTS
    HandledWasAdmitted
PROPERTIES
    ImplementsSession
    RevokedTokenRefused
    
CHECK_DEADLOCK FALSE

SPECIFICATION Spec
CONSTANTS
    Request = {r1, r2, r3}
    Device = {d1}
    None = None
    Inactivity = 1
    AccessLife = 2
    RefreshLife = 3
    FlagLife = 1
    MaxTime = 3
SYMMETRY Symmetry
INVARIANT RefreshTokenSingleUse
CHECK_DEADLOCK FALSE

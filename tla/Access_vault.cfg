SPECIFICATION AccessSpec
CONSTANTS
    Request = {r1, r2}
    Device = {d1}
    Visitor = {r2}
    None = None
    Inactivity = 1
    AccessLife = 2
    Skew = 1
    RefreshLife = 2
    FlagLife = 1
    MaxTime = 1
PROPERTY LoginOpensVault
CHECK_DEADLOCK FALSE

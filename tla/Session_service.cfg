SPECIFICATION FairSpec
CONSTANTS
    Request = {r1, r2, r3}
    Device = {d1}
    None = None
    Inactivity = 1
    AccessLife = 2
    RefreshLife = 3
    FlagLife = 1
    MaxTime = 3
INVARIANTS
    TokenIdentity
    RevocationAnswered
    IInv
PROPERTIES
    ImplementsContract
    IdleSessionStaysDead
    SpentBuysNothing
    EveryRequestAnswered
CHECK_DEADLOCK FALSE

SPECIFICATION Spec
CONSTANTS
    Request = {r1, r2, r3, r4, r5, r6}
    Limit = 2
    Window = 2
    MaxTime = 2
    MaxRestarts = 1
SYMMETRY Symmetry
INVARIANTS
    LocalQuota
    OverallQuota
    IInv
PROPERTY
    RefusalDeserved
CHECK_DEADLOCK FALSE

SPECIFICATION Spec
CONSTANTS
    Job = {j1, j2}
    Password = {p1}
    Native = TRUE
    None = None
    Call = {c1, c2}
    User = {u1, u2}
    Name = {n1, n2}
    MaxCounter = 1
SYMMETRY Symmetry
INVARIANTS
    SaltFixesVersion
    MemoryRecoverable
    IvCountersFresh
    IInv
PROPERTIES
    NoForeignPlaintext
    WholeItemsReadable
CHECK_DEADLOCK FALSE

SPECIFICATION Spec
CONSTANTS
    Job = {j1}
    Password = {p1}
    Native = TRUE
    None = None
    Call = {c1, c2}
    User = {u1, u2}
    Name = {n1, n2}
    MaxCounter = 2
SYMMETRY Symmetry
INVARIANT StoredIsReadable
CHECK_DEADLOCK FALSE

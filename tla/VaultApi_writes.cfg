SPECIFICATION Spec
CONSTANTS
    Request = {r1, r2, r3}
    b1 = b1
    b2 = b2
    b3 = b3
    i1 = i1
    i2 = i2
    Blob <- MCBlob
    Iv = {i1, i2}
    IvOf <- MCIvOf
    n1 = n1
    n2 = n2
    Name = {n1, n2}
    Payload <- MCPayload
    Malformed = Malformed
    None = None
    Window = 2
    MaxTime = 2
SYMMETRY Symmetry
INVARIANTS
    IvSpacing
    DeletionFinal
    RefusedLeaveNoTrace
    ConflictDeserved
    IInv
PROPERTY
    ImplementsStore
CHECK_DEADLOCK FALSE

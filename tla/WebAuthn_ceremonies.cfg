SPECIFICATION MCSpec
CONSTANTS
    Request = {0, 1, 2, 3, 4}
    User = {u1}
    Credential = {k1, k2}
    Counterless = {k2}
    Enrolled = {0}
    None = None
    MaxSign = 2
INVARIANTS
    OneActiveDevice
    LoginProven
    NewestAnswerAccepted
    IInv
PROPERTIES
    ImplementsCeremonies
    EveryCeremonyAnswered
CHECK_DEADLOCK FALSE

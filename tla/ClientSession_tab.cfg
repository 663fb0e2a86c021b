SPECIFICATION FairSpec
CONSTANTS
    User = {u1, u2}
    Attempt = {a1, a2}
    None = None
    MaxPages = 3
INVARIANTS
    OneLoginPerForm
    StuckOnlyByRetry
    OwnItemsOnScreen
    IInv
PROPERTIES
    OnlyLeftPagesMisfire
    PagesSettle
CHECK_DEADLOCK FALSE

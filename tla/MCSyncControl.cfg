SPECIFICATION FairSpec
CONSTANTS
    Accounts = {a, b}
    Timer = auto
    Handlers = {h1, h2}
    Sessions = {s}
    None = None
    MaxRequests = 3
CHECK_DEADLOCK FALSE
INVARIANTS
    TypeOK
    ResetAlone
    OneOperation
    CancelSticks
PROPERTIES
    IsolatedAccounts
    CancelsItsOwn
    RequestsReturn

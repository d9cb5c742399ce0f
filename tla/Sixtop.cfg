CONSTANTS
    m1 = m1
    m2 = m2
    root = root
    Motes = {m1, m2, root}
    NoMote = NoMote
    Networks <- ChainOrStar
    FreeSlots = {7, 8}
    ListLength = 3
    QueueLength = 3
    TxRetries = 2
    MaxCalls = 2
    MaxLosses = 1
    MaxTimeouts = 1
    MaxSwitches = 1
SPECIFICATION Spec
INVARIANTS SixtopTypeOK WaitsAreGuarded SchedulesAgree
CHECK_DEADLOCK FALSE

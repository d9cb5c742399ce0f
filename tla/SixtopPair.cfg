CONSTANTS
    m1 = m1
    m2 = m2
    root = root
    Motes = {m1, root}
    NoMote = NoMote
    Networks <- PairOnly
    FreeSlots = {7, 8}
    ListLength = 3
    QueueLength = 2
    TxRetries = 2
    MaxCalls = 2
    MaxLosses = 1
    MaxTimeouts = 9
    MaxSwitches = 0
SPECIFICATION Spec
PROPERTY NegotiationEnds
CHECK_DEADLOCK FALSE

CONSTANTS
    a = a
    b = b
    Root = Root
    Motes = {a, b}
    NoMote = NoMote
    Links <- PairAndRoot
    NumRows = 2
    FreeTimers = 3
    QueueLength = 2
    Requests = {1}
    Asked = {a}
    RetryLimit = 1
    MaxChanges = 3
    MaxLosses = 1
SPECIFICATION Spec
INVARIANTS ManagerTypeOK ViewMatches
PROPERTIES RequestsEnd TransfersEnd
CHECK_DEADLOCK FALSE

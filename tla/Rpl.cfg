CONSTANTS
    a = a
    b = b
    root = root
    Motes = {a, b, root}
    Root = root
    NoAddr = NoAddr
    TableSize = 2
    BestCost = 1
    DefaultCost = 2
    MaxRank = 5
    FirstLinks <- Triangle
    MaxChanges = 2
SPECIFICATION Spec
INVARIANTS RplTypeOK RanksFall
PROPERTIES SecondParentByReconnection RoutesSettle
CHECK_DEADLOCK FALSE

SPECIFICATION Spec
CONSTANTS
    a = a
    b = b
    c = c
    Motes = {a, b, c}
    Root = root
    Server = server
    NoHop = nohop
    Origins = {a, c, root}
    Links <- MCLinks
    Buffers = 2
    HopLimit = 3
    ServerHopLimit = 2
    MaxCopies = 1
CHECK_DEADLOCK FALSE
INVARIANT RoutesAgree

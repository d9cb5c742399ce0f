SPECIFICATION FairSpec
CONSTANTS
    a = a
    b = b
    c = c
    Motes = {a, b, c}
    Root = root
    Server = server
    NoHop = nohop
    Origins = {a, c, root}
    Links <- MCLinks
    Buffers = 2
    HopLimit = 3
    ServerHopLimit = 2
    MaxCopies = 2
CHECK_DEADLOCK FALSE
INVARIANT ForwardingTypeOK
INVARIANT PacketsAccounted
PROPERTY TravelEnds

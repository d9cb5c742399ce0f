CONSTANTS
    Neighbors = {n1}
    NoAddr = NoAddr
    Anycast = Anycast
    MaxActiveSlots = 5
    FrameLength = 7
    NumAdv = 1
    NumSharedTxRx = 1
    NumSerialRx = 3
    MaxChanges = 2
    MaxDesyncs = 1
SPECIFICATION EngineSpec
INVARIANTS EngineTypeOK OneMisfirePerChange
PROPERTY EveryCellServed

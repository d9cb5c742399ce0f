CONSTANTS
    Neighbors = {n1, n2}
    NoAddr = NoAddr
    Anycast = Anycast
    MaxActiveSlots = 6
    FrameLength = 7
    NumAdv = 1
    NumSharedTxRx = 1
SPECIFICATION Spec
INVARIANTS TypeOK RowsLinked OffsetsDistinct RingSorted BootCellsKept
PROPERTY ImplementsCellSet
CHECK_DEADLOCK FALSE

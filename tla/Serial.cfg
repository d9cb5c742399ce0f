SPECIFICATION SerialFairSpec
CONSTANTS
    RingSize = 10
    InSize = 3
    Body = 2
    SlotBytes = 6
    Reports = 2
    Slots <- MCSlots
    Commands <- MCCommands
INVARIANT SerialTypeOK
INVARIANT FramesAccounted
PROPERTY SerialProgress

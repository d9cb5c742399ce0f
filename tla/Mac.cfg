CONSTANTS
    Frame <- OneOfEach
    QueueLength = 2
    TxRetries = 2
    MinBE = 1
    MaxBE = 2
    MaxPackets = 3
    MaxDesyncs = 2
SPECIFICATION Spec
INVARIANTS MacTypeOK HoldsWhatItOwns EveryPacketHasTask RetriesCountAttempts
PROPERTIES BuffersRecycled Rejoins

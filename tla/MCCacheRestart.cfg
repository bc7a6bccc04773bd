SPECIFICATION FairSpec
CONSTANTS
    Associativity = 2
    SetCount = 1
    ReplacementPolicy = "RP_LRU"
    BlockSize = 1
    BLOCK_ITEM_SIZE = 2
    MemBlocks = 3
    Val <- Bytes
    Enabled = TRUE
    WritePolicy = "WP_BACK"
    UncachedStart = 100
    UncachedLast = 110
    Requests <- ByteRequests
    DebugRequests <- NoDebug
    DeviceAddrs <- NoDevice
    Image <- ImageZero
    ProgramLoaded = TRUE
    AllowRestart = TRUE
    CounterModulus = 1
    AccessPenR = 10
    AccessPenW = 10
    AccessPenB = 2
    UseBound = 0
    CounterBound = 1
PROPERTY Transparent

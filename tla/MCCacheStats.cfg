CHECK_DEADLOCK FALSE
SPECIFICATION FairSpec
CONSTANTS
    Associativity = 1
    SetCount = 2
    ReplacementPolicy = "RP_RAND"
    BlockSize = 2
    BLOCK_ITEM_SIZE = 1
    MemBlocks = 3
    Val <- Bytes
    Enabled = TRUE
    WritePolicy = "WP_BACK"
    UncachedStart = 100
    UncachedLast = 110
    Requests <- BlockRequests
    DebugRequests <- NoDebug
    DeviceAddrs <- NoDevice
    Image <- ImageZero
    ProgramLoaded = TRUE
    AllowRestart = FALSE
    CounterModulus = 64
    AccessPenR = 10
    AccessPenW = 10
    AccessPenB = 2
    UseBound = 0
    CounterBound = 11
INVARIANTS StatisticsAddUp
PROPERTIES ContentChangeCounted

SPECIFICATION Spec
CONSTANTS
    Associativity = 2
    SetCount = 1
    ReplacementPolicy = "RP_LFU"
    BlockSize = 1
    BLOCK_ITEM_SIZE = 1
    MemBlocks = 5
    Val <- Bytes
    Enabled = TRUE
    WritePolicy = "WP_THROUGH_NOALLOC"
    UncachedStart = 4
    UncachedLast = 4
    Requests <- UncachedRequests
    DebugRequests <- UncachedDebug
    DeviceAddrs <- OneRegister
    Image <- ImageZero
    ProgramLoaded = TRUE
    AllowRestart = TRUE
    CounterModulus = 1
    AccessPenR = 10
    AccessPenW = 10
    AccessPenB = 2
    UseBound = 2
    CounterBound = 1
INVARIANT OnlyInvalidHaveZeroStat
PROPERTY Transparent

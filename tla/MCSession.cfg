SPECIFICATION Spec
CONSTANTS
    EndPc = 2
    MaxMachines = 2
    MaxBuilds = 2
    MaxDialogs = 2
    FileNames = {"f", "l"}
    Example = ":/ex"
    Canon <- MCCanon
    MaxEditors = 2
    MaxEdits = 2
    OsFlags = {"enable", "exception_stop"}
    Times = {0, 1, 5}
    CacheSizes = {1, 8}
    Policies = {"LRU"}
    WritePolicies = {"BACK"}
    MaxChanges = 3
    CliOptions <- MCCliOptions
    MemBytes = 16
    RowCount = 24
    Height = 2
    CellCounts = {1, 2}
    Targets = {0, 3, 6, 8, 52, 56, 96, 200}
    Stages = {"fetch", "execute"}
    MaxMoves = 3
    SymbolNames = {"a", "b"}
    SymbolValues = {0, 4}
    MaxSymbols = 4
    GpNames = {"r1", "sp"}
    SpName = "sp"
    Cop0Values <- MCCop0Values
    MaxOps = 3
INVARIANTS WindowMatchesMachine EditorsConsistent DialogConsistent CommandLineTruthful ViewsConsistent SymbolsLive
PROPERTIES RunsUntilStopped ViewSettles NoEditLost
CHECK_DEADLOCK FALSE

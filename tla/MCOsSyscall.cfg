CONSTANTS
    WordBits = 16
    HostFds = {5, 6}
    Programs <- MCPrograms
    Vectors <- MCVectors
    Paths <- MCPaths
    Lengths <- MCLengths
    MemSize = 4
    MaxCount = 2
    MaxSlots = 5
    MaxMaps = 3
SPECIFICATION Spec
INVARIANTS ResourcesApart CallsReported
CHECK_DEADLOCK FALSE

CONSTANTS
    Devices <- MCDevices
    Mappings <- MCMappings
    MEMORY_SECTION_SIZE = 4
    MEMORY_TREE_ROW_SIZE = 2
    MEMORY_TREE_DEPTH = 2
    FbWidth = 2
    FbHeight = 2
    Segments <- MCSegments
    Uses <- MCUses
    CounterMod = 2
SPECIFICATION Spec
INVARIANTS BusSound
PROPERTIES RamIsFlat DevicesFaithful
CHECK_DEADLOCK FALSE

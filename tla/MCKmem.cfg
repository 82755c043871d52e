CONSTANTS
    FRAME_SIZE = 4
    ADDR_LIMIT = 42
    MemoryMaps <- MCMemoryMaps
    HHDM_OFFSET = 10
    HEAP_START = 64
    HEAP_SIZE = 10
    Walk <- MCWalk
    ExistingTables <- MCExistingTables
    PagesInUse <- MCPagesInUse
SPECIFICATION KmemSpec
INVARIANTS FramesUsable NeverTwice NoneOnlyWhenEmpty HeapBacked FramesExclusive ReportAgrees
PROPERTY NoneIsFinal
CHECK_DEADLOCK FALSE

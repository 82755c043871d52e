CONSTANTS
    MIN_ORDER = 1
    MAX_ORDER = 4
    HEAP_START = 16
    HEAP_SIZE = 19
    NODE_SIZE = 2
    LIST_NODE_SIZE = 4
    LIST_NODE_ALIGN = 2
    Layouts <- MCLayouts
SPECIFICATION LockedSpec
INVARIANTS TypeOK NoOverlap NoLeak FullyCoalesced NullOnlyWhenExhausted ListPartition
PROPERTIES ImplementsHeap

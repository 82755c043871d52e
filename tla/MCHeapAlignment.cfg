CONSTANTS
    MIN_ORDER = 1
    MAX_ORDER = 4
    HEAP_START = 4
    HEAP_SIZE = 17
    NODE_SIZE = 2
    LIST_NODE_SIZE = 4
    LIST_NODE_ALIGN = 2
    Layouts <- MCLayouts
SPECIFICATION LockedSpec
INVARIANT AlignedToLayout

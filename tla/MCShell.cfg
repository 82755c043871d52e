CONSTANTS
    Names = {"a", "b"}
    Paths <- MCPaths
    Contents = {"x"}
    EMPTY_FILE = ""
    MAX_ENTRIES = 4
    HEAP_START = 160
    HEAP_SIZE = 4
    USIZE_BITS = 8
    USIZE_MAX = 255
    DEFAULT_ALIGN = 8
    Numerals <- MCNumerals
    MAX_LIVE = 2
    MAX_STRAY = 1
SPECIFICATION ShellSpec
INVARIANTS KindsDisjoint Rooted ListingUsable HintWordsFree
PROPERTIES ImplementsTree UsesHeapLegally
CONSTRAINT FilesOrHeap

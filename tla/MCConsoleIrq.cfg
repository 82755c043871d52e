SPECIFICATION BootSpec
CONSTANTS
    COLUMNS = 4
    ROWS = 3
    MAX_ROWS = 3
    INPUT_SIZE = 4
    Glyphs <- MCGlyphs
    Colors <- MCColors
    BLACK = "black"
    WHITE = "white"
    GREEN = "green"
    BootText <- MCBootText
    MAX_KEYS = 3
INVARIANTS CursorNearby ColorKept
PROPERTY NewlineRecovers

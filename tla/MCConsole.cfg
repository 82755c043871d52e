SPECIFICATION FairSpec
CONSTANTS
    COLUMNS = 5
    ROWS = 2
    MAX_ROWS = 2
    INPUT_SIZE = 6
    Glyphs <- MCGlyphs
    Colors <- MCColors
    BLACK = "black"
    WHITE = "white"
    Texts <- MCTexts
    MAX_PRINTS = 1
INVARIANTS
    ConTypeOK
    EchoMatches
    TextSynced
PROPERTY
    PromptReturns

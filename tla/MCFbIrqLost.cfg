SPECIFICATION IrqSpec
CONSTANTS
    WIDTH = 2
    HEIGHT = 1
    PITCH = 3
    USIZE_MAX = 7
    RED_SHIFT = 4
    GREEN_SHIFT = 2
    BLUE_SHIFT = 0
    Colors <- MCColors
    BLACK <- MCBlack
    GARBAGE = 7777
    Xs <- MCXs
    Ys <- MCYs
    Sizes <- MCSizes
INVARIANTS
    NothingToPresent

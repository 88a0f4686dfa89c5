CONSTANTS
    CONSOLE_WIDTH = 4
    CONSOLE_HEIGHT = 3
    TAB = 2
    Char = {"space"}

SPECIFICATION PSpec

CHECK_DEADLOCK FALSE

INVARIANTS
    LittleOutside
    PanicReadable

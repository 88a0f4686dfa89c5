CONSTANTS
    CONSOLE_WIDTH = 3
    CONSOLE_HEIGHT = 3
    TAB = 2
    Char = {"x"}

SPECIFICATION Spec

INVARIANTS
    InsideBuffer

PROPERTIES
    IsTerminal

CONSTANTS
    WORD = 32
    SHORT = 8
    PTR_DIGITS = 2
    Letter = {97, 98}
    MaxLen = 2
    Arg = {0, 9}
    FieldWidth = {5}

SPECIFICATION Spec

INVARIANTS
    WordsWhole

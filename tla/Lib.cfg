CONSTANTS
    WORD = 32
    SHORT = 8
    PTR_DIGITS = 2
    Letter = {65, 97, 98, 200}
    MaxLen = 3
    Arg = {0, 9, 15, 16, 31, 33, 512, 1023}
    FieldWidth = {5}

SPECIFICATION Spec

INVARIANTS
    NumberReadsBack
    PrintFits
    ReadsBack
    SearchesRight
    ComparesRight
    CopiesRight

CONSTANTS
    RBUFSIZE = 2
    DumpSize = 4
    NUL = 0
    Space = 32
    EqualsSign = 61
    MaxTokens = 2
    ROWS = 2
    COLUMNS = 3
    CNT = 3
    FIVE = 2
    Bits = 5
    CharBits = 2
    MICROS = 4
    Chars <- MCChars
    MaxLen = 6
SPECIFICATION Spec
INVARIANTS CodesInvert CutsLoseNothing OptionsKept NumbersExact
CHECK_DEADLOCK FALSE

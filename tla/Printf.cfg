\* Numbers of 3, 4, 6 and 9 bits stand for those of 8, 16, 32 and 64.
CONSTANTS
    BYTE = 3
    HALF = 4
    INT = 6
    LONG = 9
    MAX_WIDTH = 20
    MAX_PRECISION = 20
    WRAP = 24
    TMP = 10
    Formatted <- MCFormatted
SPECIFICATION Spec
INVARIANT Rendered
INVARIANT TakesItsOwn

\* Two lines of two characters and sequences of at most two parameters, which
\* wrap around at 64, above every code the terminal knows.
CONSTANTS
    Cols = 2
    Rows = 2
    NPAR = 2
    UINT = 64
    Chars = {"a", "CR", "LF", "ESC", "[", ";", "m", "0", "4"}
    MaxFed = 6
SPECIFICATION Spec
INVARIANT Window
INVARIANT Swallowed
CHECK_DEADLOCK FALSE

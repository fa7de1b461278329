\* The objects of Slab.cfg, of which one is alone in its block.
CONSTANTS
    PAGE_SIZE = 1024
    MAX_ORDER = 3
    CACHE = 80
    SLAB = 48
    BUF = 24
    WORD = 8
    CacheLine = 64
    Users <- MCUsers
    MaxCaches = 5
    MaxBlocks = 7
SPECIFICATION Spec
INVARIANT BusyHasRoom
CHECK_DEADLOCK FALSE

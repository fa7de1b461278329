\* The structures of the code in a page of 1 KiB.  Four kinds of objects: ten
\* to a small slab, with alignment, eight and three to a large one, and one alone.
CONSTANTS
    PAGE_SIZE = 1024
    MAX_ORDER = 3
    CACHE = 80
    SLAB = 48
    BUF = 24
    WORD = 8
    CacheLine = 64
    Users <- MCUsers
    MaxCaches = 5
    MaxBlocks = 7
SPECIFICATION Spec
INVARIANT Apart
INVARIANT ListsRight
INVARIANT OwnObjects
INVARIANT OneOpenSlab
PROPERTY ImplementsHeap
CHECK_DEADLOCK FALSE

\* Alloc and free over two zones, one of them neither aligned nor a power of
\* two, after a handover with two reserved pages; the counter of
\* _page_reserve happens to start at 0.
CONSTANTS
    MAX_ORDER = 4
    BlockPages <- MCBlockPages
    ZoneCount = 2
    ZoneBase <- MCZoneBase
    ZoneSize <- MCZoneSize
    z1Base = 6
    z1Size = 10
    z2Base = 18
    z2Size = 2
    TakenBgn = 6
    TakenEnd = 9
    StartOrders = {0}
SPECIFICATION Spec
INVARIANT BitmapsAgree
INVARIANT NothingLost
INVARIANT BusyCounts
INVARIANT FreeNeverAsserts
INVARIANT LiveDisjoint
PROPERTY ImplementsPageAllocator

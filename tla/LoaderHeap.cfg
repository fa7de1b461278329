\* Room for two large chunks of one bin, not for three, or for six small ones;
\* a rest of 4 bytes is too short to split off.
CONSTANTS
    ArenaStart = 8
    ArenaEnd = 640
    Requests = {90, 100, 256, 260}
SPECIFICATION Spec
INVARIANT Tiling
INVARIANT TagsAgree
INVARIANT NoFreeNeighbours
INVARIANT SmallRings
INVARIANT LargeFound
PROPERTY ImplementsTags
PROPERTY ImplementsHeap
CHECK_DEADLOCK FALSE

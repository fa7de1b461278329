\* Room for three large chunks of one bin, two of them equally long, between
\* small ones.
CONSTANTS
    ArenaStart = 8
    ArenaEnd = 920
    Requests = {16, 256, 288}
SPECIFICATION Spec
INVARIANT LargeBinsFree
CHECK_DEADLOCK FALSE

\* Machines as in Loader.cfg; memory is never short and the client does not call.
CONSTANTS
    SECT = 8
    KB = 16
    TABLE = 3
    ENTRY = 1
    SUPER = 3
    WORD = 4
    DESC = 2
    INODE = 4
    FAST = 6
    Cuts = {1, 20}
    W32 = 4096
    Uuids = {"u", "v", "w", "x"}
    Overruns = {0}
    Strays = {}
    Machines <- MCMachines
    MaxStarved = 0
    Names <- MCNames
    Holds <- MCHolds
    Sizes = {0}
    Offsets = {0}
    MaxCalls = 0
SPECIFICATION Spec
INVARIANT JumpsWhole
CHECK_DEADLOCK FALSE

\* Three machines whose sectors can all be read and seven with a bad one.
CONSTANTS
    SECT = 8
    KB = 16
    TABLE = 3
    ENTRY = 1
    SUPER = 3
    WORD = 4
    DESC = 2
    INODE = 4
    FAST = 6
    Cuts = {1, 20}
    W32 = 4096
    Uuids = {"u", "v", "w", "x"}
    Overruns = {0, 2}
    Strays = {TRUE, FALSE}
    Machines <- MCMachines
    MaxStarved = 1
    Names <- MCNames
    Holds <- MCHolds
    Sizes = {7, 600}
    Offsets = {3, 500}
    MaxCalls = 2
SPECIFICATION Spec
INVARIANT MountedReal
INVARIANT OpensRight
INVARIANT ReadsRight
PROPERTY Nearer
PROPERTY Settles
CHECK_DEADLOCK FALSE

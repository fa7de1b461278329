\* Tables of five entries; up to 63 pages of memory, some too small for the
\* maps, and regions that begin or end inside a page.
CONSTANTS
    EN = 5
    DirectEntry = 1
    VmapEntry = 2
    Frames <- MCFrames
    Layouts <- MCLayouts
    MAX_ORDER = 3
    PageBytes = 16
    DescBytes = 3
    LowMemory <- MCLowMemory
    KernelSizes = {3, 6}
    Offsets = {1}
    Ends = {37, 52}
    TopMemory <- MCTopMemory
SPECIFICATION Spec
INVARIANT TablesApart
INVARIANT EverythingMapped
PROPERTY ImplementsAddressSpace
CHECK_DEADLOCK FALSE

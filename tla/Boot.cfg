\* Maps of up to three firmware entries, of 1 to 60 addresses, with a kernel
\* of two or six addresses and pages of two.
CONSTANTS
    E820_ENTRIES = 7
    FirmwareMaps <- MCFirmwareMaps
    KernelBase = 4
    KernelSizes = {4, 8}
    FirstPage = 2
    Bases = {0, 9, 12}
    Sizes = {1, 5, 60}
    Types = {1, 2}
    MaxEntries = 3
    PAGE = 2
    TOP = 128
    ZonesMax = 5
    MAX_ORDER = 3
    DmaEnd = 12
    Dma32End = 62
    StarterSize = 2
    BssPages = {1, 2, 3}
    EN = 8
    IdentityEnd = 42
SPECIFICATION BootSpec
INVARIANT WithinArray
INVARIANT DisjointFirmware
INVARIANT ZonesPartition
INVARIANT KernelApart
INVARIANT GivenUsable
INVARIANT ReportExact
PROPERTY NeverDowngraded
PROPERTY Stops
CHECK_DEADLOCK FALSE

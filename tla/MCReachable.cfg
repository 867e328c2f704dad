CONSTANTS
    MaxTasks = 3
    BootTasks = 1
    MaxPid = 4
    ExitCodes = {0}
    PhysPages = 23
    Mapped = 22
    KernelTables = 1
    RegionPages = 2
    PageSize = 2
    HeapLimit = 6
    Images = {1, 2}
    BootImage = 1
    Deltas = {1, 3, 6}
SPECIFICATION MemSpec
INVARIANTS
    PagesReachable
CHECK_DEADLOCK FALSE
VIEW MemView

CONSTANTS
    Alignment = 2
    WordMod = 128
    HeapLimit = 24
    Sizes = {0, 1, 3, 6, 66}
    Counts = {2}
    Steps = {2}
SPECIFICATION MallocSpec
INVARIANTS
    BlocksTile
    FreeListExact
    RequestHonoured
CHECK_DEADLOCK FALSE

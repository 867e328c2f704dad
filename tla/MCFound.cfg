CONSTANTS
    TotalClusters = 6
    Slots = 4
    Names <- McNames
    Valid83 = {}
    LfnCount <- McLongLfnCount
    OccursIn <- McOccursIn
    Programs = {p1, p2}
    MaxFd = 4
    FilePaths <- McRootPaths
    DirPaths <- McDirPaths
    DeletePaths = {}
    PathLen <- McLongPathLen
    Flags <- McCreat
    Bytes = {1, 2, 3}
    Texts <- McShortTexts
    ReadSizes = {6}
    MaxOffset = 6
    MaxOpens = 4
SPECIFICATION McSpec
INVARIANTS
    OpenFilesFound
CHECK_DEADLOCK FALSE

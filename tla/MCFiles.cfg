CONSTANTS
    TotalClusters = 6
    Slots = 4
    Names <- McNames
    Valid83 <- McValid83
    LfnCount <- McLfnCount
    OccursIn <- McOccursIn
    Programs = {p1, p2}
    MaxFd = 4
    FilePaths <- McFilePaths
    DirPaths <- McDirPaths
    DeletePaths <- McDeletePaths
    PathLen <- McPathLen
    Flags <- McFlags
    Bytes = {1, 2, 3}
    Texts <- McTexts
    ReadSizes = {6}
    MaxOffset = 6
    MaxOpens = 4
SPECIFICATION McSpec
INVARIANTS
    FilesTypeOK
    ReferencesLive
    ChainsSeparate
    ReadsChain
    ReadBack
    SavedInFullSector
    OpenFilesFound
PROPERTIES
    ImplementsObjects
VIEW FilesView
SYMMETRY ProgramSymmetry
CHECK_DEADLOCK FALSE

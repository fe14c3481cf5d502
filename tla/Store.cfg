SPECIFICATION StoreSpec
CONSTANTS
    Disks <- MCDisks
    MaxCrashes = 1
    placeA = placeA
    placeB = placeB
    placeC = placeC
    MaxTime = 3
    Nothing = Nothing
    Books <- MCBooks
    PageCount = 3
    MaxVisits = 2
    MaxMoves = 4
    MaxLoads = 2
    Keep = Keep
    LibraryTables <- MCLibraryTables
    CvTables <- MCCvTables
    RawPaths <- MCRawPaths
    PathOrder <- MCPathOrder
    Folders <- MCFolders
    FirstHistories <- MCHistories
    BrowsedPlaces <- MCPlaces
    Pinned <- MCPinned
    Debounce = 1
    MinInterval = 2
    MaxMarks = 2
    MaxEdits = 1
    Configs <- MCConfigs
CHECK_DEADLOCK FALSE
INVARIANTS
    UpgradesSafe
    HistoryKept
    ListsTrue
    NextAsListed
    ShownIsRoute
    IntentsHeard
    EndsTrue
PROPERTY FlowEnds

SPECIFICATION RemoteSpec
CONSTANTS
    p = p
    q = q
    huge = huge
    one = one
    two = two
    Nil = Nil
    SizeOf <- MCSizeOf
    ImageSize <- MCImageSize
    Readers <- MCTasks
    Clearers <- MCClearers
    FileSize = 5
    BlockSize = 2
    CapBytes = 4
    Buffers <- MCBuffers
    Targets <- MCTargets
    MaxClears = 1
    Calls <- MCTasks
    Shares <- MCShares
    Initials <- MCInitials
    Paths <- MCPaths
    Permits = 1
    MaxOpened = 2
    MaxEdits = 0
    MaxTroubles = 1
CHECK_DEADLOCK FALSE
INVARIANTS
    ReadsExact
    CallsReachTheirFile
PROPERTIES
    NobodyWaitsForEver

SPECIFICATION Spec
CONSTANTS
    p = p
    q = q
    one = one
    two = two
    Nil = Nil
    None = None
    Pages <- MCPages
    SizeOf <- MCSizeOf
    Cap = 3
    LocalPages = {}
    Tasks <- MCTasks
    MaxEdits = 1
    Sessions <- MCSessions
    PagesShown <- MCShown
    Accounts <- MCAccounts
    Hex <- MCHex
    Headers <- MCHeaders
    Folder <- MCFolder
    Children <- MCChildren
    Spellings <- MCSpellings
    Images <- MCImages
    Widths <- MCWidths
    Windows <- MCWindows
    Supported <- MCSupported
    MaxEpoch = 3
    MaxOff = 1
    Archives <- MCShelf
    Coders <- MCCoders
    Bindings <- MCPairs
    Programs <- MCCode
CHECK_DEADLOCK FALSE
INVARIANTS
    DownloadsSound
    PagesExact
    ServersSeenThrough
    ThumbnailsFit
    HeaderDecoded
PROPERTIES
    ImplementsByteLru
    BeginsForNewest
    BackendsAgree

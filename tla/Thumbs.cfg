SPECIFICATION Spec
CONSTANTS
    r1 = r1
    r2 = r2
    w1 = w1
    SomeAsks <- MCSomeAsks
CHECK_DEADLOCK FALSE
PROPERTIES
    EvictionExact
    MoveLosesNothing
    ThumbnailsEnd

SPECIFICATION Spec
CONSTANTS
    None = None
    l1 = l1
    r1 = r1
    a1 = a1
    Locals = {l1}
    Remotes = {r1}
    Archives = {a1}
    Dir = dir
    FirstPlaces <- MCFirst
    FirstBoot = 2
    MaxOpens = 2
    MaxMoves = 1
    MaxReloads = 1
    MaxListErrors = 1
INVARIANTS
    SpinnerHasOwner
    AbandonedIsCancelled
    SessionIsOurs
PROPERTIES
    NoHijack
CHECK_DEADLOCK FALSE

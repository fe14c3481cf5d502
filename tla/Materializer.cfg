SPECIFICATION Spec
CONSTANTS
  Keys = {k}
  Callers = {c1, c2}
  Owners = {o1}
  Clears = {}
  Size <- MCSize
  Rounds = 2
  MaxVersion = 2
  MaxEpoch = 1
  MaxCrashes = 1
INVARIANTS FreshMeansContent ForcedOutlivesWindow
SYMMETRY Symmetry
CHECK_DEADLOCK FALSE

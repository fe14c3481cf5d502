SPECIFICATION Spec
CONSTANTS
  Keys = {k}
  Callers = {c1}
  Owners = {o1, o2}
  Clears = {x1}
  Size <- MCSmall
  Rounds = 1
  MaxVersion = 1
  MaxEpoch = 0
  MaxCrashes = 0
INVARIANTS WipeIsExclusive ClearIsFinal
SYMMETRY Symmetry
CHECK_DEADLOCK FALSE

SPECIFICATION FairSpec
CONSTANTS
  Keys = {k}
  Callers = {c1, c2}
  Owners = {o1}
  Clears = {}
  Size <- MCSmall
  Rounds = 2
  MaxVersion = 1
  MaxEpoch = 0
  MaxCrashes = 0
PROPERTIES CallsReturn
CHECK_DEADLOCK FALSE

SPECIFICATION FairSpec
CONSTANTS
  Calls = {c1, c2}
  zip = zip
  seven = seven
  rar = rar
  Archives = {zip, seven, rar}
  About <- Shelf
  right = right
  wrong = wrong
  Guesses = {right, wrong}
  None = None
  Budget = 3
  FormatPermits <- Permits
  LruCapacity = 1
  MaxClears = 1
INVARIANTS LimitIsReal StoresTrue
PROPERTY CallsEnd
CHECK_DEADLOCK FALSE

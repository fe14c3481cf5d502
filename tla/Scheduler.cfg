SPECIFICATION Spec
CONSTANTS
  big = big
  Keys = {big, a, b}
  Waiters = {w1, w2, w3}
  Priorities = {0, 3}
  EstMemory <- MCMixed
  Limits = {1, 2}
  Budgets = {2}
  MaxEpoch = 2
INVARIANTS TypeOK AccountsExact EveryWaiterTold
PROPERTIES QueueServed ImplementsSingleFlight
SYMMETRY Symmetry

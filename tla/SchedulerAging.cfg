SPECIFICATION FairSpec
CONSTANTS
  big = big
  Keys = {big, a, b}
  Waiters = {w1, w2, w3}
  Priorities = {0, 3}
  EstMemory <- MCUniform
  Limits = {1}
  Budgets = {1}
  MaxEpoch = 1
PROPERTIES TasksGetOn

SPECIFICATION Spec
CONSTANTS
  i1 = i1
  i2 = i2
  c1 = c1
  c2 = c2
  Instance = {i1, i2}
  Caller = {c1, c2}
  NoCaller = NoCaller
  Slots = {1}
  LeaseTicks = 2
  RetryAfter = {1, 2}
  CacheTicks = 2
  EmptyTicks = 1
  MaxTime = 3
  Budgets <- Mixed
SYMMETRY Symmetry
INVARIANTS CooldownRespected SpendClosedOnce
CHECK_DEADLOCK FALSE

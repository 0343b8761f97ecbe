SPECIFICATION MCSpec
CONSTANTS
  w1 = w1
  w2 = w2
  a = a
  b = b
  Worker = {w1, w2}
  Place = {a, b}
  Edits = TRUE
  MaxGen = 2
  MaxRev = 2
INVARIANTS SpendIsAsked DetailsOfPlace
PROPERTIES EditsKept PendingResolves
CHECK_DEADLOCK FALSE

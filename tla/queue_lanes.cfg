SPECIFICATION Safety
CONSTANTS
  j1 = j1
  j2 = j2
  u1 = u1
  w1 = w1
  w2 = w2
  Job = {j1, j2}
  User = {u1}
  UserOf <- OneUser
  Slot = {w1, w2}
  NoSlot = NoSlot
  NoJob = NoJob
  QueueTicks = 1
  ActiveTicks = 1
  GraceTicks = 0
  LeaseTicks = 2
  UserLimit = 2
  GlobalSlots = 2
  Fair = TRUE
  PromptClaim = TRUE
SYMMETRY Symmetry
INVARIANTS OneAttemptPerAccount

SPECIFICATION Safety
CONSTANTS
  j1 = j1
  j2 = j2
  u1 = u1
  w1 = w1
  w2 = w2
  Job = {j1, j2}
  User = {u1}
  UserOf <- OneUser
  Slot = {w1, w2}
  NoSlot = NoSlot
  NoJob = NoJob
  QueueTicks = 1
  ActiveTicks = 2
  GraceTicks = 0
  LeaseTicks = 2
  UserLimit = 1
  GlobalSlots = 1
  Fair = FALSE
  PromptClaim = TRUE
SYMMETRY Symmetry
INVARIANTS OutstandingWithinLimit OneRunner ReportMatchesVerdict AttemptsWithinSlots

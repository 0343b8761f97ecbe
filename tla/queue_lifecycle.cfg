SPECIFICATION Spec
CONSTANTS
  j1 = j1
  j2 = j2
  u1 = u1
  w1 = w1
  w2 = w2
  Job = {j1}
  User = {u1}
  UserOf <- OneUser
  Slot = {w1, w2}
  NoSlot = NoSlot
  NoJob = NoJob
  QueueTicks = 3
  ActiveTicks = 1
  GraceTicks = 0
  LeaseTicks = 1
  UserLimit = 1
  GlobalSlots = 1
  Fair = TRUE
  PromptClaim = FALSE

PROPERTIES LifecycleSpec

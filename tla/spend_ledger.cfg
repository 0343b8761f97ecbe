SPECIFICATION LedgerSpec
CONSTANTS
  c1 = c1
  c2 = c2
  engine = engine
  owner = owner
  NoCeiling = NoCeiling
  Idle = Idle
  Dim = {engine, owner}
  DimsOf <- MCDimsOf
  Reports <- MCReports
  Call = {c1}
  Ceilings = {2}
  Journal = TRUE
INVARIANTS CountersMatchLedger NothingConfirmedIsLost
PROPERTIES SpendIsFinal TotalsCatchUp
CHECK_DEADLOCK FALSE

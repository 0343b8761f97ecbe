SPECIFICATION Spec
CONSTANTS
  p1 = p1
  p2 = p2
  j1 = j1
  j2 = j2
  NoJob = NoJob
  NoCount = NoCount
  List = {l1}
  Pin = {p1, p2}
  Job = {j1, j2}
  MaxCount = 2
SYMMETRY Symmetry
INVARIANTS LockCoversWork StagesHold
PROPERTIES MembersFollowClaims MigrationKeepsOverrides

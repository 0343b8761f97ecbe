SPECIFICATION MigrationSpec
CONSTANTS
  s1 = s1
  kyoto = kyoto
  taipei = taipei
  f1 = f1
  f2 = f2
  r1 = r1
  r2 = r2
  Pins = {1, 2}
  Runner = {r1, r2}
  PageSize = 1
  Sources = {s1}
  Cities = {kyoto, taipei}
  Trigger = {f1, f2}
  MAX_ATTEMPTS = 2
  MaxCommits = 3
  MaxAccounts = 2
  Budgets <- Merged
SYMMETRY Symmetry
INVARIANTS TotalsMatch SettledAgrees LastSaveIsLatest NothingDropped CheckpointCovers ReadyIndexComplete
CHECK_DEADLOCK FALSE

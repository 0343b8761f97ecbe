SPECIFICATION Spec
CONSTANTS
  a = a
  b = b
  r1 = r1
  r2 = r2
  Docs = {1, 2, 3}
  Keys = {a, b}
  Vague = {b}
  Run = {r1, r2}
  NoRun = NoRun
  PageSize = 2
  LOCK_STALE = 4
  LOCK_SAFETY_MARGIN = 3
  CALL_TIMEOUT = 1
  Delay = 1
  MaxTime = 5
  Scenarios <- Scenes
INVARIANTS ChainVisitsAll OneSpender
PROPERTIES EditsPrevail
CHECK_DEADLOCK FALSE

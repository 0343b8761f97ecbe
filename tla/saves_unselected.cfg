SPECIFICATION Spec
CONSTANTS
  a = a
  b = b
  Places = {a, b}
  Links = {"post","maps"}
  MapsLinks = {"maps"}
  MaxJobs = 3
  Scenarios <- Interrupted
SYMMETRY Symmetry
CHECK_DEADLOCK FALSE
INVARIANT UnselectedStaysUnsaved

SPECIFICATION Spec
CONSTANTS
  a = a
  b = b
  Places = {a, b}
  Links = {"post","maps"}
  MapsLinks = {"maps"}
  MaxJobs = 3
  Scenarios <- Saving
SYMMETRY Symmetry
CHECK_DEADLOCK FALSE
INVARIANT OnePinPerPlace
INVARIANT OutcomesTruthful
INVARIANT SelectionNotForgotten
INVARIANT DismissalPreserved
INVARIANT RetrySeesWhatWasSaved

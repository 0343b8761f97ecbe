SPECIFICATION Spec
CONSTANTS
  p1 = p1
  p2 = p2
  NoProc = NoProc
  Proc = {p1, p2}
  MaxGen = 2
  Media = TRUE
  Calls = {"normal", "refresh", "retry"}
  Departures = {p1}
INVARIANTS NoStaleAuthority NoSilentRespend OneSuccessor StaleTokenSpendsNothing
PROPERTIES OutcomeFinal FollowersAnswered

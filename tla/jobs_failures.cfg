\* One job; processes die, sockets break and answers come too late.
CONSTANTS
  j1 = j1  j2 = j2  p1 = p1  s1 = s1  s2 = s2
  Job = {j1}
  Project = {p1}
  Socket = {s1}
  Request = {r1, r2}
  None = None
  Usage <- UsageOne
  InitialSeconds <- SecondsOne
  LowThreshold = 2
  Route <- RouteOne
  TopUpSeconds = 1
  MaxTopUps = 1
  MaxFailures = 2
  CanTimeOut = TRUE
SPECIFICATION FairSpec
INVARIANTS BilledAtMostOnce
PROPERTIES FinishedRunIsBilled
CHECK_DEADLOCK FALSE

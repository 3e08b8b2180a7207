\* Two jobs of one project, each with a socket for its events.
CONSTANTS
  j1 = j1  j2 = j2  p1 = p1  s1 = s1  s2 = s2
  Job = {j1, j2}
  Project = {p1}
  Socket = {s1, s2}
  Request = {r1}
  None = None
  Usage <- UsageOne
  InitialSeconds <- SecondsOne
  LowThreshold = 2
  Route <- RouteOwn
  TopUpSeconds = 1
  MaxTopUps = 1
  MaxFailures = 0
  CanTimeOut = FALSE
SPECIFICATION Spec
INVARIANTS TypeOK RecordedDurationIsBilled DepletedAlertOnce SettledStatus
PROPERTIES LedgerSpec
CHECK_DEADLOCK FALSE

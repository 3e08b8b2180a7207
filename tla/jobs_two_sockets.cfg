\* A job's events come over two sockets of its backend.
CONSTANTS
  j1 = j1  j2 = j2  p1 = p1  s1 = s1  s2 = s2
  Job = {j1}
  Project = {p1}
  Socket = {s1, s2}
  Request = {r1}
  None = None
  Usage <- UsageOne
  InitialSeconds <- SecondsOne
  LowThreshold = 2
  Route <- RouteAny
  TopUpSeconds = 1
  MaxTopUps = 0
  MaxFailures = 0
  CanTimeOut = FALSE
SPECIFICATION Spec
INVARIANTS BilledAtMostOnce
CHECK_DEADLOCK FALSE

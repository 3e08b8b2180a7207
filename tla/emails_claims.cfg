\* Two emailers, one of which may stop, and a database call that fails.
CONSTANTS
  Notice = {n1, n2}
  Process = {p1, p2}
  Unreachable = {n2}
  BatchSize = 2
  MaxAttempts = 2
  MaxCrashes = 1
  MaxErrors = 1
  MaxSlow = 1
SPECIFICATION EmailsFairSpec
INVARIANTS SentOnce AttemptsBounded
PROPERTIES EmailsSettle
CHECK_DEADLOCK FALSE

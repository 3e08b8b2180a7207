\* Two requests one API request at a time, and one request two at a time.
CONSTANTS
  r1 = r1  t1 = t1
  User = {a, u}
  Superuser = {a, u}
  Project = {p1}
  Personal = {}
  Request = {r1, r2}
  Task = {t1, t2}
  None = None
  Scopes <- TwoAndOne
  MaxUnsent = 1
SPECIFICATION FairSpec
INVARIANTS DoneOnce PromptsCleared ApprovedIsDone
PROPERTIES RequesterTold
CHECK_DEADLOCK FALSE

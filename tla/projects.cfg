\* A shared project of three users, and a personal one of one of two.
CONSTANTS
  u1 = u1  u2 = u2  t1 = t1
  User = {u1, u2, u3}
  Project = {p1}
  Task = {t1, t2}
  None = None
  Scopes <- SharedAndPersonal
SPECIFICATION Spec
INVARIANTS AdminIsMember TokensOfMembers StandingIsTold AllowanceOnce GoneIsKept
CHECK_DEADLOCK FALSE

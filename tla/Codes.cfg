SPECIFICATION Spec
CONSTANTS
  r1 = r1  r2 = r2
  Requests = {r1, r2}
  MaxFailedLogins = 2
  LockoutDuration = 1
  ResetTokenTTL = 1
  SessionTTL = 1
  MaxSessionsPerUser = 2
  FirstClock = 1
  MaxClock = 3
  MaxPasswords = 1
  MaxSecrets = 2
  MaxResets = 0
  MaxLogins = 3
INVARIANT CodesUsedOnce
PROPERTY SessionsAreEarned
SYMMETRY Symmetry
CHECK_DEADLOCK FALSE

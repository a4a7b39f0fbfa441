SPECIFICATION Spec
CONSTANTS
  r1 = r1  r2 = r2
  Requests = {r1, r2}
  MaxFailedLogins = 2
  LockoutDuration = 1
  ResetTokenTTL = 1
  SessionTTL = 1
  MaxSessionsPerUser = 2
  FirstClock = 1
  MaxClock = 3
  MaxPasswords = 3
  MaxSecrets = 0
  MaxResets = 2
  MaxLogins = 3
INVARIANTS TypeOK InactiveSignedOut SessionsFollowPassword SessionsBounded
PROPERTY TokensRedeemedOnce
SYMMETRY Symmetry
CHECK_DEADLOCK FALSE

SPECIFICATION SignInSpec
CONSTANTS
  MaxTokens = 4
  MaxSessions = 2
  Requests = {r1, r2}
  Calls = {"login", "refresh", "logout", "admin", "expire"}
  Threshold = 2
  MaxFailed = 3
INVARIANTS
  SignInTypeOK
  SessionLimit
  OneTokenPerFamily
  LocksNeedFailures
  LocksComeInTime
PROPERTIES
  ClosedStaysClosed
  LockHolds
SYMMETRY Interchangeable
CHECK_DEADLOCK FALSE

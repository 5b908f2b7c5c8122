SPECIFICATION SignInSpec
CONSTANTS
  MaxTokens = 4
  MaxSessions = 2
  Requests = {r1}
  Calls = {"login"}
  Threshold = 2
  MaxFailed = 3
INVARIANT LocksAreEarned
CHECK_DEADLOCK FALSE

SPECIFICATION FairBrowser
CONSTANTS
  MaxTokens = 2
  MaxSessions = 1
  Tabs = {tab1, tab2}
  Requests <- MCRequests
  Calls = {"login", "refresh", "logout", "expire"}
  MaxActs = 2
INVARIANT UnhurriedTabsAgree
PROPERTY TabsComeToAgree
CHECK_DEADLOCK FALSE

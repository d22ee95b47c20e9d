SPECIFICATION FairSpec
CONSTANTS
  Method = "pf"
  RedialNeedsDNS = TRUE
  LockdownIPv6 = TRUE
  CanQuit = TRUE
  Prompt = TRUE
  MaxConnects = 2
  MaxDisconnects = 1
  MaxEngines = 2
  MaxRules = 1
INVARIANTS OneEngine HostRestored Captured
PROPERTIES DisconnectSettles
CHECK_DEADLOCK FALSE

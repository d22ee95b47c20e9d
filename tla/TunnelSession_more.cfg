SPECIFICATION Spec
CONSTANTS
  Method = "nft"
  RedialNeedsDNS = TRUE
  LockdownIPv6 = FALSE
  CanQuit = FALSE
  Prompt = FALSE
  MaxConnects = 2
  MaxDisconnects = 2
  MaxEngines = 3
  MaxRules = 1
INVARIANTS TypeOK StatusSettled RedialResolves
PROPERTIES NoResurrection
CHECK_DEADLOCK FALSE

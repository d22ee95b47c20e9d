SPECIFICATION PoolFairSpec
CONSTANTS
  PoolSize = 2
  Split = TRUE
  JumpHosts = TRUE
  RoundRobin = TRUE
  MaxAttempts = 2
  MinBackoff = 5
  MaxBackoff = 8
  Conns = {c1}
  Queries = {d1}
  MaxDeaths = 2
INVARIANTS ConnsOwned
PROPERTIES MemberRecovers
CHECK_DEADLOCK FALSE

SPECIFICATION MCFairSpec
CONSTANTS
  Regular = {r1}
  Dns = {d1}
  Push = {p1}
  r1 = r1
  d1 = d1
  p1 = p1
  Mixes = {{r1}, {d1}, {p1}}
  MaxPsh = 2
  MayReject = TRUE
INVARIANTS
  OpenBeforeData
  DataBeforeFin
PROPERTIES
  FinDelivered
CHECK_DEADLOCK FALSE

SPECIFICATION FairSpec
CONSTANTS
  Engines = {e1}
  Conns = 2
  MaxStarts = 2
  MaxStops = 2
  MaxSess = 4
  UseTUN = TRUE
  StopDuringStart = FALSE
INVARIANTS TypeOK FdOwned StateMatchesTunnel ProtectedDial
PROPERTIES SpawnOnce StopReturnsWhenUp
CHECK_DEADLOCK FALSE

SPECIFICATION MCFairSpec
CONSTANTS
  Engines = {e1}
  Conns = 2
  MaxStarts = 2
  MaxStops = 2
  MaxSess = 4
  UseTUN = TRUE
  StopDuringStart = TRUE
  MaxForwarders = 2
  MaxPackets = 3
  MaxPend = 2
  Beside = FALSE
INVARIANTS SessionOwned Forwarding ReaderLives
PROPERTIES DeadReplaced ForwarderCloses
CHECK_DEADLOCK FALSE

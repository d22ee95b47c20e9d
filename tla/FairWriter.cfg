SPECIFICATION FairSpec
CONSTANTS
  Streams = {s1, s2}
  BufSize = 2
  Quantum = 3
  Sizes = {2}
  HdrLen = 1
  MaxPsh = 2
  MaxCtl = 1
INVARIANTS
  SynBeforeData
  ControlDelay
  DataInOrder
PROPERTIES
  EventuallyDrained
CHECK_DEADLOCK FALSE

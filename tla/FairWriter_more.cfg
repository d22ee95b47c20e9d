SPECIFICATION Spec
CONSTANTS
  Streams = {s1, s2}
  BufSize = 2
  Quantum = 3
  Sizes = {2}
  HdrLen = 1
  MaxPsh = 2
  MaxCtl = 1
INVARIANTS TypeOK ScheduledOnce FinOvertakesOneAtMost TurnBound WaitBound
SYMMETRY StreamSymmetry
CHECK_DEADLOCK FALSE

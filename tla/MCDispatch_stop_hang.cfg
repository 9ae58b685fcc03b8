CONSTANTS
  MaxNow = 0
  MaxLate = 0
  MaxSignals = 1
  Stimuli <- OnlyNow
  ZeroDelay = FALSE

SPECIFICATION FairSpec

CHECK_DEADLOCK FALSE

PROPERTIES
  StopEnds

CONSTANTS
  MaxNow = 1
  MaxLate = 0
  MaxSignals = 0
  Stimuli <- OnlyNow
  ZeroDelay = FALSE

SPECIFICATION FairSpec

CHECK_DEADLOCK FALSE

PROPERTIES
  WakesWhenDataArrives

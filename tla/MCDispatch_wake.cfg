CONSTANTS
  MaxNow = 2
  MaxLate = 2
  MaxSignals = 1
  Stimuli <- OneKind
  ZeroDelay = FALSE

SPECIFICATION FairSpec

CHECK_DEADLOCK FALSE

INVARIANTS
  DelayedKept
  DelayedAtMostTwice

PROPERTIES
  NextEventWakes
  WokenCatchesUp
  

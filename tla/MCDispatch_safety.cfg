CONSTANTS
  MaxNow = 3
  MaxLate = 2
  MaxSignals = 2
  Stimuli <- BothKinds
  ZeroDelay = TRUE

SPECIFICATION Spec

CHECK_DEADLOCK FALSE

INVARIANTS
  TypeOK
  
  CurrentIsHead
  StopServesAtMostOne
  


  

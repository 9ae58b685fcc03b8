CONSTANT
  MaxDiff = 1

SPECIFICATION FairSpec

CHECK_DEADLOCK FALSE

PROPERTY
  FreezeDetected

CONSTANT
  MaxDiff = 3

SPECIFICATION FairSpec

CHECK_DEADLOCK FALSE

INVARIANTS
  TypeOK
  FrozenOnlyIfSlow

PROPERTIES
  OverrunNoticed

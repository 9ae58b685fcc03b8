CONSTANTS
  MaxConns = 2
  MaxFd = 2
  MaxData = 2
  Libraries <- WithQuit

SPECIFICATION Spec

CHECK_DEADLOCK FALSE

INVARIANTS
  TypeOK
  OpenAreServed
  CrashOnlyByQuit
  

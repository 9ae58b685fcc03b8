CONSTANTS
  MaxClients = 3
  MaxFd = 4
  MaxTransfers = 2
  Behaviours <- Together

SPECIFICATION Spec

CHECK_DEADLOCK FALSE

INVARIANTS
  TypeOK
  ControlsKept
  DataOwnClient
  
  SuccessIsReal
  DescriptorsKnown
  InDirectory

CONSTANTS
  MaxProcs = 3
  MaxCommands = 3
  ConfigFiles <- Files
  ByHand <- Runs
  Libraries <- Loadable
  LibraryFiles <- OwnFiles
SPECIFICATION Spec
CHECK_DEADLOCK FALSE
INVARIANTS TypeOK Reachable StaleOnlyAfterFailure
PROPERTY PortReturned

CONSTANTS
  MaxConns = 3
  MaxFd = 2
  MaxData = 1
  Libraries <- OnlyHttp

SPECIFICATION FairSpec

INVARIANTS
  TablesAgree
  ClosingIsLive
  StrayOnlyAfterHangUp

PROPERTIES
  RequestsServed
  HungUpReleased

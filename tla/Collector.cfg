CONSTANTS
  SRC_NAME = "collector"
  Regions = {"myderp", "vpn3-vn"}
  Base <- MCBase
  Window = 1
  RowLimit = 2
  Reporters = {"vpn3"}
  Peers = {"p1"}
  Host <- MCHost
  PingResults <- MCErrors
  Addrs = {"a1", "a2"}
  First = "a1"
  Expected = {"vpn3"}
  MaxChanges = 1
SPECIFICATION FairSpec
INVARIANTS
  TypeOK
  AckedIsStored
  PagesAreTrue
PROPERTIES
  HealthIsTrue
  HeardAgain

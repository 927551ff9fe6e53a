CONSTANTS
  Files = {"f1", "f2", "f3", "g"}
  Email <- MCEmail
  Claude = {"f1", "f2", "f3"}
  Targets = {"a", "b"}
  Keys = {"a", "b", "c", "d"}
  Wanted = {"a", "b"}
  FileKeys = {"a", "c"}
  Nodes = {n1, n2, n3}
  Names = {vpn4, vpn6}
  MaxRuns = 3
  MaxVer = 2
  Commits = {0, 1}
  Routed = {1}
  Jobs = {"deploy", "remove"}
  Cuts = TRUE
  MaxJobs = 2
  MaxRestarts = 1
  KeyFiles <- MCKeyFiles
  Secrets = {"", "s"}
  WebKeys <- MCWebKeys
  FlowLists <- MCFlowLists
  Blocks <- MCBlocks
  MaxBlocks = 2
  MaxEdits = 2
  MaxFaults = 2
SPECIFICATION Spec
INVARIANTS
  TypeOK
  GreenIsTrue
  NeverBanned
  OneAnswer
  Recovers
  EditsAreTrue
PROPERTIES
  OnlyAdds
  ComesBack
CHECK_DEADLOCK FALSE

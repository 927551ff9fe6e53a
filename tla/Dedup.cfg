CONSTANTS
  Ids = {1, 2, 3}
  User <- MCUser
  Host <- MCHost
  Addr <- MCAddr
  GroupOrder <- MCOrder
  Routers = {3}
  Routes = {r1, r2}
  MaxChanges = 5
  LastSeenNumbers = TRUE
  DRY_RUN = FALSE
  AUTO_APPROVE_ROUTES = TRUE
SPECIFICATION FairSpec
INVARIANTS
  TypeOK
  KeepsOne
PROPERTIES
  RoutesGetApproved
  EventuallyTidy
  MacsArrive

CONSTANTS
  r1 = r1
  r2 = r2
  wide = wide
  Routes = {r1, r2, wide}
  Wide = {wide}
  Lists <- AnyList
  Fallback = {}
  FailThreshold = 2
  OkThreshold = 2
  Hold = 3
  Hour = 5
  MaxFlaps = 2
  MayFail = TRUE
  MayCrash = TRUE
  MayReset = TRUE
  MayUnlock = TRUE
SPECIFICATION Spec
INVARIANTS
  TypeOK
  LockedMeansWithdrawn
PROPERTIES
  UpOnlyWhenHealthy
  UpOnlyAfterHold

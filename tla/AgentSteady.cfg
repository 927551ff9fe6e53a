CONSTANTS
  r1 = r1
  r2 = r2
  wide = wide
  Routes = {r1, r2, wide}
  Wide = {wide}
  Lists <- OneList
  Fallback = {}
  FailThreshold = 2
  OkThreshold = 3
  Hold = 4
  Hour = 9
  MaxFlaps = 2
  MayFail = FALSE
  MayCrash = FALSE
  MayReset = FALSE
  MayUnlock = FALSE
SPECIFICATION FairSpec
INVARIANTS
  ManyFlapsLock
  DeadIsWithdrawn
PROPERTIES
  HealthyIsAdvertised

CONSTANTS
  k1 = k1
  k2 = k2
  sample = sample
  p = p
  t1 = t1
  t2 = t2
  Nothing = Nothing
  Keys = {k1, k2, sample}
  Providers = {p}
  Tokens = {t1, t2}
  Shared = {k1}
  Sample = sample
  DeepSeek = {t2}
  SeedStops = FALSE
  MaxEdits = 2
  MaxDeploys = 3
VIEW WithoutLeftovers
SPECIFICATION Spec
INVARIANTS
  TypeOK
  KeysSurvive
  WebDataSurvives
  TokensSurvive
  DbIsKept
  SampleOnlyAfterRestart
CHECK_DEADLOCK FALSE

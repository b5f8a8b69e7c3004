SPECIFICATION Spec
CONSTANTS
  r1 = r1
  r2 = r2
  r3 = r3
  Request = {r1, r2, r3}
  Workloads <- MCWorkloads
  Envs <- MCEnvs
  RateKey <- MCRateKey
  PerMinute <- MCPerMinute
  GlobalLimit = 2
  OpenAiCap = 3
  PerIpSigns = 1
  DailySigns = 2
  MaxCacheAge = 0
  DayTicks = 2
  MaxNow = 2
  Unreliable <- MCUnreliable
INVARIANTS BilledWithinDailyCap JunkCostsNobody
PROPERTIES RefusedOnlyWhenSpent EveryRequestAnswered
CHECK_DEADLOCK FALSE

SPECIFICATION HoldSpec
CONSTANTS
  o1 = o1
  o2 = o2
  o3 = o3
  tokA = tokA
  tokB = tokB
  None = None
  Order = {o1, o2}
  Token = {tokA, tokB}
  TokenOf <- PairOnOne
  Sells = {o2}
  Skew = 2
  Settle = 2
  MaxAge = 4
  LogMax = 2
  LastTick = 3
  MaxDeaths = 1
  Latency = 2
  Behind = 1
  OneAtATime = FALSE
  LogRaces = TRUE
  LogMayFail = TRUE
  MayClear = TRUE
  SplitSearch = TRUE
INVARIANT FailedMeansAbsent
CHECK_DEADLOCK FALSE

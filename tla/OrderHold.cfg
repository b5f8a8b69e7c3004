SPECIFICATION HoldSpec
CONSTANTS
  o1 = o1
  o2 = o2
  o3 = o3
  tokA = tokA
  tokB = tokB
  None = None
  Order = {o1, o2, o3}
  Token = {tokA, tokB}
  TokenOf <- OneToken
  Sells = {o2}
  Skew = 2
  Settle = 2
  MaxAge = 4
  LogMax = 3
  LastTick = 3
  MaxDeaths = 0
  Latency = 1
  Behind = 1
  OneAtATime = TRUE
  LogRaces = FALSE
  LogMayFail = FALSE
  MayClear = FALSE
  SplitSearch = FALSE
SYMMETRY Alike
INVARIANTS NoDoubleOrder UnknownOnRecord
CHECK_DEADLOCK FALSE

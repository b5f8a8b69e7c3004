SPECIFICATION RedemptionSpec
CONSTANTS
  c1 = c1
  c2 = c2
  c3 = c3
  Cond = {c1, c2, c3}
  NegRisk = {c2}
  Settled = {c1, c2}
  Won <- MCWon
  Holdings <- MCHoldings
  Click = {k1}
  Ask = {a1}
  Order = {o1}
  LogMax = 1
  PageLimit = 2
  MaxPages = 2
  ApiCap = 2
  ApiDefault = 3
  Ways <- MCWays
  MaxListings = 1
  MaxFaults = 1
  MaxCloses = 1
INVARIANTS VerdictIsTrue OverdrawnOnlyAfterAnother AcknowledgedIsLogged
PROPERTY RedeemEnds
CHECK_DEADLOCK FALSE

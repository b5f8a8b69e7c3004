SPECIFICATION SupplySpec
CONSTANTS
  m1 = m1
  m2 = m2
  m3 = m3
  m4 = m4
  g = g
  GammaRow = {m1, m2, m3, m4, g}
  PerGame = {g}
  Unfit = {m2}
  Listings <- MCListings
  Slices <- MCSlices
  Total = 3
  MaxMarkets = 2
  PageSize = 2
  MaxPage = 1
  FetchAttempts = 2
  Passes = 2
  Served <- MCServed
  Job = {j1}
  NewsCall = {c1, c2}
  Ttl = 1
  MaxAge = 0
  MaxNow = 1
  MaxShifts = 1
INVARIANT ThinShelfIsExhausted
PROPERTIES StaleIsTold EveryoneFinishes
CHECK_DEADLOCK FALSE

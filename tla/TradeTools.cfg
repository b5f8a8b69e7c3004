CONSTANTS
  b1 = b1
  s1 = s1
  Call = {b1, s1}
  Sells = {s1}
  Sizes <- TwoSizes
  MaxOrderUsd = 3
  DailyLimitUsd = 5
  LastDay = 2
  Verdicts <- Anywhere
  GeoTtl = 1
  MaxCrashes = 1
SPECIFICATION FairTradeSpec
CHECK_DEADLOCK FALSE
INVARIANTS ExchangeWithinDailyLimit PlacedOrderKeepsBudget ReportIsTrue
PROPERTY CallEnds

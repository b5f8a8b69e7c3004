SPECIFICATION FairCacheSpec
CONSTANTS
  c1 = c1
  m1 = m1
  m2 = m2
  Call = {c1}
  MarketId = {m1, m2}
  Ttl = 1
  Cooldown = 1
  MaxSwitches = 2
  MaxDeaths = 1
INVARIANTS KeyNamesVectors OneStragglerAtMost
PROPERTY CacheCatchesUp

SPECIFICATION PageCheckSpec
CONSTANTS
  p1 = p1
  p2 = p2
  m1 = m1
  m2 = m2
  m3 = m3
  m4 = m4
  x = x
  NoMarket = NoMarket
  Page = {p1, p2}
  game = game
  uranium = uranium
  talks = talks
  iran = iran
  deal = deal
  coin = coin
  Market = {m1, m2, m3, m4, x, game}
  PerGame = {game}
  Article <- MCArticle
  Question <- MCQuestion
  StemOf <- MCStemOf
  LowValue <- MCLowValue
  Coins = {coin}
  ThisYear = 2026
  Categorical = {x}
  Raw <- MCRaw
  Floor = 350
  Confident = 550
  Shelves <- MCShelves
  Finds <- MCFinds
  MaxCandidates = 1
  MaxRelated = 2
  MaxHistory = 1
  Check = {k1, k2}
  MaxMoves = 2
INVARIANTS FloorBeforeRank ScoresAreTheirOwn
 
CHECK_DEADLOCK FALSE

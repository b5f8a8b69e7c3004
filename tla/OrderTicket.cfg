SPECIFICATION OrderTicketSpec
CONSTANTS
  yes = yes
  no = no
  tokYes = tokYes
  tokNo = tokNo
  NoToken = NoToken
  Side = {yes, no}
  TokenOf <- MCTokenOf
  FirstSide = yes
  HeldToken = tokYes
  Held = 110004
  Tick = 10
  Minimum = 5
  KnownTick = 10
  KnownMinimum = 5
  NegRisk = FALSE
  CapPct = 2
  HardSlippage = 20
  MaxOrderUsd = 10000
  FallsShort <- MCFallsShort
  Ladders <- MCLadders
  Amounts = {165, 10100}
  Prices = {0, 15, 330}
  Counts = {499, 500}
  MaxMoves = 3
INVARIANTS NothingSignedInVain FiguresAreTrue
PROPERTY AnswersAreCurrent
CHECK_DEADLOCK FALSE

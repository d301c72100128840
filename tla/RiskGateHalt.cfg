SPECIFICATION FairSpec
CONSTANTS
  btc = btc
  eth = eth
  bnb = bnb
  xrp = xrp
  p1 = p1
  p2 = p2
  p3 = p3
  p4 = p4
  Symbols = {btc, xrp}
  Eligible = {btc}
  PositionIds = {p1, p2}
  InitialEquity = 20
  MarginPcts = {30}
  RiskPcts = {10}
  Window = 1
  DaysPerWeek = 2
  MaxGapDays = 1
  ResetsPnl = TRUE
  MaxTrades = 10
  MaxEquity = 20
PROPERTIES
  HaltWhenFlatIsFinal
  LossLimitLifts

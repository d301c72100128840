SPECIFICATION Spec
CONSTANTS
  btc = btc
  eth = eth
  bnb = bnb
  xrp = xrp
  p1 = p1
  p2 = p2
  p3 = p3
  p4 = p4
  Symbols = {btc, eth, bnb, xrp}
  Eligible = {btc, eth, bnb}
  PositionIds = {p1, p2, p3, p4}
  InitialEquity = 20
  MarginPcts = {30}
  RiskPcts = {10}
  Window = 2
  DaysPerWeek = 2
  MaxGapDays = 1
  ResetsPnl = TRUE
  MaxTrades = 4
  MaxEquity = 1000
SYMMETRY Symmetry3
INVARIANTS
    OnePositionPerSymbol
    PercentagesCurrent
    LossBudget
PROPERTIES
    EntriesInsideLimits

SPECIFICATION Spec
CHECK_DEADLOCK FALSE
CONSTANTS
    t1 = t1
    t2 = t2
    f1 = f1
    None = None
    Traders <- MCTraders
    Panels <- MCPanels
    Families <- MCFamilies
    Results <- MCResults
    MaxProposals = 2
    MaxBars = 4
    MaxSessions = 2
    MaxSetbacks = 2
    MinSamples = 2
    HypMinTrades = 2
    LastSnapshot = 2
INVARIANTS
    RowsTellWhy
    TwoVerdictsPerTrade
    CountersFollowTrades
    DiagnosedOnce

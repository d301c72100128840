CHECK_DEADLOCK FALSE
CONSTANTS
  None = None
  DivergenceBack = 3
  MacdWarmUp = 2
  FeatureBars <- MCBars
  Contexts <- MCContexts
  Symbol = "BTCUSDT"
SPECIFICATION MCSpec
INVARIANTS
    MirrorSignals
    FailureNeverEnters
    VolumeNeverCosts
    OneWeaknessAtMost

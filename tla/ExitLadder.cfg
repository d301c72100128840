SPECIFICATION Spec
CONSTANTS
  R = 20
  Ticks <- MCTicks
  Atrs <- MCAtrs
  NoTrail = NoTrail
  MaxBars = 6
  BreakevenBars = 3
INVARIANTS
    PnlWithinR
    ReachedTwoRNeverLoses
PROPERTIES
    EventuallyCloses
    ImplementsLifecycle

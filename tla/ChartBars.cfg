SPECIFICATION Spec
CONSTANTS
  Paths <- MCPaths
  Opening <- MCOpening
  Atr = 120
  MaxLevels = 2
INVARIANTS
    FailedPatternRests
    PendingIsUnbroken
    PivotRemembered
PROPERTIES
    SignalsAreBreakouts

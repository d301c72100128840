SPECIFICATION Spec
CONSTANTS
    BTC = BTC
    ETH = ETH
    Symbols <- MCSymbols
    StructureBars = 2
    MaxBars = 3
    MaxFailures = 2
INVARIANTS
    BundlesAccountedFor
    DecidedUnderOwnRegime
    OpenedThroughPanel
    ClosesRecorded
PROPERTIES
    NothingTwiceInBar

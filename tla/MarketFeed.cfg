SPECIFICATION Spec
CONSTANTS
    BTC = BTC
    ETH = ETH
    Trading <- MCTrading
    FetchLimit = 2
    WindowSize = 3
    WarmUp = 2
    PerFourHours = 2
    FirstHours = {1, 3}
    MaxHours = 6
    MaxMishaps = 2
INVARIANTS
    EachBarOnce
    HolesExplained
PROPERTIES
    EveryHourProcessed

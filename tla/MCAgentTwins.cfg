SPECIFICATION TwinsFairSpec
CONSTANTS
    Twins <- Three
    validityTime = 2
    MaxCrashes = 2
    MaxLosses = 2
INVARIANTS
    GreatestServes
    DoubleIsShort
PROPERTIES
    OthersStandBy

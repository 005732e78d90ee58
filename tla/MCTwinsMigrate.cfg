SPECIFICATION TwinsFairSpec
CONSTANTS
    Twins <- Two
    validityTime = 1
    MaxCrashes = 1
    MaxLosses = 2
PROPERTIES
    ControlMigrates

SPECIFICATION FairSpec
CONSTANTS
    MaxInputs = 2
    MaxFlips = 1
    MaxRestarts = 1
INVARIANTS
    Interlock
    RelaysFollow
PROPERTIES
    MotorStops
CHECK_DEADLOCK FALSE

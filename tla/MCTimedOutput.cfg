SPECIFICATION FairSpec
CONSTANTS
    lamp = lamp
    boiler = boiler
    Devices = {lamp, boiler}
    Scenarios <- MCScenarios
    Duration = 2
    MaxPolls = 1
    MaxFlips = 1
    MaxRestarts = 1
INVARIANTS
    RelayFollows
    SavedWhenIdle
PROPERTIES
    AutoOff
    InputReported

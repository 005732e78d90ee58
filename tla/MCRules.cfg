SPECIFICATION Spec
CONSTANTS
    Configurations <- MCConfigurations
    MAXDELAYQSZ = 1
    MaxRestarts = 1
INVARIANTS
    LeakyBucket
    DelayedEvents
    HistoryKept
PROPERTIES
    FiresOnEdge
CHECK_DEADLOCK FALSE

SPECIFICATION Spec
CONSTANTS
    Configurations <- MCTwo
    MAXDELAYQSZ = 1
    MaxRestarts = 0
INVARIANTS
    AllEnabledActions
CHECK_DEADLOCK FALSE

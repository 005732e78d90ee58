SPECIFICATION FairSpec
CONSTANTS
    a = a
    b = b
    c = c
    d = d
    e = e
    Msgs <- FiveMsgs
    Priority <- MixedPrio
    MaxLength = 3
    Spurious = TRUE
INVARIANTS
    Conservation
    NoOvertaking
PROPERTIES
    Delivered
CHECK_DEADLOCK FALSE

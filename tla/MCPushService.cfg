CONSTANTS
    Sessions = {s1, s2}
    Prompt = {s1}
    Fds = {3, 4}
    maxttl = 2
    MaxVector = 3
    MaxGone = 1
    MaxSends = 1
    MaxEvents = 1
CHECK_DEADLOCK FALSE
SPECIFICATION Spec
INVARIANTS
    OwnSocket
    EveryoneOnce
    AnsweringStays
PROPERTIES
    GoneIsDropped
    SignalsGoOn

SPECIFICATION FairSpec
CONSTANTS
    Callers = {t1, t2}
    MAXTAG = 1
    RPC_TIMEOUT = 0
    MaxCalls = 3
    MaxAnswers = 1
    MaxQueued = 2
INVARIANTS
    OwnAnswer
    ClearsPresentEntry
    PendingIsServed
PROPERTIES
    EveryCallReturns
    ImplementsRpcCall

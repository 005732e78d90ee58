SPECIFICATION FairSpec
CONSTANTS
    Peers = {"a"}
    Ips = {"ip1", "ip2"}
    mysubjects = {"lamp", "door"}
    Foreign = {"other"}
    validityTime = 1
    MaxObservers = 3
    MaxEvents = 1
    MaxChanges = 2
    MaxLosses = 1
INVARIANTS
    ObserversMatchTable
    RegisteredIsServed
PROPERTIES
    SilentIsDropped
    RunningIsConnected
    QueuedIsSent

CONSTANTS
    Load <- MCLoad
    Nominal <- MCNominal
    Priority <- MCPriority
    Bases = {2, 5}
    Threshold = 10
    Latency = 1
    AlignPeriod = 3
    Commands <- MCCommands
    MaxCmds = 1
    MaxBase = 1
    MaxLost = 1
    MaxLate = 1
    MaxRestarts = 1
SPECIFICATION Spec
PROPERTIES
    OverloadIsShed
    Settles
    RelayFollowsMode

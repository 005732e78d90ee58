CONSTANTS
    Day = 4
    Plan <- MCPlan
    StartProgram = "DAY"
    Configurations <- MCConfigurations
    MaxQueue = 0
    MaxFaults = 1
SPECIFICATION Spec
INVARIANTS
    AckIsDurable
    RulesKnowProgram
    ResumesTheLast
PROPERTIES
    RulesCatchUp
    DailyCycle

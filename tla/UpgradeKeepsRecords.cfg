CONSTANTS
    i1 = i1
    i2 = i2
    hostEffects = hostEffects
    suspendDemo = suspendDemo
    strayEffects = strayEffects
    strayDemo = strayDemo
    NoId = NoId
    NoDef = NoDef
    DefaultCapacity = 2
    Slots = {s1, s2}
    Ids = {i1, i2}
    Defs = {hostEffects}
    Plans <- MCPlans
    AutoContinue = {hostEffects}
    Knowledge = TRUE
    Capacities = {1, 2}
    CarefulOperator = TRUE
    LlmMayTrap = FALSE
    MaxCalls = 4
    MaxLoads = 1
    MaxUpgrades = 1
SPECIFICATION Spec
PROPERTIES
    UpgradeKeepsRecords
CHECK_DEADLOCK FALSE

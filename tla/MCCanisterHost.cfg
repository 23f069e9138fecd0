CONSTANTS
    i1 = i1
    i2 = i2
    hostEffects = hostEffects
    suspendDemo = suspendDemo
    strayEffects = strayEffects
    strayDemo = strayDemo
    NoId = NoId
    NoDef = NoDef
    DefaultCapacity = 2
    Slots = {s1, s2}
    Ids = {i1, i2}
    Defs = {hostEffects, suspendDemo, strayEffects}
    Plans <- MCPlans
    AutoContinue = {hostEffects}
    Knowledge = TRUE
    Capacities = {1, 2}
    CarefulOperator = TRUE
    LlmMayTrap = FALSE
    MaxCalls = 5
    MaxLoads = 2
    MaxUpgrades = 2
SPECIFICATION Spec
SYMMETRY Symmetry
INVARIANTS
    OneEngine
    DurableWhenQuiet
    RunsKept
    LimitsKept
PROPERTIES
    UpgradeKeepsRuns
CHECK_DEADLOCK FALSE

CONSTANTS
    i1 = i1
    i2 = i2
    hostEffects = hostEffects
    suspendDemo = suspendDemo
    strayEffects = strayEffects
    strayDemo = strayDemo
    NoId = NoId
    NoDef = NoDef
    DefaultCapacity = 2
    Slots = {s1, s2}
    Ids = {i1}
    Defs = {hostEffects, suspendDemo, strayEffects, strayDemo}
    Plans <- MCPlans
    AutoContinue = {strayEffects}
    Knowledge = TRUE
    Capacities = {2}
    CarefulOperator = FALSE
    LlmMayTrap = TRUE
    MaxCalls = 3
    MaxLoads = 2
    MaxUpgrades = 1
SPECIFICATION FairSpec
INVARIANTS
    HumanGate
    SlicedAfterFailure
PROPERTIES
    DrainsEnd
CHECK_DEADLOCK FALSE

CONSTANTS
    plan = plan
    work = work
    finish = finish
    NoNode = NoNode
    Nodes <- MCNodes
    Entry = plan
    ContinueTo <- MCContinueTo
    RouteTo <- MCRouteTo
    Bounded <- MCBounded
    CycleLimit = 1
    MaxSteps = 3
    MaxTokens = 2
    MaxCost = 2
    Timeout = 2
    MaxRetries = 1
    Artifacts = {a1, a2}
    Charges <- MCCharges
    Durations = {1}
    MaxStarts = 2
SPECIFICATION FairSpec
INVARIANTS
    TypeOK
    CheckpointExplained
    NoGaps
    BudgetsHeld
    AtMostOneUncommittedStep
    CyclesBounded
PROPERTIES
    ImplementsContract
    EveryCallReturns
CHECK_DEADLOCK FALSE

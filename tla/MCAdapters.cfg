SPECIFICATION Spec
CONSTANTS
    MaxTurns = 2
    Calls = {c1, c2}
    Tools = {"read", "erase", "absent"}
    Served = {"read", "erase"}
    Prohibited = {"erase"}
    Lists <- MCLists
    Programs <- MCPrograms
    Values = {"v1", "v2"}
    Entry = "a"
    Edges <- MCEdges
    Cyclic = {"a", "b"}
    MaxVisits = 1
    MaxSteps = 3
    MaxTokens = 3
INVARIANTS
    IcpAgrees
    ReplayFaithful
PROPERTIES
    ToolsTold
    ProcessAnswers
CHECK_DEADLOCK FALSE

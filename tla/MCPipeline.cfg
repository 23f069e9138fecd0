SPECIFICATION Spec
CONSTANTS
    Words <- MCWords
    Capabilities = {"net"}
    Tools = {"pay"}
    Skills <- MCSkills
    MaxChars = 4
    Tasks <- MCTasks
    Packs <- MCPacks
    Learned <- MCLearned
    GrantSets <- MCGrantSets
    Documents <- MCDocuments
    Rerankings <- MCRerankings
    Recalled <- MCRecalled
    Suites <- MCSuites
    Results <- MCResults
INVARIANTS
    OwnSkillsKept
    AuthorityNarrows
    RequiredReaches
    BudgetFilled
    VerdictsAgree
CHECK_DEADLOCK FALSE

SPECIFICATION Spec
CONSTANTS
    linting = linting
    testing = testing
    facts = facts
    style = style
    test = test
    unit = unit
    cover = cover
    ruff = ruff
    Packs = {linting, testing, facts}
    Versions = {1, 2}
    Declared <- MCDeclared
    Needs = {style, test}
    Preferred = {style}
    Ids = {linting, testing, facts, ruff}
    DocId <- MCDocId
    SkillIds = {style, unit, cover}
    Skills <- MCSkills
    Hub = {linting, testing}
    Approved <- MCApproved
    MaxPulls = 1
    Strategies <- MCStrategies
    MaxRetries = 1
    PullsAnytime = FALSE
    MaxRuns = 3
    Promote = "require-approval"
    MinUsefulness = 2
    MaxRecords = 2
INVARIANTS TypeOK ActiveFixed PacksKept SelectedBacked PromotionEarned
PROPERTY RunsEnd

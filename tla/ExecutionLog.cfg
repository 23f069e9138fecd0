CONSTANTS
    Cap = 9
    MaxPassed = 2
    MaxReports = 4
    MaxReloads = 2
SPECIFICATION Spec
INVARIANTS
    NewestInOrder
    OutcomeKept
CHECK_DEADLOCK FALSE

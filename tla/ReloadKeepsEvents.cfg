CONSTANTS
    Cap = 100
    MaxPassed = 2
    MaxReports = 4
    MaxReloads = 1
SPECIFICATION Spec
PROPERTY ReloadKeepsEvents
CHECK_DEADLOCK FALSE

CONSTANTS
    Savers = {s1}
    Readers = {r1, r2}
    Files = {f1, f2, f3, f4}
    NoFile = NoFile
    MaxSaves = 4
SPECIFICATION Spec
INVARIANTS
    NeverPartial
    LoadsAreFresh
CHECK_DEADLOCK FALSE

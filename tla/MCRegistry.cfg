SPECIFICATION Spec
CONSTANTS
    first = first
    second = second
    Versions = {1, 2}
    Digests = {first, second}
    NoDigest = NoDigest
    Callers = {c1, c2}
    Pin <- MCPin
    Forced = FALSE
    MaxCalls = 4
SYMMETRY Symmetry
CHECK_DEADLOCK FALSE
INVARIANTS BytesVerified PinKept YankedNotServed StagedMatches
PROPERTY YankRemembered

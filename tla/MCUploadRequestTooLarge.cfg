SPECIFICATION RequestSpec
CONSTANTS
    Asset = {a1, a2}
    Local = {a1, a2}
    FromUrl = {a1}
    Project = {p1}
INVARIANT
    TooLargeIsAnswered413
CHECK_DEADLOCK FALSE

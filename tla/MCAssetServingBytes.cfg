SPECIFICATION ServingSpec
CONSTANTS
    Asset = {a1}
    Local = {a1}
    Reader = {r1, r2}
INVARIANT
    ServedBytesNeverChange
CHECK_DEADLOCK FALSE

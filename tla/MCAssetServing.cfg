SPECIFICATION ServingSpec
CONSTANTS
    Asset = {a1, a2}
    Local = {a1}
    Reader = {r1}
INVARIANTS
    ServingTypeOK
    CompletedIsServedWhole
CHECK_DEADLOCK FALSE

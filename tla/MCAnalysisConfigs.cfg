SPECIFICATION FairSpec
CONSTANTS
    Config = {c1, c2, c3}
    Request = {r1, r2}
INVARIANTS
    TypeOK
    OneDefaultUnlessRaced
PROPERTIES
    KeepsPromise
    EveryRequestEnds
CHECK_DEADLOCK FALSE

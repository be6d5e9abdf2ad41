SPECIFICATION FairSpec
CONSTANTS
    Asset = {a1}
    Request = {r1, r2}
    MaxVersion = 2
    PositiveTtl = 2
    NegativeTtl = 1
    Faults = TRUE
INVARIANTS
    TypeOK
    StaleHasCause
    NotFoundIsTrue
PROPERTY
    DeletedIsForgotten

SPECIFICATION FairSpec
CONSTANTS
    Asset = {a1, a2}
    Local = {a1}
INVARIANTS
    TypeOK
    Consistent
    AnswerMatchesRow
    CompletedHasBytes
PROPERTIES
    ImplementsLifecycle
    EveryUploadEnds
CHECK_DEADLOCK FALSE

SPECIFICATION ClientsSpec
CONSTANTS
    Requests = {r1, r2}
    People = {p1, p2}
    Emails = {m1}
    NoEmail = NoEmail
    Clients = {c1, c2}
    Slugs = {s1, empty}
    Empty = empty
    None = None
    Keep = Keep
SYMMETRY Symmetry
INVARIANTS
    ClientsTypeOK
    OneRowPerPerson
    OnboardedOnce
    RefusedChangesNothing
PROPERTIES
    AnswersAreTrue
    ImplementsRegistry
CHECK_DEADLOCK FALSE

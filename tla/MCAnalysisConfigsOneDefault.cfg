SPECIFICATION Spec
CONSTANTS
    Config = {c1, c2}
    Request = {r1, r2}
INVARIANT
    ExactlyOneDefault
CHECK_DEADLOCK FALSE

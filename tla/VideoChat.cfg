SPECIFICATION Spec
CONSTANTS
    Link = {l1, l2, l3}
    User = {u1, u2}
    MaxLogins = 3
    None = None
INVARIANTS TypeOK OneLoginPerUser
PROPERTIES ImplementsRoom NobodyIsMissed
CHECK_DEADLOCK FALSE

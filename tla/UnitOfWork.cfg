SPECIFICATION Spec
CONSTANTS
    b1 = b1
    b2 = b2
    b3 = b3
    u1 = u1
    u2 = u2
    Blocks = {b1, b2, b3}
    Units = {u1, u2}
    UnitOf <- TwoOnOne
    Parts = {1, 2}
    NoSession = NoSession
INVARIANTS
    TypeOK
    NothingLeftPending
    AllOrNothing
PROPERTY ImplementsAtomic
CHECK_DEADLOCK FALSE

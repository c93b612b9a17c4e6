SPECIFICATION Spec
CONSTANTS
    Accounts = {a1, a2}
    Resources = {b1}
    Rules = {p1}
    Workers = {w1, w2}
    MaxTime = 1
    MaxScans = 4
    MaxSuppressions = 1
INVARIANTS
    TypeOK
    TimelineInOrder
    LiveIffLatestFailed
PROPERTIES
    DiscoveryIsPermanent
    OnlyExaminedChange
    ImplementsLedger
SYMMETRY WorkerSymmetry
CHECK_DEADLOCK FALSE

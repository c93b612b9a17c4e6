SPECIFICATION FairSpec
CONSTANTS
    Requests = {r1, r2}
    Targets = {t1}
    Workers = {w1, w2}
    Faults <- AllFaults
    MaxTime = 2
    MaxCrashes = 1
INVARIANTS
    TypeOK
    JobsAreDurable
    ScoresDescribeLandedResults
    AuditIsTruthful
    AcceptedOnce
PROPERTIES
    TerminalNeverRevived
    AcceptedJobEnds
CHECK_DEADLOCK FALSE

SPECIFICATION Spec
CONSTANTS
    Requests = {r1}
    Targets = {t1}
    Workers = {w1}
    Faults = {}
    MaxTime = 1
    MaxCrashes = 0
INVARIANTS
    ExitsAreTerminal
CHECK_DEADLOCK FALSE

SPECIFICATION FairSpec
CONSTANTS
    Sources <- BothSources
    Pages = 3
    MaxAttempts = 4
    BaseDelay = 1
    MaxDelay = 3
    MaxElapsed = 6
    Hints <- ServerHints
    Latencies <- CallDurations
INVARIANTS
    TypeOK
    NoSilentTruncation
    StaysInBudget
PROPERTIES
    Terminates
CHECK_DEADLOCK FALSE

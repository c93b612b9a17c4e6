CONSTANTS
    Estates <- MCEstates
    Findings <- MCFindings
    Unreadable = 1
SPECIFICATION Spec
INVARIANTS
    TypeOK
    
    
    NothingIsRefused
    StoredIsWorst
CHECK_DEADLOCK FALSE

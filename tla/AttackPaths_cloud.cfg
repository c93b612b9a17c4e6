CONSTANTS
    Estates <- PolicyEstates
    Findings <- MCFindings
    Unreadable = 0
SPECIFICATION Spec
INVARIANT
    PathsMatchTheCloud
CHECK_DEADLOCK FALSE

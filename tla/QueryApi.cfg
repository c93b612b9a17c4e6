SPECIFICATION Spec
CONSTANTS
    Scans <- MCScans
    Findings <- MCFindings
    Outcomes <- MCOutcomes
    Tokens <- MCTokens
    Queries <- MCQueries
    Vocabulary = {"iso", "cis", "storage"}
    Alphabetical <- MCAlphabetical
    Width = 4
    MaxLimit = 2
INVARIANTS
    TypeOK
    WalkMissesNothing
    ScoresRecountable
PROPERTY OthersAreInvisible

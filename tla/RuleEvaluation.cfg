SPECIFICATION FairSpec
CONSTANTS
    Resources <- MCResources
    Collectable <- MCCollectable
    TypeOf <- MCTypeOf
    ExternalType <- MCExternalType
    Placeholder = "external_resource"
    Skippable = {"group"}
    Elements = {"e1", "e2"}
    Mappings = {"e1"}
    Data <- MCData
    Lists <- MCLists
    Items <- MCItems
    Nested = {"deep"}
    Links = {"attached_to", "allows", "accesses", "contains"}
    Inferred = {"accesses", "contains"}
    Compare <- MCCompare
    Nodes <- MCNodes
    Estates <- MCEstates
    Refusals <- MCRefusals
    Plain <- MCPlain
    Rules <- MCRules
    Absent = "absent"
    Unknown = "unknown"
    NoNode = "no_node"
    AnyType = "any_type"
INVARIANTS
    TypeOK
    GuardedVerdictsSurvive
    RelatedIsConfirmed
    GapsNeverRaise
PROPERTIES
    EvaluationEnds
CHECK_DEADLOCK FALSE

SPECIFICATION Spec
CONSTANTS
    Rosters <- MCRosters
    Items = {i1, i2}
    Identities <- MCIdentities
    Bindings <- MCBindings
    MaxFaults = 2
INVARIANT UnknownIsStored
SYMMETRY MCSymmetry
CHECK_DEADLOCK FALSE

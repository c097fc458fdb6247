SPECIFICATION Spec
CONSTANTS
    k1 = k1
    k2 = k2
    k3 = k3
    k4 = k4
    k5 = k5
    Keys <- FiveKeys
    Values = {v1, v2}
    Comparable <- FiveKeys
    Hash <- Collisions
    InitialCapacity = 4
    Void = Void
    Unused = Unused
    Absent = Absent
INVARIANTS
    TypeOK
    CountAgrees
    LookupAgrees
PROPERTIES
    ImplementsMap
    Returns

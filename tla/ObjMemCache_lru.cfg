\* Handlers add what get() did not find; ages do not wrap.
SPECIFICATION Spec
CONSTANTS
    k1 = k1
    k2 = k2
    k3 = k3
    k4 = k4
    v1 = v1
    v2 = v2
    None = None
    Keys <- FourKeys
    Versions <- TwoVersions
    EntriesThreshold = 2
    PurgeThreshold <- Half
    Fractions <- SomeFractions
    W = 1024
    MaxAge = 9
    AddTwice = FALSE
SYMMETRY Symmetric
INVARIANTS MapsAgree OneOverThreshold
PROPERTIES LeastRecentlyUsedStore

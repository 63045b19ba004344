\* Any settings, and put() that fails half way.
SPECIFICATION Spec
CONSTANTS
    k1 = k1
    k2 = k2
    k3 = k3
    k4 = k4
    v1 = v1
    v2 = v2
    None = None
    Keys <- FourKeys
    Values <- TwoValues
    DefaultMax = 3
    DefaultPurge = 2
    Settings <- AnySettings
    MayThrow = TRUE
INVARIANTS QueueLeadsToEntries
CHECK_DEADLOCK FALSE

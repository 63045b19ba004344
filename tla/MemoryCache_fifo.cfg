\* initialize() is called at any time; no limit purges more than it admits.
SPECIFICATION Spec
CONSTANTS
    k1 = k1
    k2 = k2
    k3 = k3
    k4 = k4
    v1 = v1
    v2 = v2
    None = None
    Keys <- FourKeys
    Values <- TwoValues
    DefaultMax = 3
    DefaultPurge = 2
    Settings <- Fitting
    MayThrow = FALSE
INVARIANTS TypeOK QueueMatchesMap
PROPERTIES NeverGrowsPastLimit FirstInFirstOutStore

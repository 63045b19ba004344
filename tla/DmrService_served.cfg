\* No file leaks a handle: good data sets and one with bad variables.
SPECIFICATION Spec
CONSTANTS
    w1 = w1
    w2 = w2
    nc1 = nc1
    nc2 = nc2
    txt = txt
    good1 = good1
    secret = secret
    noise = noise
    badvars = badvars
    badattrs = badattrs
    None = None
    Workers <- TwoWorkers
    Paths <- NcAndText
    NcPaths <- TwoNc
    Contents <- NoLeak
    Unreadable <- Nothing
    NotNetcdf <- Noise
    BadVars <- BadVariables
    BadAttrs <- Nothing
    BadAncillary <- SecondNc
    MayThrow = FALSE
    HandleLimit = 2
INVARIANTS HandlesOfPasses GoodFileServed

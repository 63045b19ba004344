\* A data set with bad attributes takes the handles of all others.
SPECIFICATION Spec
CONSTANTS
    w1 = w1
    w2 = w2
    nc1 = nc1
    nc2 = nc2
    txt = txt
    good1 = good1
    secret = secret
    noise = noise
    badvars = badvars
    badattrs = badattrs
    None = None
    Workers <- TwoWorkers
    Paths <- TwoNc
    NcPaths <- TwoNc
    Contents <- GoodAndBadAttributes
    Unreadable <- Nothing
    NotNetcdf <- Nothing
    BadVars <- Nothing
    BadAttrs <- BadAttributes
    BadAncillary <- Nothing
    MayThrow = FALSE
    HandleLimit = 2
INVARIANTS GoodFileServed

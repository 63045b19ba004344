\* Every kind of file and every exception; handles run out.
SPECIFICATION FairSpec
CONSTANTS
    w1 = w1
    w2 = w2
    nc1 = nc1
    nc2 = nc2
    txt = txt
    good1 = good1
    secret = secret
    noise = noise
    badvars = badvars
    badattrs = badattrs
    None = None
    Workers <- TwoWorkers
    Paths <- Nc
    NcPaths <- Nc
    Contents <- Kinds
    Unreadable <- Secret
    NotNetcdf <- Nothing
    BadVars <- BadVariables
    BadAttrs <- BadAttributes
    BadAncillary <- Nc
    MayThrow = TRUE
    HandleLimit = 2
INVARIANTS TypeOK AnswerHasReason
PROPERTIES EveryRequestIsAnswered

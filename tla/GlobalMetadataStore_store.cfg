\* Two processes, the DDS and the DAS of one data set.
SPECIFICATION FairSpec
CONSTANTS
    p1 = p1
    p2 = p2
    n1 = n1
    None = None
    Procs <- TwoProcs
    Names <- OneName
    Suffixes = {"dds_r", "das_r"}
    Pool <- InodePool
    Ops <- TheirOps
    Faults <- TheirFaults
    Unlimited <- NoLimit
    MaxItems = 1
    MaxClock = 1
INVARIANTS TypeOK NoLockLeftBehind ServedNotOlder FileHoldsOneResponse
PROPERTIES EveryCallReturns

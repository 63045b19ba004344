\* Two processes, two keys, a clock, calls by file, no failures.
SPECIFICATION Spec
CONSTANTS
    p1 = p1
    p2 = p2
    k1 = k1
    k2 = k2
    None = None
    Procs <- TwoProcesses
    Instances <- TwoProcesses
    InstanceOf <- OwnInstance
    Keys <- TwoKeys
    Inodes <- InodePool
    W = 3
    Sizes = {1}
    MaxCacheSize = 2
    PurgeSize = 0
    MaxClock = 1
    Ops = {"put", "put_item", "get", "del", "purge"}
    WaitModes = {FALSE}
    Faults = {}
    InitialInfo <- ZeroInfo
SYMMETRY Symmetric
INVARIANTS AccountingExact PurgeBounded
PROPERTIES LeastRecentlyUsedFirst ImplementsSharedStore

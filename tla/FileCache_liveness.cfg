\* Two processes that make every kind of call, fair scheduling.
SPECIFICATION FairSpec
CONSTANTS
    p1 = p1
    p2 = p2
    k1 = k1
    k2 = k2
    None = None
    Procs <- TwoProcesses
    Instances <- TwoProcesses
    InstanceOf <- OwnInstance
    Keys <- OneKey
    Inodes <- InodePool
    W = 2
    Sizes = {1}
    MaxCacheSize = 1
    PurgeSize = 0
    MaxClock = 0
    Ops = {"put", "put_data", "put_item", "get", "del", "clear", "purge"}
    WaitModes = {FALSE}
    Faults = {}
    InitialInfo <- ZeroInfo
PROPERTIES EveryCallReturns

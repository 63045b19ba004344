\* Two processes, one key, every failure but those of clear(), and crashes.
SPECIFICATION Spec
CONSTANTS
    p1 = p1
    p2 = p2
    k1 = k1
    k2 = k2
    None = None
    Procs <- TwoProcesses
    Instances <- TwoProcesses
    InstanceOf <- OwnInstance
    Keys <- OneKey
    Inodes <- InodePool
    W = 2
    Sizes = {1}
    MaxCacheSize = 1
    PurgeSize = 0
    MaxClock = 0
    Ops = {"put", "put_item", "get", "del", "purge"}
    WaitModes = {FALSE}
    Faults = {"flock", "open", "source", "read", "write", "info", "stat", "remove", "crash"}
    InitialInfo <- NoInfo
SYMMETRY Symmetric
INVARIANTS TypeOK MutualExclusion
PROPERTIES StoredDataNeverChange LockedFileSpared

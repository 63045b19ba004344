SPECIFICATION Spec
CONSTANTS
    d1 = d1
    d2 = d2
    Datasets = {d1, d2}
    MaxVersion <- MCMaxVersion
    CacheEntries = {0, 1}
INVARIANTS CachedIsWhole CachesAgree
PROPERTIES NeverGoesBack

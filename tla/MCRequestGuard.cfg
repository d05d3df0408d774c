CONSTANTS
    Callers = {c1, c2}
    Keys = {k1, k2, k3}
    Futures = {f1, f2}
    None = None
    MaxConcurrent = 2
    MaxVersion = 2
    MaxFaults = 1
SPECIFICATION GuardSpec
SYMMETRY Symmetry
CONSTRAINT TwoKeysCached
INVARIANTS GuardTypeOK OneFlight PermitsReturned
PROPERTIES CacheAdvances ServesCachedReads

\* A failed run is resumed; nothing else fails.
CONSTANTS
    Runs = {r1}
    AssetDays = {d1}
    VNAssetDays = {}
    Executions = {e1, e2}
    Snapshots = {}
    None = None
    MaxChunks = 1
    ThreadIds = {t1}
    ThreadId <- OneThread
    MaxHeartbeats = 0
    Clients = {c1}
    Workers = {w1}
    Operations = {"create", "resume"}
    MaxRequests = 2
    MaxQueued = 2
    Faults = {}
    MaxFaults = 0
SPECIFICATION FairSpec
PROPERTIES
    ActiveRunsSettle
\* Every request may have been answered and every task done.
CHECK_DEADLOCK FALSE

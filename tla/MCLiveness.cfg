\* A run that is neither cancelled nor resumed, and two failures of any kind but
\* the death of the gateway between the INSERT of a run and its enqueue; a lost
\* callback may lose its second attempt to the same failure.
CONSTANTS
    Runs = {r1}
    AssetDays = {d1}
    VNAssetDays = {}
    Executions = {e1, e2}
    Snapshots = {}
    None = None
    MaxChunks = 1
    ThreadIds = {t1}
    ThreadId <- OneThread
    MaxHeartbeats = 0
    Clients = {c1}
    Workers = {w1}
    Operations = {"create"}
    MaxRequests = 1
    MaxQueued = 2
    Faults = {"broker", "rejected", "unavailable", "worker", "restart", "lost", "slow", "outage"}
    MaxFaults = 2
SPECIFICATION FairSpec
INVARIANTS TypeOK
PROPERTIES ActiveRunsSettle ExecutionsEnd
\* Every request may have been answered and every task done.
CHECK_DEADLOCK FALSE

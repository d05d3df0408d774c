\* The days are those of two symbols of one instrument (BTC/USDT and BTC/USD, say),
\* whose runs share a checkpoint.  Two handlers create runs at the same time, for
\* one symbol or for both, one of them once more, or the checkpoint of a settled
\* run is cleared; there is one failure that repeats no task or callback and hides
\* no accepted request.
CONSTANTS
    Runs = {r1, r2}
    AssetDays = {d1, d2}
    VNAssetDays = {}
    Executions = {e1, e2}
    Snapshots = {}
    None = None
    MaxChunks = 1
    ThreadIds = {t1}
    ThreadId <- OneThread
    MaxHeartbeats = 1
    Clients = {c1, c2}
    Workers = {w1}
    Operations = {"create", "clear"}
    MaxRequests = 3
    MaxQueued = 2
    Faults = {"gateway", "broker", "restart", "outage"}
    MaxFaults = 1
SPECIFICATION Spec
SYMMETRY AliasSymmetry
INVARIANTS OneRunPerDay
PROPERTIES SucceededIsFinal CheckpointOutlivesItsGraph
\* Every request may have been answered and every task done.
CHECK_DEADLOCK FALSE

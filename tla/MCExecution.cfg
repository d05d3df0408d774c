\* One run on evidence of the Vietnam providers, which may return two different
\* snapshots, three API calls that may cancel it, resume it or clear its
\* checkpoint, and one failure of a provider, the queue, the service or the
\* network between them.
CONSTANTS
    Runs = {r1}
    AssetDays = {d1}
    VNAssetDays = {d1}
    Executions = {e1, e2}
    Snapshots = {s1, s2}
    None = None
    MaxChunks = 1
    ThreadIds = {t1}
    ThreadId <- OneThread
    MaxHeartbeats = 0
    Clients = {c1}
    Workers = {w1}
    Operations = {"create", "cancel", "resume", "clear"}
    MaxRequests = 3
    MaxQueued = 2
    Faults = {"provider", "worker", "restart", "unavailable"}
    MaxFaults = 1
SPECIFICATION Spec
SYMMETRY Symmetry
INVARIANTS OneExecutionPerRun PublishedRunsHaveReport SucceededRunsAreListed ExecutesStoredEvidence
\* Every request may have been answered and every task done.
CHECK_DEADLOCK FALSE

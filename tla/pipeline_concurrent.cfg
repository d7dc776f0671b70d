SPECIFICATION Spec
CONSTANTS
    NumDocs = 2
    NumChunks = 2
    BatchSize = 1
    MaxRetries = 0
    PageSize = 1
    MaxReindexRuns = 1
    Jobs = {j1, j2}
    Contents = {c1}
    Owners = {}
    NoOwner = NoOwner
    Faults = {"api_crash", "worker_crash", "broker_down", "ambiguous_enqueue"}
    RetryLimitRaises = {"MaxRetriesExceededError", "exc"}
SYMMETRY JobSymmetry
INVARIANTS
    TypeOK
    FinishedOrDecided
    ReindexCovers
PROPERTY KeepsLifecycle
CHECK_DEADLOCK FALSE

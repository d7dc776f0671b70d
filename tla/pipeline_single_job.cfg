SPECIFICATION FairSpec
CONSTANTS
    NumDocs = 2
    NumChunks = 2
    BatchSize = 1
    MaxRetries = 1
    PageSize = 1
    MaxReindexRuns = 0
    Jobs = {j1, j2}
    Contents = {c1, c2}
    Owners = {o1}
    NoOwner = NoOwner
    Faults = {"broker_down"}
    RetryLimitRaises = {"MaxRetriesExceededError"}
INVARIANTS
    SearchAllOrNothing
PROPERTIES
    KeepsSingleJobLifecycle
    EventuallyDecided
CHECK_DEADLOCK FALSE

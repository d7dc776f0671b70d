SPECIFICATION FairSpec
CONSTANTS
    NumDocs = 1
    NumChunks = 2
    BatchSize = 1
    MaxRetries = 1
    PageSize = 1
    MaxReindexRuns = 0
    Jobs = {j1, j2}
    Contents = {c1}
    Owners = {}
    NoOwner = NoOwner
    Faults = {}
    RetryLimitRaises = {"exc"}
PROPERTY EventuallyDecided
CHECK_DEADLOCK FALSE

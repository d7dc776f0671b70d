SPECIFICATION EndpointSpec
CONSTANTS
    Requests = {r1, r2}
    Convs = {c1}
    Owners = {o1, o2}
    NoOwner = NoOwner
    NoRow = NoRow
    ToolMaxRounds = 1
    MaxCalls = 1
    ModelText = {"clean"}
    Registries = {TRUE}
    GuardEnabled = FALSE
    RecursionLimit = 8
    Faults = {"db_error", "crash"}
SYMMETRY Symmetry
INVARIANTS
    ExchangesWhole
    OwnedConversations
    RecordsTruthful
    NoOrphanRun
CHECK_DEADLOCK FALSE

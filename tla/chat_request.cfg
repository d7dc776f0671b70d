SPECIFICATION FairEndpointSpec
CONSTANTS
    Requests = {r1}
    Convs = {c1}
    Owners = {o1}
    NoOwner = NoOwner
    NoRow = NoRow
    ToolMaxRounds = 2
    MaxCalls = 2
    ModelText = {"clean", "sensitive"}
    Registries = {TRUE, FALSE}
    GuardEnabled = TRUE
    RecursionLimit = 10
    Faults = {"db_error", "ambiguous_commit", "checkpoint_error", "crash"}
INVARIANTS
    StreamWellFormed
    StreamTruthful
    ToolRunsSettled
    GuardedAnswers
PROPERTIES
    KeepsContract
    EventuallyAnswered
CHECK_DEADLOCK FALSE

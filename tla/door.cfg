SPECIFICATION DoorSpec
CONSTANTS
    Keys = {k1}
    Limit = 2
    WindowSeconds = 2
    TicksPerSecond = 2
    MaxTicks = 7
    MaxRequests = 5
    MaxClockSteps = 1
    MaxRestarts = 1
    RateLimitEnabled = TRUE
    MaxBytes = 2
    ChunkBytes = {1, 2}
    MaxChunks = 3
    MaxParts = 2
    Statuses = {200, 404, 500}
    BodyErrorAnswered = TRUE
    Users = {u1, u2}
    NoOne = NoOne
    ApiKeys = {a1, a2}
    Things = {x1}
    Calls = {c1, c2}
    AuthEnabled = TRUE
    Throttle = 2
    MaxStall = 1
    MaxClock = 5
    Getters = {g1, g2, g3}
    Nobody = Nobody
SYMMETRY Symmetry
INVARIANTS
    BurstBound
    RetryAfterHonest
    RecordedAsSent
    OwnRowsOnly
    LastUsedFresh
    OneWorkflow
PROPERTY RevocationStays
CHECK_DEADLOCK FALSE

SPECIFICATION AlgorithmSpec
CONSTANTS
    ChunkSize = 4
    Overlap = 3
    MaxLength = 8
    Chunks <- FourChunks
    TopK = 2
    MinScore = 1
    MaxPerDocument = 1
    CandidateLimit = 4
    RerankEnabled = TRUE
    MaxScore = 1
    MaxRelevance = 1
    MaxRankings = 2
INVARIANTS
    InkCovered
    ChunksInOrder
    RerankFollowsAnswer
    SelectedBest
PROPERTY EventuallyDone
CHECK_DEADLOCK FALSE

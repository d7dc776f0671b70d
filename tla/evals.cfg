SPECIFICATION EvalSpec
CONSTANTS
    Files = {"f1", "f2"}
    Users = {"u1", "u2"}
    Keys = {"name", "language"}
    RagCases <- OneRagCase
    ChatCases <- TwoChatCases
    MemoryCases <- ThreeMemoryCases
    NoUser = "none"
    ToolMaxRounds = 1
    MinDocuments = 100
    MinChunks = 100
    MinChat = 50
    MinMemory = 30
    MaxRuns = 2
    MaxId = 3
INVARIANTS
    GateHonest
    SuiteReportFounded
    RerunAgrees
CHECK_DEADLOCK FALSE

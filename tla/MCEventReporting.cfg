CONSTANTS
    Handlers = {h1, h2}
    Masters = {"m"}
    Events <- MCEvents
    Policies <- MCPolicies
    HistoryMax = 1
    Backends = {"valkey", "memory"}
    Disturbances = {"lookup"}
    NoEvent = NoEvent
    Sentinels = {"s1"}
    RetryCount = 2
    MaxRuns = 2
SPECIFICATION ReportingFairSpec
INVARIANTS
    ExitZeroIsHandled
    HistoryBounded
PROPERTIES
    ExitZeroIsCounted
    TargetLeadsToAct
    WindowCloses
CHECK_DEADLOCK FALSE

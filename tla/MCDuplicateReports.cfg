CONSTANTS
    Handlers = {h1, h2}
    Masters = {"m"}
    Events <- MCEvents
    Policies <- MCPolicies
    HistoryMax = 1
    Backends = {"valkey"}
    Disturbances = {}
    NoEvent = NoEvent
    Sentinels = {"s1", "s2"}
    RetryCount = 2
    MaxRuns = 1
SPECIFICATION ReportingSpec
INVARIANT QuorumOfSentinels
CHECK_DEADLOCK FALSE

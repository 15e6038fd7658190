CONSTANTS
    Handlers = {h1, h2}
    Masters = {"m"}
    Events <- MCEvents
    Policies <- MCPolicies
    HistoryMax = 1
    Backends = {"valkey"}
    Disturbances = {"crash"}
    NoEvent = NoEvent
SPECIFICATION FairSpec
PROPERTY WindowCloses
CHECK_DEADLOCK FALSE

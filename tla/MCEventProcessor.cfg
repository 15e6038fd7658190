CONSTANTS
    Handlers = {h1, h2, h3}
    Masters = {"m"}
    Events <- MCEvents
    Policies <- MCPolicies
    HistoryMax = 1
    Backends = {"valkey", "memory"}
    Disturbances = {"crash", "lookup", "incr", "expire", "history", "edit"}
    NoEvent = NoEvent
SYMMETRY HandlerSymmetry
SPECIFICATION Spec
INVARIANTS
    TypeOK
    NumberedOnce
    ActsOncePerWindow
    ActsWithQuorum
    TargetNotSkipped
PROPERTY ImplementsEventWindow
CHECK_DEADLOCK FALSE

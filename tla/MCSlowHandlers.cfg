CONSTANTS
    Handlers = {h1, h2}
    Clusters = {"c1"}
    GroupOf <- MCGroupOf
    Nodes = {n1, n2, n3}
    Hostnames = {}
    Configs <- MCConfigs
    MaxChanges = 2
    MaxFailovers = 2
    SlowHandlers = TRUE
    FaultSets <- NoFault
    NoHandler = NoHandler
    NoEvent = NoEvent
    NoDetail = NoDetail
SPECIFICATION Spec
INVARIANT MutualExclusion
CHECK_DEADLOCK FALSE

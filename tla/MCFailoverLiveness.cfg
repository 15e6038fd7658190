CONSTANTS
    Handlers = {h1, h2}
    Clusters = {"c1"}
    GroupOf <- MCGroupOf
    Nodes = {n1, n2, n3}
    Hostnames = {n3}
    Configs <- MCConfigs
    MaxChanges = 2
    MaxFailovers = 1
    SlowHandlers = FALSE
    FaultSets <- SomeFaults
    NoHandler = NoHandler
    NoEvent = NoEvent
    NoDetail = NoDetail
SPECIFICATION FairSpec
PROPERTIES
    PrimaryFollowsMaster
    LocksFreed
CHECK_DEADLOCK FALSE

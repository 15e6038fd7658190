CONSTANTS
    Handlers = {h1, h2}
    Clusters = {"c1"}
    GroupOf <- MCGroupOf
    Nodes = {n1, n2, n3}
    Hostnames = {}
    Configs <- MCConfigs
    MaxChanges = 2
    MaxFailovers = 2
    SlowHandlers = FALSE
    FaultSets <- NoFault
    NoHandler = NoHandler
    NoEvent = NoEvent
    NoDetail = NoDetail
SPECIFICATION FairSpec
PROPERTY PrimaryFollowsMaster
CHECK_DEADLOCK FALSE

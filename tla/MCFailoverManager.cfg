CONSTANTS
    Handlers = {h1, h2}
    Clusters = {"c1"}
    GroupOf <- MCGroupOf
    Nodes = {n1, n2, n3}
    Hostnames = {}
    Configs <- MCConfigs
    MaxChanges = 3
    MaxFailovers = 2
    SlowHandlers = FALSE
    FaultSets <- EveryFault
    NoHandler = NoHandler
    NoEvent = NoEvent
    NoDetail = NoDetail
SYMMETRY MCSymmetry
SPECIFICATION Spec
INVARIANTS
    TypeOK
    MutualExclusion
    PrimaryHeldThroughKill
    ReplicaRecordKept
PROPERTIES
    FailoverStepExcludesPrimary
    ReplicaDownStepExcludesNode
CHECK_DEADLOCK FALSE

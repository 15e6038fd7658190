CONSTANTS
    Requests = {r1, r2}
    SentinelAddrs = {s1, s2}
    Nodes = {n1, n2, n3}
    Forms <- MCForms
    MaxServed = 3
    MaxServedFaulty = 2
    MaxPromotions = 1
    AdminFaults <- OneOfAll
    FirstMaster = n1
    NoCluster = NoCluster
    NoMonitor = NoMonitor
    NoDetail = NoDetail
    NoRequest = NoRequest
SPECIFICATION ClusterSpec
INVARIANTS
    ClusterTypeOK
    ClusterListed
    NoOrphanRecord
    PauseReachesSentinels
PROPERTIES
    DeleteCleansUp
    SyncRepairs
SYMMETRY MCSymmetry
CHECK_DEADLOCK FALSE

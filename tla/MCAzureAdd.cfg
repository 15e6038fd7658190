CONSTANTS
    Callers = {c1, c2}
    Values = {v1, v2, v3}
    Providers = {"azure"}
    Operations = {"update", "values", "add", "remove", "delete"}
    FaultSets <- EveryFault
    NoCaller = NoCaller
SPECIFICATION Spec
INVARIANT AddKeepsOthers
CHECK_DEADLOCK FALSE

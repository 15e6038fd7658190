CONSTANTS
    Callers = {c1, c2}
    Values = {v1, v2, v3}
    Providers = {"route53", "azure", "cloudflare", "restapi"}
    Operations = {"update", "values", "add", "remove", "delete"}
    FaultSets <- EveryFault
    NoCaller = NoCaller
SYMMETRY MCSymmetry
SPECIFICATION Spec
INVARIANTS
    TypeOK
    AgreesWithInterface
    SuccessIsDone
PROPERTY EmptiedOnlyByDelete
CHECK_DEADLOCK FALSE

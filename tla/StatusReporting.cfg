SPECIFICATION Spec
CONSTANTS
    States = {"ready", "degraded"}
    Ready = "ready"
    MaxStatuses = 2
    OtherReports = {heartbeat}
    Nobody = Nobody
INVARIANTS
    NoLostStatus
    ChangeIsReported
    MixedIsCorrected
PROPERTIES
    ReportsInOrder
    ChangeEventuallyTold
    DeliversState
    DeliversResources

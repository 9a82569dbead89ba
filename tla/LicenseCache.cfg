SPECIFICATION Spec
CONSTANTS
    Requests = {r1, r2}
    Heartbeat = Heartbeat
    Fields = {seats}
    MaxChanges = 1
    NoMap = NoMap
INVARIANTS
    FreshAnswers
    AloneRefreshes
PROPERTIES
    LicenseConverges

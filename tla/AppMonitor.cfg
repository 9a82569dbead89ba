SPECIFICATION Spec
CONSTANTS
    Direct = {deploy}
    Derived = {svc}
    Unsupported = {job}
    MaxChanges = 3
    MaxApplies = 2
INVARIANTS
    NoSendOnClosed
PROPERTIES
    StatesMoveForward
    StatusConverges
    CancelledRunFallsSilent
CHECK_DEADLOCK FALSE

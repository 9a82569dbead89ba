SPECIFICATION Spec
CONSTANTS
    Appends = {a1, a2, a3}
    Pods = {pod1, pod2}
    Sizes = {1, 2, 4}
    EventLimit = 2
    SizeLimit = 3
    Nobody = Nobody
INVARIANTS
    NewestThatFit
    EventsInOrder
    NoContentionInPod
    MutexesAreFreed
CHECK_DEADLOCK FALSE

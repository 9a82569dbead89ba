SPECIFICATION Spec
CONSTANTS
    MaxFailures = 1
    MaxRuns = 2
INVARIANTS
    PartsInOrder
    TaggedIsAttested
    SignedForItsRegistry
PROPERTIES
    EverythingIsPublished
CHECK_DEADLOCK FALSE

SPECIFICATION ServerSpec
CONSTANTS
    MaxFailures = 2
    MaxChanges = 1
    MaxOdd = 2
    MaxRequests = 2
    MaxFaults = 1
INVARIANTS
    OneReporter
    ServesChecked
    ImagesAreWatched
    UploadsAreHonest
PROPERTIES
    BootstrapEnds
    EveryUploadAnswered
CHECK_DEADLOCK FALSE

SPECIFICATION RolloutSpec
CONSTANTS
    Replicas = 2
    MaxGeneration = 3
    MaxFailures = 2
PROPERTIES
    ReadyIsWhole
    RolloutConverges
CHECK_DEADLOCK FALSE

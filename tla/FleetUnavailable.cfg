CONSTANTS
    MaxSets = 2
    InitialReplicas = 3
    Replicas = {3}
    Templates = {1, 2}
    Strategy = "RollingUpdate"
    MaxSurge = 1
    MaxUnavailable = 1
    New = FALSE
    SameSecond = FALSE
    MaxEarlySyncs = 0
    MaxChanges = 1
    MaxDisturbances = 0
SPECIFICATION Spec

PROPERTY DecrementsByMaxUnavailable
CHECK_DEADLOCK FALSE

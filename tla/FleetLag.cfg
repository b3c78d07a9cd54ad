CONSTANTS
    MaxSets = 3
    InitialReplicas = 2
    Replicas = {2}
    Templates = {1, 2}
    Strategy = "RollingUpdate"
    MaxSurge = 2
    MaxUnavailable = 1
    New = FALSE
    SameSecond = FALSE
    MaxEarlySyncs = 1
    MaxChanges = 1
    MaxDisturbances = 0
SPECIFICATION Spec
INVARIANT AllWithinSurge
CHECK_DEADLOCK FALSE

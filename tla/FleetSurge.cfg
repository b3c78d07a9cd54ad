CONSTANTS
    MaxSets = 3
    InitialReplicas = 2
    Replicas = {2}
    Templates = {1, 2, 3}
    Strategy = "RollingUpdate"
    MaxSurge = 1
    MaxUnavailable = 1
    New = FALSE
    SameSecond = FALSE
    MaxEarlySyncs = 0
    MaxChanges = 2
    MaxDisturbances = 0
SPECIFICATION Spec
INVARIANT AllWithinSurge
CHECK_DEADLOCK FALSE

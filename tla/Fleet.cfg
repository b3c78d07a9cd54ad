CONSTANTS
    MaxSets = 2
    InitialReplicas = 2
    Replicas = {2}
    Templates = {1, 2}
    Strategy = "RollingUpdate"
    MaxSurge = 1
    MaxUnavailable = 1
    New = FALSE
    SameSecond = FALSE
    MaxEarlySyncs = 0
    MaxChanges = 1
    MaxDisturbances = 1
SPECIFICATION Spec
INVARIANTS TypeOK SizesWithinSurge
PROPERTIES OldSetsOnlyShrink RolloutCompletes StatusTellsTheTruth
CHECK_DEADLOCK FALSE

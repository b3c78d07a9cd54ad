CONSTANTS
    MaxSets = 3
    InitialReplicas = 1
    Replicas = {1}
    Templates = {1, 2}
    Strategy = "RollingUpdate"
    MaxSurge = 1
    MaxUnavailable = 1
    New = FALSE
    SameSecond = FALSE
    MaxEarlySyncs = 1
    MaxChanges = 1
    MaxDisturbances = 0
SPECIFICATION Spec
INVARIANTS TypeOK SizesWithinSurge
PROPERTIES OldSetsOnlyShrink RolloutCompletes StatusTellsTheTruth
CHECK_DEADLOCK FALSE

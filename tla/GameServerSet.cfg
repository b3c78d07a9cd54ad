CONSTANTS
    MaxCreated = 3
    InitialReplicas = 1
    Replicas = {2}
    MaxCreations = 1
    MaxDeletions = 1
    MaxPending = 1
    MaxChanges = 1
    MaxFaults = 1
SPECIFICATION Spec
INVARIANTS TypeOK
PROPERTIES NeverTooMany SetGetsToItsSize StatusTellsTheTruth
CHECK_DEADLOCK FALSE

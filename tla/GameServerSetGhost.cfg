CONSTANTS
    MaxCreated = 2
    InitialReplicas = 1
    Replicas = {}
    MaxCreations = 1
    MaxDeletions = 1
    MaxPending = 1
    MaxChanges = 1
    MaxFaults = 0
SPECIFICATION Spec
PROPERTY AlwaysAsManyAsRequested
CHECK_DEADLOCK FALSE

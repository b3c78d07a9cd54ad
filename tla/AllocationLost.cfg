CONSTANTS
    r1 = r1
    r2 = r2
    GameServers = {g1}
    Requests = {r1}
    Selectors <- ReadyOnly
    Key <- SameKey
    Steps = 2
    MaxBatchQueue = 1
    MaxBatchBeforeRefresh = 2
    MaxChanges = 1
    MaxFaults = 0
SPECIFICATION FairSpec
PROPERTY ReadyIsAllocatable
CHECK_DEADLOCK FALSE

CONSTANTS
    r1 = r1
    r2 = r2
    GameServers = {g1}
    Requests = {r1, r2}
    Selectors <- ReadyOrShared
    Key <- OtherKey
    Steps = 2
    MaxBatchQueue = 1
    MaxBatchBeforeRefresh = 1
    MaxChanges = 1
    MaxFaults = 1
SPECIFICATION FairSpec
PROPERTIES RequestsAreAnswered
CHECK_DEADLOCK FALSE

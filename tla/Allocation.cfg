CONSTANTS
    r1 = r1
    r2 = r2
    GameServers = {g1}
    Requests = {r1, r2}
    Selectors <- ReadyOrShared
    Key <- SameKey
    Steps = 2
    MaxBatchQueue = 1
    MaxBatchBeforeRefresh = 2
    MaxChanges = 1
    MaxFaults = 1
SPECIFICATION FairSpec
INVARIANTS TypeOK NothingAllocatedInVain
PROPERTIES TakenAsAsked RequestsAreAnswered
CHECK_DEADLOCK FALSE

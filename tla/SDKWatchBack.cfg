CONSTANTS
    Watchers = {"w1"}
    InitialGameServer <- ReadyGameServer
    FeaturePlayerTracking = TRUE
    GameServerStates = {"Allocated"}
    LabelValues = {"a"}
    CounterKey = "rooms"
    Counts = {1}
    MaxChanges = 2
    MaxRestarts = 0
SPECIFICATION Spec
PROPERTIES WatchersNeverGoBack
CHECK_DEADLOCK FALSE

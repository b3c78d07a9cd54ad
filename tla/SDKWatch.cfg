CONSTANTS
    Watchers = {"w1", "w2"}
    InitialGameServer <- ReadyGameServer
    FeaturePlayerTracking = TRUE
    GameServerStates = {"Allocated"}
    LabelValues = {"a"}
    CounterKey = "rooms"
    Counts = {1}
    MaxChanges = 2
    MaxRestarts = 1
SPECIFICATION Spec
INVARIANTS TypeOK AnswersHaveWhatWasWritten
PROPERTIES AnswersNeverGoBack AnswersCatchUp ConnectedWatchersLearn
CHECK_DEADLOCK FALSE

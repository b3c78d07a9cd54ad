CONSTANTS
    Requests <- Everything
    Slots = {1, 2}
    CounterKey = "rooms"
    ListKey = "list"
    InitialCounter <- ACounter
    InitialList <- AList
    InitialPlayers <- OnePlayer
    MaxListCapacity = 3
    Amounts = {1}
    Capacities = {1}
    Values = {"a"}
    MaxCalls = 2
    MaxChanges = 1
    MaxFaults = 1
SPECIFICATION Spec
INVARIANTS TypeOK WithinCapacity
PROPERTIES BatchesApplyToTheLatest WritingIsInvisible BatchesAreWritten PlayersAreReported
CHECK_DEADLOCK FALSE

CONSTANTS
    Requests <- ReadAndWrite
    Slots = {1}
    CounterKey = "rooms"
    ListKey = "list"
    InitialCounter <- ACounter
    InitialList <- AList
    InitialPlayers <- OnePlayer
    MaxListCapacity = 3
    Amounts = {1}
    Capacities = {1}
    Values = {"a"}
    MaxCalls = 2
    MaxChanges = 0
    MaxFaults = 0
SPECIFICATION Spec
PROPERTY ReadsAreAccurate
CHECK_DEADLOCK FALSE

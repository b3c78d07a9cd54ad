CONSTANTS
    Requests <- AllocateReserved
    Keys = {"key"}
    Values = {"a"}
    Slots = {"c1"}
    Changes = {}
    FailureThreshold = 2
    HealthDisabled = FALSE
    MaxCalls = 2
    MaxDisturbances = 0
SPECIFICATION Spec
PROPERTY TimerIsTurnedOff
CHECK_DEADLOCK FALSE

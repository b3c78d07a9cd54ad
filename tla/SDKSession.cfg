CONSTANTS
    Requests <- Everything
    Keys = {"key"}
    Values = {"a"}
    Slots = {"c1"}
    Changes = {"Allocate", "Delete", "Fail"}
    FailureThreshold = 2
    HealthDisabled = FALSE
    MaxCalls = 1
    MaxDisturbances = 2
SPECIFICATION Spec
INVARIANTS TypeOK
PROPERTIES ThereIsNoEscaping OnlySilenceIsUnhealthy RequestsArrive ReservationEnds HangIsNoticed
CHECK_DEADLOCK FALSE

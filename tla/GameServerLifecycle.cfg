CONSTANTS
    Nodes = {n1, n2}
    Kinds = {"fault", "pod", "sdk", "user"}
    MaxEvents = 2
    MaxBusy = 2
SPECIFICATION Spec
SYMMETRY Symmetry
INVARIANTS TypeOK ReadyHasAddress
PROPERTIES FollowsTheStates
CHECK_DEADLOCK FALSE

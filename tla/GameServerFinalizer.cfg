CONSTANTS
    Nodes = {n1}
    Kinds = {"fault", "pod", "sdk", "user"}
    MaxEvents = 1
    MaxBusy = 1
SPECIFICATION Spec
PROPERTY FinalizerOutlivesPod
CHECK_DEADLOCK FALSE

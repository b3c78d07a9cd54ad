CONSTANTS
    Nodes = {n1}
    Kinds = {"fault", "pod", "sdk", "user"}
    MaxEvents = 2
    MaxBusy = 1
SPECIFICATION FairSpec
PROPERTY MissingPodIsNoticed
CHECK_DEADLOCK FALSE

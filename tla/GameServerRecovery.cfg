CONSTANTS
    Nodes = {n1}
    Kinds = {"fault", "pod"}
    MaxEvents = 2
    MaxBusy = 1
SPECIFICATION FairSpec
PROPERTIES DeletionCompletes LostPodIsNoticed
CHECK_DEADLOCK FALSE

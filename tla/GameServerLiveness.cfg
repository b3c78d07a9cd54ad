CONSTANTS
    Nodes = {n1, n2}
    Kinds = {"fault", "pod", "sdk", "user"}
    MaxEvents = 1
    MaxBusy = 1
SPECIFICATION FairSpec
PROPERTIES DeletionCompletes LostPodIsNoticed MigrationIsNoticed StartupProgresses
CHECK_DEADLOCK FALSE

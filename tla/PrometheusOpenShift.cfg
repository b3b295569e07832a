SPECIFICATION FairSpec
CONSTANTS
    p1 = p1
    p2 = p2
    n1 = n1
    n2 = n2
    r2 = r2
    Proms = {p1, p2}
    First = p2
    Platform = "openshift"
    Primary = p1
    Ns <- OwnNs
    Project <- NoProject
    FirstToken = 0
    Legacy = Legacy
    LegacyNs = {}
    None = None
    MaxStates = 1
    MaxTokens = 0
    MaxDeletes = 2
    MaxDrops = 0
    MaxHubFaults = 1
    MaxApiFaults = 0
    MaxCrashes = 1
INVARIANTS OpenShiftLeavesOthers
PROPERTIES ImplementsFinalizerContract DeletionCompletes
CHECK_DEADLOCK FALSE

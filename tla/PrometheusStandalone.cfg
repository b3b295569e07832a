SPECIFICATION Spec
CONSTANTS
    p1 = p1
    p2 = p2
    n1 = n1
    n2 = n2
    r2 = r2
    Proms = {p1}
    First = p1
    Platform = "plain"
    Primary = None
    Ns <- OwnNs
    Project <- NoProject
    FirstToken = 0
    Legacy = Legacy
    LegacyNs = {n1}
    None = None
    MaxStates = 2
    MaxTokens = 0
    MaxDeletes = 2
    MaxDrops = 1
    MaxHubFaults = 1
    MaxApiFaults = 1
    MaxCrashes = 1
INVARIANTS Inv
PROPERTIES RegistrationNeedsFinalizer ImplementsFinalizerContract
CHECK_DEADLOCK FALSE

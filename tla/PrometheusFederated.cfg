SPECIFICATION FairSpec
CONSTANTS
    p1 = p1
    p2 = p2
    n1 = n1
    n2 = n2
    r2 = r2
    Proms = {p1, p2}
    First = p1
    Platform = "rancher"
    Primary = p1
    Ns <- OwnNs
    Project <- SecondInProject
    FirstToken = 1
    Legacy = Legacy
    LegacyNs = {}
    None = None
    MaxStates = 1
    MaxTokens = 1
    MaxDeletes = 0
    MaxDrops = 0
    MaxHubFaults = 1
    MaxApiFaults = 1
    MaxCrashes = 1
INVARIANTS SettledIsRegistered
PROPERTIES StampedMeansRegistered Converges
CHECK_DEADLOCK FALSE

SPECIFICATION FairSpec
CONSTANTS
    MaxStates = 2
    MaxLabels = 0
    MaxLives = 1
    MaxDrops = 1
    MaxHubFaults = 1
    MaxApiFaults = 1
    MaxCrashes = 1
INVARIANTS Inv
PROPERTIES StampedMeansRegistered ActiveIsProvisioned DeletionCompletes
CHECK_DEADLOCK FALSE

SPECIFICATION FairSpec
CONSTANTS
    MaxStates = 1
    MaxLabels = 1
    MaxLives = 2
    MaxDrops = 0
    MaxHubFaults = 0
    MaxApiFaults = 1
    MaxCrashes = 1
PROPERTIES ImplementsFinalizerContract TerminatedIsSwept
CHECK_DEADLOCK FALSE

SPECIFICATION FairSpec
CONSTANTS
    States = {sA, sB}
    NoState = NoState
    FirstExpiries = {0, 2, 4}
    TTL = 3
    Offset = 1
    MaxTime = 6
    MaxTokens = 12
    MaxChanges = 1
    MaxReplacements = 1
    MaxResyncs = 1
    MaxFaults = 1
    MaxCrashes = 1
INVARIANTS Inv SettledIsFresh LeaksAreAccounted
PROPERTIES FoundNeverShortens Settles
CHECK_DEADLOCK FALSE

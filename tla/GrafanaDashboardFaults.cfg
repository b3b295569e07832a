SPECIFICATION FairSpec
CONSTANTS
    d1 = d1
    d2 = d2
    b1 = b1
    b2 = b2
    gA = gA
    Dashboards = {d1}
    Bindings = {b1}
    Ref <- SharedRef
    Grafanas = {gA, gB}
    NoGrafana = NoGrafana
    FirstBindings <- AnyBinding
    NoKey = NoKey
    Rejected = {2}
    Malformed = {}
    MaxGeneration = 3
    MaxRebinds = 1
    MaxFaults = 1
    MaxCrashes = 1
INVARIANTS Inv SettledIsSynced
PROPERTIES PushNeedsFinalizer ImplementsContractUndisturbed Converges
CHECK_DEADLOCK FALSE

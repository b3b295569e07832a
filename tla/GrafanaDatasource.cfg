SPECIFICATION FairSpec
CONSTANTS
    Datasources = {dA}
    Grafanas = {gA, gB}
    NoGrafana = NoGrafana
    FirstBindings <- AnyBinding
    NoKey = NoKey
    MaxGeneration = 3
    MaxRebinds = 1
    MaxFaults = 1
    MaxCrashes = 1
    MaxResyncs = 1
INVARIANTS Inv StatusIsHonest
PROPERTIES NeverForeign ImplementsContractUndisturbed Converges
CHECK_DEADLOCK FALSE

SPECIFICATION FairSpec
CONSTANTS
    d1 = d1
    d2 = d2
    b1 = b1
    b2 = b2
    gA = gA
    Dashboards = {d1, d2}
    Bindings = {b1, b2}
    Ref <- OwnRef
    Grafanas = {gA, gB}
    NoGrafana = NoGrafana
    FirstBindings <- HalfBound
    NoKey = NoKey
    Rejected = {}
    Malformed = {}
    MaxGeneration = 1
    MaxRebinds = 1
    MaxFaults = 0
    MaxCrashes = 0
PROPERTIES Converges
CHECK_DEADLOCK FALSE

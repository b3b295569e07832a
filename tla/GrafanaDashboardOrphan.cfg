SPECIFICATION Spec
CONSTANTS
    d1 = d1
    d2 = d2
    b1 = b1
    b2 = b2
    gA = gA
    Dashboards = {d1}
    Bindings = {b1}
    Ref <- SharedRef
    Grafanas = {gA, gB}
    NoGrafana = NoGrafana
    FirstBindings <- AnyBinding
    NoKey = NoKey
    Rejected = {}
    Malformed = {}
    MaxGeneration = 1
    MaxRebinds = 0
    MaxFaults = 1
    MaxCrashes = 0
PROPERTIES ImplementsFinalizerContract
CHECK_DEADLOCK FALSE

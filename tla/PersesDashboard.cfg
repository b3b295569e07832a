SPECIFICATION FairSpec
CONSTANTS
    d1 = d1
    d2 = d2
    b1 = b1
    b2 = b2
    pA = pA
    Dashboards = {d1, d2}
    Edited = {d1}
    Bindings = {b1, b2}
    Ref <- OwnRef
    Servers = {pA, pB}
    NoServer = NoServer
    FirstBindings <- HalfBound
    NoKey = NoKey
    MaxEdits = 1
    MaxRebinds = 1
    MaxFaults = 1
    MaxEvents = 2
INVARIANTS Inv SettledIsPresent
PROPERTIES BindingEventRequeues PostNeedsFinalizer Converges
CHECK_DEADLOCK FALSE

SPECIFICATION FairSpec
CONSTANTS
    dflt = dflt
    pA = pA
    m1 = m1
    Monitors = {m1}
    Proms = {dflt, pA}
    Rank <- Sorting
    Primary = dflt
    NoProm = NoProm
    NoKey = NoKey
    Platforms = {"openshift", "rancher"}
    Insides <- AnyInside
    MaxEvents = 2
INVARIANTS Inv SettledIsServed SettledIsFederated
PROPERTIES Converges
CHECK_DEADLOCK FALSE

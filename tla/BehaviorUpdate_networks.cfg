CONSTANTS
    Nodes <- MCNodes
    Networks <- CheckedNetworks
    Values <- MCValues
    Inputs = {0, 1}
    NoNode = 0
    Fn <- MCFn
    MaxCalls = 5
SPECIFICATION FairSpec
INVARIANTS TypeOK FlippingOnStack OneSample
PROPERTIES NextIsASample NoGrowth NextReturns
CHECK_DEADLOCK FALSE

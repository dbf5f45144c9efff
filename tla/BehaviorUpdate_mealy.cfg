CONSTANTS
    Nodes <- MCNodes
    Networks <- Mealy
    Values <- MCValues
    Inputs = {0, 1}
    NoNode = 0
    Fn <- MCFn
    MaxCalls = 4
SPECIFICATION Spec
INVARIANTS AllUpdated
CHECK_DEADLOCK FALSE

CONSTANTS
    NBuffers = 2
    MaxCalls = 3
    Stoppable = TRUE
    TornReads = TRUE
SPECIFICATION FairSpec
PROPERTIES EveryCallReturns
CHECK_DEADLOCK FALSE

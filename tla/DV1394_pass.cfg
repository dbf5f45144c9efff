CONSTANTS
    NBuffers = 2
    MaxCalls = 3
    Packets = 2
    MaxShots = 3
    MaxLost = 1
    MaxOpens = 2
SPECIFICATION FairSpec
INVARIANTS TypeOK Conservation Whole
PROPERTIES ImplementsMailbox NewestTaken EveryCallReturns
CHECK_DEADLOCK FALSE

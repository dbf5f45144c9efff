CONSTANTS
    NBuffers = 3
    MaxCalls = 4
    MaxShots = 6
SPECIFICATION Spec
INVARIANTS TypeOK Conservation HandedOutStable
CHECK_DEADLOCK FALSE

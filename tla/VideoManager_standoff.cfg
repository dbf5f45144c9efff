CONSTANTS
    NBuffers = 3
    MaxCalls = 3
    MaxShots = 5
SPECIFICATION Spec
INVARIANTS CompletionReturned
CHECK_DEADLOCK FALSE

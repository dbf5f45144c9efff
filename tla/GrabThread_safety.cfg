CONSTANTS
    NBuffers = 3
    MaxCalls = 5
    Stoppable = TRUE
    TornReads = FALSE
SPECIFICATION Spec
INVARIANTS TypeOK OneUnlockOwed PopsWhatItRead HandedOutStable
PROPERTIES EachFrameNewer ImplementsAcquisition
CHECK_DEADLOCK FALSE

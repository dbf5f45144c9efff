CONSTANTS
    MaxFrames = 2
    MaxDrawings = 1
    MaxEvents = 1
SPECIFICATION FairSpec
PROPERTIES WokenForFrame
CHECK_DEADLOCK FALSE

CONSTANTS
    MaxFrames = 2
    MaxDrawings = 1
    MaxEvents = 0
SPECIFICATION FairSpec
PROPERTIES EverySubmitted
CHECK_DEADLOCK FALSE

CONSTANTS
    MaxFrames = 3
    MaxDrawings = 2
    MaxEvents = 0
SPECIFICATION Spec
INVARIANTS TypeOK Exclusive PipelineOrder NewestKept
PROPERTIES SentInOrder
CHECK_DEADLOCK FALSE

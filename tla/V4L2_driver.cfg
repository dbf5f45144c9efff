SPECIFICATION FairSpec
CONSTANTS
    NBuffers = 2
    MaxCalls = 5
    MaxFailures = 2
    MaxOpens = 2
INVARIANTS
    TypeOK
    GivesWhatIsAsked
    ReadsItsOwn
PROPERTIES
    EachFrameNewer
    EveryCallReturns
CHECK_DEADLOCK FALSE

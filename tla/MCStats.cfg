CONSTANTS
    Capacity = 2
    MaxSamples = 4
SPECIFICATION Spec
INVARIANTS
    EverySampleAccounted
    OrderedUnlessOvertaken
    NormalEndDrains
PROPERTIES
    CallEndsStream
    CancelEndsStream
    EverySampleSettles
CHECK_DEADLOCK FALSE

CONSTANTS
    Alphabet = {"x", "LF", "CR"}
    Streams = {"stdout", "stderr"}
    MaxBytes = 4
    BufferSize = 3
SPECIFICATION Spec
INVARIANTS
    ChunksInvisible
    EndDeliversAll
PROPERTIES
    CancelEnds
    LinesArrive
CHECK_DEADLOCK FALSE

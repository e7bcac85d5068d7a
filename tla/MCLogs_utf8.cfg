CONSTANTS
    Alphabet = {"x", "lead", "trail"}
    Streams = {"stdout"}
    MaxBytes = 3
    BufferSize = 2
SPECIFICATION Spec
INVARIANT CharactersSurvive
CHECK_DEADLOCK FALSE

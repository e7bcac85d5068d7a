CONSTANTS
    MaxEffects = 2
    MaxItems = 4
    MaxLines = 2
SPECIFICATION Spec
INVARIANTS
    ViewOfShownContainer
    InterruptionShown
PROPERTIES
    DisposedComesToRest
    WaitingEnds
CHECK_DEADLOCK FALSE

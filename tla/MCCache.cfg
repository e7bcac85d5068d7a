CONSTANTS
    Pages = {"dashboard", "images"}
    Queries = {"systemInfo", "images"}
    Hooks = {"pullImage"}
    MaxWorld = 2
    None = None
SPECIFICATION Spec
INVARIANTS
    ListShowsOwnChanges
    NeverBlank
PROPERTY KeepsView
CHECK_DEADLOCK FALSE

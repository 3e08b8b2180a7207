CONSTANTS
    Drag = {"d1"}
    IsAdmin = FALSE
    MaxTime = 1
    MaxId = 3
    MaxOps = 2
    MaxFailures = 1
SPECIFICATION Spec
INVARIANTS OneForOne SavedIsShown
PROPERTY Converges
CHECK_DEADLOCK FALSE

CONSTANTS
    MaxNotices = 3
    MaxClock = 1
    MaxSteps = 2
    MaxFailures = 1
    Device = {"d1", "d2"}
    MaxRuns = 2
    MaxMoves = 3
    MaxOthers = 1
SPECIFICATION Spec
INVARIANTS PostedIsCounted StartedIsKnown
PROPERTY PanelConverges
CHECK_DEADLOCK FALSE

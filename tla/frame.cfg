CONSTANTS
    Project = {"p1", "p2"}
    JobProject = "p1"
    MaxNavs = 1
    MaxPicks = 2
    MaxSignIns = 1
    MaxFailures = 1
    Notice = {1, 2}
    Prompt = {1}
    Custom = {2}
    EmailType = {"custom"}
    MaxReactions = 2
    MaxLooks = 1
    MaxFaults = 1
    TOAST_LIMIT = 1
    MaxToasts = 2
SPECIFICATION Spec
INVARIANTS LoadedIsSelected OutIsOut DismissedIsGone SwitchesAreSaved
PROPERTIES SelectionKept Settles OpenToastStays
CHECK_DEADLOCK FALSE

CONSTANTS
    MaxSub = 2
    MaxJob = 3
    MaxActs = 2
    MaxRunFailures = 1
SPECIFICATION RunSpec
INVARIANTS ErrorsAreOfDraft
PROPERTIES FinalIsShown
CHECK_DEADLOCK FALSE

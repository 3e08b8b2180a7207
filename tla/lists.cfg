\* Two rows, and one that may be made.
CONSTANTS
  Pages <- AllPages
  Row = {1, 2, 3}
  FirstRows = {1, 2}
  Own = {1}
  Filtered = {2}
  MaxMuts = 2
  MaxSteps = 2
  MaxOthers = 1
  MaxFailures = 1
SPECIFICATION Spec
INVARIANTS TypedIsOfRow ClosedIsGone
PROPERTIES PickedStays Converges
CHECK_DEADLOCK FALSE

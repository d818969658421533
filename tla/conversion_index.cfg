CONSTANTS
  Indices = {0, 1, 2}
  Routes <- ChatToResponses
  MaxItems = 2
  MaxDeltas = 2
SPECIFICATION Spec
INVARIANT ChatItemsWellFormed
CHECK_DEADLOCK FALSE

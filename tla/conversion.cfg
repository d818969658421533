CONSTANTS
  Indices = {0, 1, 2, 3}
  Routes <- AllRoutes
  MaxItems = 3
  MaxDeltas = 3
SPECIFICATION FairSpec
INVARIANTS DeltasInsideItems ClosedBeforeDone DeltasArrive StopReasonSurvives ItemsWellFormed
PROPERTIES StreamCompletes
CHECK_DEADLOCK FALSE

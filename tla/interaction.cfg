CONSTANTS
  r1 = r1 r2 = r2 q1 = q1 q2 = q2 i1 = i1 i2 = i2
  Runs = {r1, r2}
  Requests = {q1, q2}
  Ids = {i1, i2}
  RunOf <- RunOfTwo
  IdOf <- IdOfTwo
  None = None
  Delta = Delta
  Cap = 1
  Lossy = {r2}
  DefaultAllow = {r1}
  OneSlot = FALSE
  Cancellable = {r1}
  Replies <- NotPlain
  MaxAnswers <- FirstTwice
SPECIFICATION FairSpec
INVARIANTS DecisionWasGiven EntriesAreWaiters FailedTurnFails
PROPERTIES CancelEndsRun LaneAdvances
CHECK_DEADLOCK FALSE

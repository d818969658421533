CONSTANTS
  q1 = q1 q2 = q2
  Questions = {q1, q2}
  MaxDeltas = 1
  MaxDeaths = 1
  MaxRepeats = 1
  MaxDbErrors = 1
  MaxRemovals = 1
  MaxFaults = 2
SYMMETRY Symmetry
SPECIFICATION Spec
INVARIANTS OutcomeHasAnswer AnswerAfterQuestion AnswersBounded EndedAreMarked
PROPERTIES OutcomeStays
CHECK_DEADLOCK FALSE

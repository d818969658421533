CONSTANTS
  c1 = c1 c2 = c2 m1 = m1
  Commands = {c1, c2}
  Malformed = {}
  NoCommand = NoCommand
  MaxMsgs = 1
  MaxRedeliver = 2
  MaxRestarts = 2
  MayCrash = TRUE
  MayStop = TRUE
SYMMETRY Symmetry
SPECIFICATION Spec
INVARIANTS RerunOnlyAfterRestart
PROPERTIES OutcomeIsFinal
CHECK_DEADLOCK FALSE

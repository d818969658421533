CONSTANTS
  q1 = q1 q2 = q2 x1 = x1
  Questions = {q1}
  Streams = {x1}
  MaxOpens = 1
  MaxDeltas = 1
  MaxDeaths = 1
  MaxRepeats = 0
  MaxDbErrors = 0
  MaxRemovals = 0
  MaxFaults = 2
SPECIFICATION StreamSpec
INVARIANTS StreamOver
CHECK_DEADLOCK FALSE

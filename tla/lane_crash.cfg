CONSTANTS
  c1 = c1 c2 = c2 m1 = m1
  Commands = {c1, c2, m1}
  Malformed = {m1}
  NoCommand = NoCommand
  MaxMsgs = 3
  MaxRedeliver = 1
  MaxRestarts = 1
  MayCrash = TRUE
  MayStop = FALSE
SPECIFICATION FairSpec
INVARIANTS AckedIsRecorded
PROPERTIES CommandSettles
CHECK_DEADLOCK FALSE

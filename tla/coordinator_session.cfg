CONSTANTS
  s1 = s1 s2 = s2 s3 = s3 d1 = d1 k1 = k1 x1 = x1 x2 = x2 y1 = y1
  Calls = {s1, s2, s3}
  Direct = {}
  Keys = {k1}
  KeyOf <- OneSession
  NoCall = NoCall
  HasMerge = TRUE
  MaxConcurrency = 1
  Impatient = {}
  Cancels = {y1}
  Closers = {x1, x2}
SYMMETRY Symmetry
SPECIFICATION Spec
INVARIANTS SessionSerial SendNeverBlocks WaiterIsServed CloseDrainsCallers AnswerIsRunResult CancelStopsNamedRun PendingHasTaker
PROPERTIES RunOnce
CHECK_DEADLOCK FALSE

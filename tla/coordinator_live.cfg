CONSTANTS
  s1 = s1 s2 = s2 s3 = s3 d1 = d1 k1 = k1 x1 = x1 x2 = x2 y1 = y1
  Calls = {s1, s2}
  Direct = {d1}
  Keys = {k1}
  KeyOf <- OneSessionOfTwo
  NoCall = NoCall
  HasMerge = TRUE
  MaxConcurrency = 1
  Impatient = {s2}
  Cancels = {}
  Closers = {x1}
SPECIFICATION FairSpec
INVARIANTS SlotsCountRuns
PROPERTIES KeepsPromise SubmitReturns CloseCompletes
CHECK_DEADLOCK FALSE

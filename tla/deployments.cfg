CONSTANTS
  a1 = a1 a2 = a2 u1 = u1 u2 = u2 u3 = u3
  Assistants = {a1}
  Requests = {u1, u2}
  Reconciler = Reconciler
  None = None
  MaxStarts = 3
  MaxRestarts = 1
SPECIFICATION FairSpec
INVARIANTS InactiveIsListed
PROPERTIES ListedIsStopped
CHECK_DEADLOCK FALSE

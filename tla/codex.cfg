CONSTANTS
  MaxRuns = 2
  MaxDeltas = 1
  MaxFaults = 1
SPECIFICATION FairSpec
INVARIANTS PanicNeedsTrouble ResumesWhatEndedWell ConversationKept
PROPERTY RunEnds
CHECK_DEADLOCK FALSE

SPECIFICATION FairSpec
CONSTANTS
  MaxChunks = 2
  UsageMayClash = FALSE
CHECK_DEADLOCK FALSE
INVARIANT DeadlineDecides
INVARIANT OnlyUserStopsSave
PROPERTY StreamSpec
PROPERTY RequestEnds

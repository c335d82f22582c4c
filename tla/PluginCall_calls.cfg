SPECIFICATION FairSpec
CONSTANTS
  Calls = {c1, c2}
  MaxWorkers = 1
  Buffer = 2
  MaxEvents = 3
CONSTRAINT OneStream
CHECK_DEADLOCK FALSE
INVARIANT SlotsAccounted
INVARIANT CancelStopsEvents
PROPERTY CallerIsReleased
PROPERTY ThreadComesBack

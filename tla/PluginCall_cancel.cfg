SPECIFICATION Spec
CONSTANTS
  Calls = {c1}
  MaxWorkers = 1
  Buffer = 1
  MaxEvents = 1
CHECK_DEADLOCK FALSE
INVARIANT CancelIsNoFailure

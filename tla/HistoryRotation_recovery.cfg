SPECIFICATION Spec
CONSTANTS
  Records = {r1}
  Clients = {c1}
  MaxVersion = 2
  MaxRequests = 2
  MaxCrashes = 1
  NoFile = NoFile
CHECK_DEADLOCK FALSE
INVARIANT RecoveryCanEnd

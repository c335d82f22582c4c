SPECIFICATION MCSpec
CONSTANTS
  op1 = op1
  op2 = op2
  op3 = op3
  configureCmd = configureCmd
  optimizeCmd = optimizeCmd
  adminCmd = adminCmd
  cancelCmd = cancelCmd
  Operations = {op1, op2, op3}
  Commands = {configureCmd, optimizeCmd, adminCmd, cancelCmd}
  CommandsOf <- MCCommandsOf
  Kind <- MCKind
  Target <- MCTarget
  idA = idA
  MaxActive = 2
  MaxSeen = 3
  MaxChildren = 2
  Ids = {idA}
  BufferSize = 1
  EventsSize = 2
  MaxTombstones = 1
  MaxRequests = 2
  MaxChunks = 1
  MaxCancels = 1
INVARIANT RoutesAreTrue
INVARIANT ConfiguredFirst
INVARIANT NoStrayEvent
INVARIANT TerminalStays
PROPERTY NobodyIsLeftWaiting
CHECK_DEADLOCK FALSE

SPECIFICATION MCSpec
CONSTANTS
  Optional = {tr}
  History = hist
  Workers = {w1, w2}
  MaxConfigurations = 4
  MaxWork = 1
  Detectors = {d1, d2}
  Managers = {m1}
  Snapshots = {s1, s2}
  NoModel = NoModel
  NoResult = NoResult
  MaxGeneration = 1
  MaxFiles = 1
  MaxCalls = 2
  Protocols <- AllProtocols
  MaxAttempts = 3
  MaxEvents = 7
  MaxBody = 6
  MaxChunk = 3
  MaxBytes = 5
INVARIANT RecordUnderOnePolicy
INVARIANT OneInstance
INVARIANT WellFormed
INVARIANT TextFromOneAttempt
INVARIANT CutsDoNotMatter
PROPERTY NothingWritesBesideMaintenance
PROPERTY ResultIsCurrent
PROPERTY DetectionEnds
PROPERTY CancelledCallEnds
CHECK_DEADLOCK FALSE

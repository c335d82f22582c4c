CONSTANTS
  Ids <- MCIds
  CreatedAt <- MCCreatedAt
  Size <- MCSize
  Naming <- MCNaming
  Asked <- MCAsked
  PageSize = 1
  Batch = 2
  MaxRecords = 2
  MaxAge = 1
  MaxPages = 2
  CleanupBatch = 1
  CheckInterval = 2
  MaxBackups = 2
  BackupAge = 2
  MaxExport = 2
  MaxChanges = 3
  LastDay = 2
  NoFile = NoFile
SPECIFICATION Spec
INVARIANT CountIsTrue
INVARIANT EachOnce
PROPERTY RetentionHolds
PROPERTY RestoreCanBeUndone

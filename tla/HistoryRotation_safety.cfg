SPECIFICATION FairSpec
CONSTANTS
  Records = {r1, r2}
  Clients = {c1, c2}
  MaxVersion = 3
  MaxRequests = 2
  MaxCrashes = 1
  NoFile = NoFile
CHECK_DEADLOCK FALSE
INVARIANT RecordsReadable
INVARIANT ReadersUndisturbed
PROPERTY StoreSpec
PROPERTY PromotedMeansReencrypted
PROPERTY RotationEnds

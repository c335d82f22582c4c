SPECIFICATION MCSpec
CONSTANTS
  r1 = r1
  r2 = r2
  r3 = r3
  r4 = r4
  i1 = i1
  i2 = i2
  a = a
  b = b
  f1 = f1
  q1 = q1
  q2 = q2
  q3 = q3
  None = None
  Requests = {r1, r2, r3, r4}
  Ids = {a, b}
  Installs = {i1, i2}
  IdOf <- MCIdOf
  InstallOf <- MCInstallOf
  InputChars = 1
  ChunkSizes = {2}
  MaxDay = 1
  MaxFaults = 1
  MaxGlobal = 2
  MaxPerInstall = 1
  DayRequests = 2
  DayInput = 2
  DayOutput = 2
  Admissions = 3
  Budget = 8
  MaxOutput = 2
  Items = {f1}
  Senders = {i1}
  OwnerOf <- MCOwnerOf
  SourcesOf <- MCSourcesOf
  Releases = {q1, q2, q3}
  MaxTime = 3
 
INVARIANT BooksHold
INVARIANT OneIsActive
INVARIANT NothingIsLeftOver
SYMMETRY MCSymmetry
CHECK_DEADLOCK FALSE

SPECIFICATION FairSpec
CONSTANTS
  p1 = p1
  p2 = p2
  a = a
  b = b
  c = c
  Missing = Missing
  Torn = Torn
  None = None
  Paths = {p1, p2}
  Extension <- OneExtension
  Targets = {t1}
  UserIds = {}
  Contents = {a, b, c}
  Versions <- OwnVersions
  Nested = {}
  Sources <- EitherFile
  Backends = {"mirror"}
  Orderly = TRUE
  Faults = {"loss"}
  MaxClock = 2
  MaxEdits = 2
  MaxRestores = 2
  MaxFaults = 1
INVARIANTS
  LatestIsNewest
PROPERTIES
  RestoreCompletes
CHECK_DEADLOCK FALSE

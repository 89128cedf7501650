SPECIFICATION Spec
CONSTANTS
  p1 = p1
  p2 = p2
  a = a
  b = b
  c = c
  Missing = Missing
  Torn = Torn
  None = None
  Paths = {p1, p2}
  Extension <- OneExtension
  Targets = {t1}
  UserIds = {r1}
  Contents = {a, b}
  Versions <- SameVersions
  Nested = {}
  Sources <- AnySource
  Backends = {"mirror", "none"}
  Orderly = FALSE
  Faults = {"crash", "full", "loss"}
  MaxClock = 0
  MaxEdits = 1
  MaxRestores = 1
  MaxFaults = 1
SYMMETRY Symmetry
INVARIANTS
  TypeOK
  HistoryIsGrounded
  RecordedIsRestorable
PROPERTIES
  CompletedBackupIsWhole
  CompletedRestoreIsExact

SPECIFICATION Spec
CONSTANTS
  p1 = p1
  p2 = p2
  a = a
  b = b
  Byte = {a, b}
  ChunkSize = 2
  NoFile = NoFile
  Paths = {p1}
  Content <- OneFile
  Versions <- OneFileVersions
  AllowDelete = FALSE
  StoreInRoot = FALSE
  DiskFaults = FALSE
  MaxRemoteEdits = 2
  MaxLocalEdits = 0
  MaxFaults = 2
INVARIANTS
  TypeOK
  NeverPartial
  CommittedInstalled
  RecordedIsPrefix
  ProgressMatchesPart
PROPERTIES
  ImplementsAtomicPull

SPECIFICATION Spec
CONSTANTS
  p1 = p1
  p2 = p2
  a = a
  b = b
  Byte = {a, b}
  ChunkSize = 1
  NoFile = NoFile
  Paths = {p1, p2}
  Content <- Shared
  Versions <- SharedVersions
  AllowDelete = TRUE
  StoreInRoot = TRUE
  DiskFaults = TRUE
  MaxRemoteEdits = 1
  MaxLocalEdits = 1
  MaxFaults = 1
INVARIANTS
  RowsAreKeyed
  
PROPERTIES
  UnchangedNotRequested

SPECIFICATION FairSpec
CONSTANTS
  p1 = p1
  p2 = p2
  a = a
  b = b
  Byte = {a, b}
  ChunkSize = 2
  NoFile = NoFile
  Paths = {p1, p2}
  Content <- FewVersions
  Versions <- FewVersionsOf
  AllowDelete = FALSE
  StoreInRoot = FALSE
  DiskFaults = FALSE
  MaxRemoteEdits = 1
  MaxLocalEdits = 0
  MaxFaults = 1
PROPERTIES
  Converges

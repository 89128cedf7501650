SPECIFICATION Spec
CONSTANTS
  p1 = p1
  p2 = p2
  a = a
  b = b
  Byte = {a, b}
  ChunkSize = 2
  NoFile = NoFile
  Paths = {p1, p2}
  Content <- TwoFiles
  Versions <- TwoFilesVersions
  AllowDelete = FALSE
  StoreInRoot = FALSE
  DiskFaults = FALSE
  MaxRemoteEdits = 1
  MaxLocalEdits = 0
  MaxFaults = 0
INVARIANTS
  DoneMeansSynced
  ManifestComplete
  BoundFaithful

SPECIFICATION Spec
CONSTANTS
  n1 = n1
  n2 = n2
  Text = Text
  ControlNode = ControlNode
  Owner <- OwnerIsN1
  Nodes = {n1, n2}
  Agents = {n1, n2}
  Backups = {b1}
  Restores = {}
  Entries = {}
  Sources = {n1}
  Paths = {path}
  RetryDetails = {text}
  MaxSubmits = 1
  MaxRetries = 1
  MaxFaults = 0
INVARIANTS
  PulledBackupHasSource

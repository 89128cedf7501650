SPECIFICATION Spec
CONSTANTS
  n1 = n1
  n2 = n2
  Text = Text
  ControlNode = ControlNode
  Owner <- OwnerIsN1
  Nodes = {n1, n2}
  Agents = {n1, n2}
  Backups = {b1}
  Restores = {r1}
  Entries = {e1}
  Sources = {n1}
  Paths = {path}
  RetryDetails = {text}
  MaxSubmits = 2
  MaxRetries = 1
  MaxFaults = 1
INVARIANTS
  TypeOK
  CompletedMeansExecuted
  DeliveredMeansReceived
  PulledAsGiven
  RestoreAgrees
PROPERTIES
  ImplementsLifecycle

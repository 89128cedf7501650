SPECIFICATION Spec
CONSTANTS
  Missing = Missing
  Torn = Torn
  None = None
  Entries = {e1}
  Nodes = {n1, n2}
  Contents = {a, b}
  Procs = {p1, p2}
  Retention = 1
  MaxClock = 1
  MaxCommands = 3
  MaxEdits = 0
  MaxKills = 1
  MaxLosses = 1
INVARIANTS
  TypeOK
  DeliveredIsBacked
  RecipientsRetryable
  MissingIsOverdue
SYMMETRY Symmetric
CHECK_DEADLOCK FALSE

SPECIFICATION FairSpec
CONSTANTS
  Missing = Missing
  Torn = Torn
  None = None
  Entries = {e1}
  Nodes = {n1, n2}
  Contents = {a, b}
  Procs = {p1}
  Retention = 1
  MaxClock = 1
  MaxCommands = 3
  MaxEdits = 1
  MaxKills = 0
  MaxLosses = 1
INVARIANTS
  RecipientAgrees
  LibraryAgrees
PROPERTIES
  RetryDelivers
CHECK_DEADLOCK FALSE

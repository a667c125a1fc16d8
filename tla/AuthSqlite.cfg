CONSTANTS
  Clients = {c1, c2, c3}
  Instances = {i1}
  Db = "sqlite"
  MaxSessions = 1
  MaxTokens = 4
  MaxTime = 2
  Grace = 1
SPECIFICATION Spec
SYMMETRY Symmetry
CHECK_DEADLOCK FALSE
INVARIANTS
  ReuseKills
  RetryGetsChild

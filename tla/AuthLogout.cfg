CONSTANTS
  Clients = {c1, c2}
  Instances = {i1}
  Db = "sqlite"
  MaxSessions = 1
  MaxTokens = 2
  MaxTime = 0
  Grace = 1
SPECIFICATION Spec
CHECK_DEADLOCK FALSE
INVARIANT
  SignedOutStays

CONSTANTS
  Clients = {c1, c2}
  Instances = {i1, i2}
  Db = "d1"
  MaxSessions = 1
  MaxTokens = 3
  MaxTime = 1
  Grace = 1
SPECIFICATION Spec
CHECK_DEADLOCK FALSE
INVARIANT
  ReplayKills

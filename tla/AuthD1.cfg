CONSTANTS
  Clients = {c1, c2}
  Instances = {i1, i2}
  Db = "d1"
  MaxSessions = 2
  MaxTokens = 3
  MaxTime = 0
  Grace = 1
SPECIFICATION Spec
SYMMETRY Symmetry
CHECK_DEADLOCK FALSE
INVARIANTS
  OneActive
  SameChild
  SignedOutStays

CONSTANTS
  a = a
  k = k
  pub = pub
  own = own
  Db = "postgres"
  Writers = {w1, w2}
  Conns = {c1}
  Topics = {t1}
  Tokens = {a}
  Key = k
  Loops = {l1}
  Drain = drain
  Kinds = {pub, own}
  Sees <- MCSees
  Page = 1
  QueueMax = 1
  MaxSeq = 2
  MaxFlight = 1
  MaxFaults = 1
SPECIFICATION Spec
INVARIANT NothingSkipped
CHECK_DEADLOCK FALSE

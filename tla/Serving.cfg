CONSTANTS
  Pair = {a1, a2}
  Calls = {a1, a2}
  Processes = {"p1", "p2"}
  MaxBusy = 1
  Callers = {a1, a2}
  Users = {User}
  Emails = {Email, OtherEmail}
  AutoConfirm = FALSE
  MaxOtps = 1
  MaxLogins = 2
  MaxRollbacks = 1
  Ids = {"signup"}
  Capacity = 2
  Refill = 2
  Whole = 3
  LastTick = 5
  Clients = {a1, a2}
  Paths = {"p"}
  MaxUploads = 2
  Ops = {"upsert", "move"}
  Adapter = "s3"
  BlobFaults = FALSE
  OnlineRecovery = TRUE
  NoPath = "nowhere"
  Peers = {a1, a2}
  Ttl = 1
  MaxSessions = 2
  MaxTime = 1
  MaxUndos = 1
  Requests = {b1, b2, b3}
  PoolSize = 2
  MaxWrites = 2
  Admins = {a1, a2}
  MaxClock = 1
  BlobCallers = {a1, a2}
  OpIds = {"o1"}
  MaxSize = 2
  Fetches = {b1, b2, b3}
INIT ServingInit
NEXT ServingNext
SYMMETRY Symmetry
CHECK_DEADLOCK FALSE
INVARIANTS
  ProjectsServe
  SpentForGood
  NoGhostSession
  EndedRefused
  PasswordEndsOthers
  Throttled
  KeptOrGone
  StallsOnlyOutside
  RecordedIffApplied
  LiveStagedKept
  ReapedGone
  ReadsTrue
  AnsweredOwn

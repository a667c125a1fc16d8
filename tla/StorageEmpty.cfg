CONSTANTS
  Clients = {c1}
  Paths = {p1}
  MaxUploads = 3
  Ops = {"upload", "empty"}
  Adapter = "fs"
  BlobFaults = FALSE
  OnlineRecovery = FALSE
  NoPath = NoPath
SPECIFICATION Spec
INVARIANT ReadyBacked

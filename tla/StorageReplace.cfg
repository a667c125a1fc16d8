CONSTANTS
  Clients = {c1, c2}
  Paths = {p1}
  MaxUploads = 3
  Ops = {"upload", "upsert", "remove", "download", "move"}
  Adapter = "fs"
  BlobFaults = FALSE
  OnlineRecovery = FALSE
  NoPath = NoPath
SPECIFICATION Spec
SYMMETRY ClientSymmetry
INVARIANTS
  TypeOK
  ReadyBacked
  NewestStands
  RecoveredClean

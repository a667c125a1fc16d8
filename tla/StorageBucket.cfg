CONSTANTS
  Clients = {c1, c2}
  Paths = {p1}
  MaxUploads = 2
  Ops = {"upsert", "create", "empty", "drop"}
  Adapter = "opfs"
  BlobFaults = TRUE
  OnlineRecovery = TRUE
  NoPath = NoPath
SPECIFICATION Spec
SYMMETRY ClientSymmetry
PROPERTY NoResurrection

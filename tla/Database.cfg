CONSTANTS
  Columns = {"a", "b"}
  Offered <- PolicyRules
  MaxRules = 3
  Clients = {c1, c2}
  Askers = {"p", "q"}
  IdOrder <- DocKeys
  NoteOf <- NoteOwner
  InitDocs <- Docs
  RawRequests <- DataRequests
  Using <- UsingOf
  NotesSeen <- NotesFor
  Check <- CheckOf
  Ungranted <- NoDeletion
  ReadableColumns = {"id", "owner"}
  WritableColumns = {"id", "owner", "locked"}
  MaxSafe = 9
  MaxRequests = 2
  Names <- ObjectNames
  Listings <- Prefixes
  RuleSets <- PolicySets
  Users = {"u1", "u2"}
  MaxLinks = 1
  Life = 0
  MaxTime = 1
  MaxLimit = 1
  Sources <- Schemas
  Mappings <- RenameMappings
  MaxPlans = 2
  Runners = {r1, r2}
  Steps <- Plan
  Adapters = {"atomic-batch", "callback"}
  Carried <- Bundle
  MaxOthers = 1
  MaxLast = 2
  Tables = {1, 2, 3}
  MaxWrites = 2
INIT Init
NEXT Next
SYMMETRY Symmetry
CHECK_DEADLOCK FALSE
INVARIANTS
  RulesDecide
  EvaluatorsAgree
  AnswersTrue
  ChecksHold
  Converges
  SafeKeeps
  CheckKept
  PlanCarriedOut
  OneMigrating
  ReceiptTrue
  SnapshotOrRefused
  ReferencedFirst
  LabVerdicts
  ShownAsAllowed

\* One request at a time on three stages in sequence; delegations granted, revoked and expiring
\* around the decisions of three users.
CONSTANTS
  Req = {r1}
  Last = 3
  Templates <- Sequence
  Documented = {1}
  Gated = {3}
  Checked = {3}
  Unattended = {}
  Recovery <- Returning
  Target <- BackToOne
  Reserving = 2
  MaxReports = 2
  Ops = {"document", "task", "gate", "check", "submit", "reject", "status", "report"}
  Faults = {"stock"}
  Overlap = FALSE
  manager = manager
  u1 = u1
  u2 = u2
  pm = pm
  staff = staff
  stageHead = stageHead
  director = director
  User = {manager, u1, u2}
  ClientRole = {pm, staff}
  Position <- Positions
  Director = director
  MaxTime = 1
  MaxEdits = 1
  MaxAsks = 3
  MaxDelegations = 2
  Seeded <- SeedMap
  Hired <- Hirings
SPECIFICATION ApprovalSpec
INVARIANTS EngineHoldHasReport ApprovalFollowsStage AuthorityTraceable
PROPERTIES ApprovedOnEvidence
SYMMETRY Alike
CHECK_DEADLOCK FALSE

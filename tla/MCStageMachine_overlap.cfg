\* Two approvals under way while other requests come in, concurrent workflow.
CONSTANTS
  Req = {r1, r2}
  Last = 4
  Templates <- Concurrent
  Documented = {}
  Gated = {}
  Checked = {}
  Unattended = {2}
  Recovery <- Forked
  Target <- BackToTwo
  Reserving = 4
  MaxReports = 0
  Ops = {"task", "submit"}
  Faults = {"stock"}
  Overlap = TRUE
SPECIFICATION Spec
INVARIANTS NoStageStranded
PROPERTIES ImplementsPipeline
SYMMETRY Requests

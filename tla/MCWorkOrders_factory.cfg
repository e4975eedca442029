\* Two orders worked on by two requests at once, with faults.
CONSTANTS
  Req = {r1, r2}
  WO = {w1, w2}
  MaterialValue = 2
  LaborValue = 1
  MaxReworks = 1
  Lines = 2
  Marked = {"production"}
  Ops = {"reserve","budget"}
  Moves = {"released","in_progress","qc_pending","qc_hold","rework","passed","packed","staged","dispatched"}
  Faults = {"crash", "stock", "warehouse", "accounts","archive","mark"}
  MaxFaults = 1
  MaxOverlaps = 1
SPECIFICATION Spec
INVARIANTS BudgetNeverAhead MaterialBookedOnce StockBehindWork ChecklistFollowsOrders
SYMMETRY Interchangeable
CHECK_DEADLOCK FALSE

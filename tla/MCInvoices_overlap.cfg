\* Four overlapping requests that may crash; no edits (see PaidWithinTotal).
CONSTANTS
  Req = {r1, r2, r3, r4}
  Docs = {i1, i2}
  Bills = {}
  Shipping = {i1}
  Totals = {2}
  Amounts = {1, 2}
  Ops = {"send", "void", "pay", "delete"}
  Faults = {"stock", "entry", "crash"}
  Overlap = TRUE
SPECIFICATION Spec
INVARIANTS NumbersUnique PaidWithinTotal
SYMMETRY Requests

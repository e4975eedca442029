\* Three requests of any kind; inserts and callers fail: documents stay whole.
CONSTANTS
  p = p
  a = a
  b = b
  Products = {p}
  Warehouses = {a, b}
  Opening <- MCOpening
  Req = {r1, r2, r3}
  Plans <- Mixed
  Deletions = {}
  Faults = {"insert", "caller"}
  MaxToggles = 0
SPECIFICATION Spec
INVARIANTS AllOrNothing
PROPERTIES ImplementsPromise

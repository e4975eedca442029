\* Two fair requests and every fault but the lost reply; deletions and the setting run too.
CONSTANTS
  p = p
  a = a
  b = b
  Req = {r1, r2}
  Products = {p}
  Warehouses = {a, b}
  Plans <- Mixed
  Opening <- MCOpening
  Deletions = {b}
  Faults = {"insert", "audit", "caller", "crash"}
  MaxToggles = 1
SPECIFICATION FairSpec
INVARIANTS CacheMatchesLedger
PROPERTIES EventuallyReconciled

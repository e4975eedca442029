\* Three requests on two units, undone documents and crashes, the setting off.
CONSTANTS
  p = p
  a = a
  b = b
  Products = {p}
  Warehouses = {a, b}
  Opening <- MCOpening
  Req = {r1, r2, r3}
  Plans <- ThreeLines
  Deletions = {}
  Faults = {"audit", "caller", "crash"}
  MaxToggles = 0
SPECIFICATION Spec
INVARIANTS NoOversell

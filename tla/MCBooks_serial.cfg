\* Four requests, one at a time per document; stock short, entries that raise.  Two clerks who post
\* entries while accounts are added, changed and deleted.
CONSTANTS
  Req = {r1, r2, r3, r4}
  Docs = {i1, b1}
  Bills = {b1}
  Shipping = {i1}
  Totals = {1, 2}
  Amounts = {1, 2}
  Ops = {"send", "void", "pay", "edit", "delete"}
  Faults = {"stock", "entry"}
  Overlap = FALSE
  Clerk = {k1, k2}
  bank = bank
  sales = sales
  spare = spare
  Acct = {bank, sales, spare}
  Code = {"1000", "4000"}
  Type = {"asset", "income", "liability"}
  Starter <- MCStarter
  Shape <- MCShape
  MaxDay = 2
  MaxPosted = 2
  MaxFilings = 3
SPECIFICATION BooksSpec
INVARIANTS BooksMatchDocs ReportsReconcile
PROPERTIES ImplementsReceivables
SYMMETRY Anyone
CHECK_DEADLOCK FALSE

\* One company, two of three requests at a time, one fault; fair handlers.
CONSTANTS
  Req = {r1, r2}
  Company = {c1}
  Module <- TwoModules
  Plans <- TwoPlans
  Limits = {1, 2}
  Email = {e1}
  MaxFaults = 1
  MaxRequests = 3
SPECIFICATION FairSpec
INVARIANTS SeatsAccounted ActiveIsWhole
PROPERTIES ProvisioningSettles
CHECK_DEADLOCK FALSE

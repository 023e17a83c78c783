SPECIFICATION Spec
CONSTANTS
  Accounts = {a1}
  Invoices = {i1, i2}
  Checkouts = {c1}
  Hooks = {h1, h2}
  Viewers = {v1}
  Worker = worker
  Period = 1
  MaxTime = 2
  Never = 100
  Faults = {}
  FaultLimit = 0
  None = None
SYMMETRY RequestSymmetry
INVARIANTS TypeOK TimeIsPaidFor PaidTimeKept
CHECK_DEADLOCK FALSE

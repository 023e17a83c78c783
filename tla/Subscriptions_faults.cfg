SPECIFICATION FairSpec
CONSTANTS
  Accounts = {a1}
  Invoices = {i1, i2}
  Checkouts = {c1}
  Hooks = {h1}
  Viewers = {}
  Worker = worker
  Period = 1
  MaxTime = 3
  Never = 100
  Faults = {"crash", "db_error", "provider_error"}
  FaultLimit = 1
  None = None
INVARIANTS PaidTimeKept PaidTimeExact CompletedWasCredited
PROPERTIES SettledIsCompleted DueFallsBack
CHECK_DEADLOCK FALSE

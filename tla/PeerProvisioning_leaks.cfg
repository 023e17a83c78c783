SPECIFICATION Spec
CONSTANTS
  a1 = a1
  a2 = a2
  Accounts = {a1, a2}
  Servers = {s1}
  Keys = {k1, k2}
  Creates = {c1, c2}
  Deletes = {d1}
  LastBit = 1
  TryLimit = 2
  DeviceLimit <- MixedPlans
  Faults = {"redis_loss", "db_error", "report_lost"}
  SerialClients = TRUE
  FreshKeys = TRUE
  None = None
SYMMETRY RequestSymmetry
INVARIANTS NoLeakAtRest
CHECK_DEADLOCK FALSE

SPECIFICATION Spec
CONSTANTS
  a1 = a1
  a2 = a2
  Accounts = {a1, a2}
  Servers = {s1}
  Keys = {k1, k2}
  Creates = {c1}
  Deletes = {d1}
  LastBit = 1
  TryLimit = 2
  DeviceLimit <- TwoDevices
  Faults = {"redis_loss", "cancel", "late_report", "reconnect"}
  SerialClients = FALSE
  FreshKeys = FALSE
  None = None
SYMMETRY FullSymmetry
PROPERTIES LeaseSpec
CHECK_DEADLOCK FALSE

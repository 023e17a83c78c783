SPECIFICATION Spec
CONSTANTS
  a1 = a1
  a2 = a2
  Accounts = {a1, a2}
  Servers = {s1}
  Keys = {k1, k2}
  Creates = {c1, c2}
  Deletes = {}
  LastBit = 1
  TryLimit = 2
  DeviceLimit <- TwoDevices
  Faults = {"redis_loss", "lost_commit", "crash", "push_fail"}
  SerialClients = FALSE
  FreshKeys = FALSE
  None = None
SYMMETRY FullSymmetry
INVARIANTS TypeOK UniqueLiveAddress
PROPERTIES UndisturbedCreateSucceeds
CHECK_DEADLOCK FALSE

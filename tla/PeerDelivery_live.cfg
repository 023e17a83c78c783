SPECIFICATION FairSpec
CONSTANTS
  Accounts = {a1}
  Keys = {k1, k2}
  Requests = {t1}
  Streams = {c1, c2}
  BufferSize = 1
  PushTries = 2
  Faults = {"half_open", "manager_crash", "reboot", "list_error"}
  FaultLimit = 1
  None = None

INVARIANTS OneKeyPerAccount
PROPERTIES EventuallyServed
CHECK_DEADLOCK FALSE

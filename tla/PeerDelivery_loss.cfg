SPECIFICATION Spec
CONSTANTS
  Accounts = {a1}
  Keys = {k1, k2}
  Requests = {t1, t2}
  Streams = {c1, c2}
  BufferSize = 1
  PushTries = 2
  Faults = {"break", "half_open", "manager_crash", "reboot", "list_error", "netlink_error", "report_lost"}
  FaultLimit = 1
  None = None
SYMMETRY FullSymmetry
INVARIANTS TypeOK NotLost
CHECK_DEADLOCK FALSE

SPECIFICATION Spec
CONSTANTS
  Accounts = {a1, a2}
  SmallPlan = {a1}
  Disconnects = {d1, d2}
  MaxConnects = 2
  Faults = {"network", "bringup", "teardown", "restart", "expiry"}
  FaultLimit = 1
  None = None
INVARIANTS TypeOK ConnectedMeansTunnel ConnectedMeansServed NoStaleRow StoredSessionIsOneAccount NewIdIsShown
PROPERTIES NoRequestThroughTunnel
SYMMETRY DisconnectSymmetry
CHECK_DEADLOCK FALSE

SPECIFICATION Spec
CONSTANTS
  Accounts = {a1, a2}
  Pages = {p1, p2}
  Calls = {c1, c2}
  MaxTokens = 3
  MishapLimit = 2
  Faults = {"network", "delete_error"}
  None = None
SYMMETRY FullSymmetry
INVARIANTS TypeOK SessionIsOneAccount OneLiveToken PageActsForItsUser

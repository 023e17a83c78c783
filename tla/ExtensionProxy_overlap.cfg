SPECIFICATION FairSpec
CONSTANTS
  Handlers = {t1, t2}
  Worker = worker
  Hosts = {h1}
  MishapLimit = 3
  None = None
INVARIANTS TypeOK LabelsAreTrue HiddenProxyNever
PROPERTIES SignedOutIsHealed

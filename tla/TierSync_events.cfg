SPECIFICATION FairSpec
CONSTANTS
  MaxChanges = 3
  FaultLimit = 2
INVARIANTS TypeOK AccountFollows ServedAsPaid
PROPERTY EventuallySynced

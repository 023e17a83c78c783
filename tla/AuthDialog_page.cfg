SPECIFICATION Spec
CONSTANTS
  MaxAccounts = 3
INVARIANTS TypeOK FormFits OneSeenAccount LeavesSignedIn
CHECK_DEADLOCK FALSE

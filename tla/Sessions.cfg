SPECIFICATION Spec
CONSTANTS
  None = None
  Life = 3
  Grace = 2
  Ops <- AllOps
  MaxRequests = 3
  MaxTime = 2
INVARIANT TypeOK
INVARIANT SameSuccessor
INVARIANT SuccessorOutlives
INVARIANT RevocationHolds
CHECK_DEADLOCK FALSE

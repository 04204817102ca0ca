\* Every operation, two at once, until an account that is older than the epoch
\* could have more codes than may be open.
SPECIFICATION Spec
CONSTANTS
  None = None
  CreatedAt = 1
  Epoch = 4
  Interval = 2
  GiftUses = 1
  Ops <- AllOps
  MaxRequests = 3
  MaxConcurrent = 2
  Times = {5, 6, 13, 15}
INVARIANT TypeOK
INVARIANT UsesBounded
INVARIANT ExcessIsTold
CHECK_DEADLOCK FALSE

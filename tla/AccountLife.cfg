\* Every operation: three requests one after the other, two at once, or two and a
\* failed step or a crash.
SPECIFICATION Spec
CONSTANTS
  None = None
  a = a
  b = b
  h = h
  k = k
  Dids = {a, b}
  Handles = {h, k}
  Existing <- OneAccount
  Ops <- AllOps
  MaxEvents = 3
INVARIANT TypeOK
INVARIANT Announced
INVARIANT AllOrNothing
INVARIANT DeletionFinal
INVARIANT StoreHasAccount
PROPERTY AnnouncedWasTrue
CHECK_DEADLOCK FALSE

\* Two creations that bring the same DID.
SPECIFICATION Spec
CONSTANTS
  None = None
  a = a
  b = b
  h = h
  k = k
  Dids = {a, b}
  Handles = {h, k}
  Existing <- OneAccount
  Ops <- Moves
  MaxEvents = 3
INVARIANT DestroysOwnStore
CHECK_DEADLOCK FALSE

SPECIFICATION Spec
CONSTANTS
  None = None
  MaxRequests = 3
INVARIANT TypeOK
INVARIANT TakenOnce
INVARIANT ReplayRecognised
INVARIANT UsedIsGone
INVARIANT ConfirmedIsProven
CONSTRAINT Mixed
CHECK_DEADLOCK FALSE

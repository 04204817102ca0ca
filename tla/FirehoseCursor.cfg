\* A reconnect with a cursor the poller has not reached yet.
SPECIFICATION Spec
CONSTANTS
  d1 = d1
  c1 = c1
  Dids = {d1}
  Clients = {c1}
  PageSize = 2
  PollLimit = 2
  MaxBuffer = 2
  MaxSeq = 3
PROPERTY
  OnlyAfterCursor
CHECK_DEADLOCK FALSE

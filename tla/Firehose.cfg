\* Safety, refinement and liveness: one subscriber, one account, a log longer than a page,
\* a poll and the buffer.
SPECIFICATION FairSpec
CONSTANTS
  d1 = d1
  c1 = c1
  Dids = {d1}
  Clients = {c1}
  PageSize = 2
  PollLimit = 2
  MaxBuffer = 2
  MaxSeq = 3
INVARIANTS
  TypeOK
  OnItsWay
  CutoverCovers
PROPERTIES
  KeepsPromise
  EventuallySent
CHECK_DEADLOCK FALSE

\* Files are collected: one blob, all kinds of requests and faults, fairness.
SPECIFICATION FairSpec
CONSTANTS
  c1 = c1
  u1 = u1
  u2 = u2
  t1 = t1
  t2 = t2
  Gone = Gone
  None = None
  Cids = {c1}
  Uris = {u1, u2}
  Keys = {t1, t2}
  MaxRefs = 1
  MaxBatch = 1
  MaxEvents = 4
  Kinds = {"write", "import", "takedown", "fault"}
PROPERTIES
  Collected
CHECK_DEADLOCK FALSE

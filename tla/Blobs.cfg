\* Uploads, commits of two writes, imports, takedowns, failing transactions and
\* crashes, and the jobs of their references.
SPECIFICATION Spec
CONSTANTS
  c1 = c1
  c2 = c2
  u1 = u1
  u2 = u2
  t1 = t1
  t2 = t2
  Gone = Gone
  None = None
  Cids = {c1, c2}
  Uris = {u1, u2}
  Keys = {t1, t2}
  MaxRefs = 1
  MaxBatch = 2
  MaxEvents = 3
  Kinds = {"write", "import", "takedown", "fault"}
SYMMETRY Symmetric
INVARIANTS
  TypeOK
  BytesKept
  TakenIsAway
PROPERTIES
  TetheredPermanent
  TetherExact
CHECK_DEADLOCK FALSE

\* Two writers and every request: conflicts, retries and faults.
SPECIFICATION Spec
CONSTANTS
  w1 = w1
  w2 = w2
  k1 = k1
  k2 = k2
  a = a
  b = b
  post = post
  Gone = Gone
  None = None
  Writers = {w1, w2}
  Rkeys = {k1, k2}
  Cids = {a, b}
  Subject <- SubjectOf
  MaxWrites = 2
  MaxTries = 2
  MaxRequests = 2
  MaxFaults = 2
  Kinds = {"create", "put", "delete", "apply", "import"}
SYMMETRY Symmetric
INVARIANTS
  TypeOK
  Sequenced
  PhantomOnlyByFault
PROPERTIES
  BlocksKept
  SwapHonoured
  OneRecordPerSubject
  
CHECK_DEADLOCK FALSE

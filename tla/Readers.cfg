CONSTANTS
  None = None
  Posts = {1, 2}
  Texts = {1, 2}
  MaxRev = 3
  PageSize = 2
  Since = {0, 1}
  LocalLimits = {1, 2}
  FeedLimit = 2
  Names = {1, 2, 3}
  Blobs = {1, 2}
  MaxClock = 2
  MaxUses = 1
  Topics = {"export", "merge", "actors", "codes", "blobs"}
  Says <- MCSays
  TreeCid <- MCTreeCid
  Reply <- MCReply
SPECIFICATION Spec
INVARIANTS
  TypeOK
  ExportLosesNothing
  PagesMissNothing
  ReadYourWrites

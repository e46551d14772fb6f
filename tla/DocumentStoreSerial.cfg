SPECIFICATION Spec
CONSTANTS
  Store = {s1, s2}
  Loader = {d1, d2}
  NoStore = NoStore
  NoLoader = NoLoader
  NoChunk = NoChunk
  Length = {1, 2}
  Overlap = FALSE
  MaxRequests = 3
  MaxPages = 2
  MaxChunks = 3
  MaxFailures = 1
SYMMETRY Ids
INVARIANTS
  DocumentStoreTypeOK
  TotalsMatch
  NoOrphans
PROPERTIES
  RefreshCompletes
CHECK_DEADLOCK FALSE

SPECIFICATION Spec
CONSTANTS
  w1 = w1
  w2 = w2
  r1 = r1
  r2 = r2
  r3 = r3
  r4 = r4
  None = None
  Workers = {w1, w2}
  Requests = {r1, r2, r3, r4}
  Size <- Sizes
  Configs <- Deployments
  MaxChunkChanges = 2
  PersistBatchSize = 2
  MaxPersisted = 1
  ChunkIds = {1, 2, 3}
  Faults = {}
SYMMETRY Symmetry
CONSTRAINT Bound
INVARIANTS
  TypeOK
  ChunksContiguous
  LiveChunksStored
  AckedInHistory
  BufferAgrees
PROPERTIES
  ImplementsHistoryLog

SPECIFICATION Spec
CONSTANTS
  L1_SIZE = 2
  L2_SIZE = 4
  L3_SIZE = 2
  ALIGNMENT = 2
  META_CHUNK_SIZE = 40
  MaxChunks = 4
  MaxCount = 3
  MaxSpans = 4
  ChunkRuns <- Chunks
  DirectRuns <- Directs
INVARIANTS
  TypeOK
  LookupExact
  CountsExact
  ObjectsPartitioned
  ArenaDisjoint
PROPERTIES
  ReleaseNeedsNoMemory

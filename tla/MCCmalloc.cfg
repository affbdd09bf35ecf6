CONSTANTS
  t1 = t1
  t2 = t2
  s1 = s1
  s2 = s2
  s3 = s3
  NULL = NULL
  Threads <- TwoThreads
  Spans <- ThreeSpans
  SIZE_CLASS_COUNT = 2
  MAX_SPAN_BLOCK_COUNT = 3
  BlockCount <- TwoThenThree
  CrossThreadFrees = FALSE
  SerializedCalls = FALSE
  ThreadsExit = TRUE
SPECIFICATION Spec
SYMMETRY Symmetric
INVARIANTS TypeOK NoDoubleHandout NoSpuriousNull BlocksAccounted BinsExact
  PooledSpansUnreferenced NothingStranded
PROPERTIES ImplementsHeap

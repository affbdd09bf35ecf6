CONSTANTS
  t1 = t1
  t2 = t2
  s1 = s1
  s2 = s2
  s3 = s3
  NULL = NULL
  Threads <- TwoThreads
  Spans <- TwoSpans
  SIZE_CLASS_COUNT = 1
  MAX_SPAN_BLOCK_COUNT = 3
  BlockCount <- TwoBlocks
  CrossThreadFrees = FALSE
  SerializedCalls = FALSE
  ThreadsExit = TRUE
SPECIFICATION FairSpec
PROPERTIES LockReleased CallsReturn

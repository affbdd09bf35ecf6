CONSTANTS
  BitsPerWord = 3
  WordCount = 3
  BlockCounts <- MCBlockCounts
SPECIFICATION Spec
INVARIANTS TypeOK NonfullExact FreeCountExact LiveFreePartition
PROPERTIES FirstFit ImplementsPool

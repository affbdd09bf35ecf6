SPECIFICATION Spec
CONSTANTS
  BYTE_ALIGNMENT = 2
  PAGE_SIZE = 8
  SIZE_MAX = 63
  POINTER_SIZE = 1
  VALLOC_ALIGNMENT = 8
  Classes <- SmallClasses
  SPAN_SIZE = 16
  LastPage = 4
  MaxLive = 3
  Tags = {1, 2, 3}
  Sizes <- SomeSizes
  CallocArgs <- Products
  AlignArgs <- Alignments
  Strings <- SomeStrings
  ReallocAligned = FALSE
INVARIANTS TypeOK ContentsKept UsableCoversRequest Aligned FreesItsBlock

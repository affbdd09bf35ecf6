CONSTANTS
  NULL = NULL
  PAGE_SIZE = 2
  SIZE_MAX = 31
  DATA_CHUNK_PAGE_COUNT = 3
  MAX_BINNED_PAGES = 5
  BITS_PER_WORD = 2
  LastPage = 8
  MapBases <- TwoBases
  MaxSpans = 4
  Requests <- DirectRequests
SPECIFICATION Spec
INVARIANT UsedSpansMapped

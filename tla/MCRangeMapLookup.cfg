SPECIFICATION Spec
CONSTANTS
  r1 = r1
  r2 = r2
  n1 = n1
  n2 = n2
  l1 = l1
  l2 = l2
  l3 = l3
  s1 = s1
  s2 = s2
  NULL = NULL
  Readers <- TwoReaders
  Nodes <- TwoNodes
  Leaves <- ThreeLeaves
  Spans <- TwoSpans
  Slots <- TwoSlots
  Keys <- FourKeys
SYMMETRY Symmetric
INVARIANTS
  TypeOK
  LookupExact
  ReadersOnLiveObjects

SPECIFICATION Spec
CONSTANTS
  Cells = {c1, c2, c3}
  NULL = NULL
  Sizes = {0, 1, 2}
  SoleRealloc = FALSE
  MaxSeq = 3
INVARIANTS NoStaleAccess RingOfBlocks
PROPERTIES MemoryImplementsApi ClearEnds

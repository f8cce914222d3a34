SPECIFICATION Spec
CONSTANTS
  Blocks = {b1, b2}
  NULL = NULL
  Values = {v1, v2}
  Junk = Junk
  AintSize = 64
  ElementSizes = {0, 3}
  InitialAllocs = {0, 1, 2}
  MaxUsed = 5
  MaxCount = 2
INVARIANTS NoStrayWrite ReserveBacked PoppedStays
PROPERTY VectorImplementsApi

SPECIFICATION Spec
CONSTANTS
  FrameReserve = 3
  UintMod = 64
  IntMax = 31
  Reserve = 4
  Scalars <- MCScalars
  Strings <- MCStrings
  MaxValues = 6
  Texts <- MCTexts
CHECK_DEADLOCK FALSE
INVARIANTS
  BuiltIsSaid
  BuildReturns
  ReadIsText
  WrittenIsText
  QueriesAreTree

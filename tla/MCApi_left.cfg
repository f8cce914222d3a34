SPECIFICATION Spec
CONSTANTS
  Refused <- OpcodesThrow
  TablesOf <- Tables
  AttributeList <- AttributesOf
  GroupList <- Groups
  IsFatal <- Fatal
  Written <- IsWritten
  TooLarge <- NoRoom
  Inputs <- MCMutual
  ProtectedLists <- MCProtected
  Stricts = {TRUE, FALSE}
  LUINT_MAX = 255
  Probes <- MCProbes
  MaxText = 3
CHECK_DEADLOCK FALSE
INVARIANT LeftRecursionFound

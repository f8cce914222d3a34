SPECIFICATION Spec
CONSTANTS
  Refused <- OpcodesThrow
  TablesOf <- Tables
  AttributeList <- AttributesOf
  GroupList <- Groups
  IsFatal <- Fatal
  Written <- IsWritten
  TooLarge <- NoRoom
  Inputs <- MCInputs
  ProtectedLists <- MCProtected
  Stricts = {TRUE, FALSE}
  LUINT_MAX = 255
  Probes <- MCProbes
  MaxText = 3
CHECK_DEADLOCK FALSE
INVARIANTS
  PhasesAreCurrent
  
  AttributesSound
  AttributesExact

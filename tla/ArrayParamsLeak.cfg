\* A heap copy that throws is not freed.
SPECIFICATION Spec
CONSTANTS
  byteArray = byteArray
  shortArray = shortArray
  Objects <- MCObjects
  Prim <- MCPrim
  Length <- MCLength
  ParamLists <- Pairs
  MaxStackArray = 2
CHECK_DEADLOCK FALSE
INVARIANT BackingReleased

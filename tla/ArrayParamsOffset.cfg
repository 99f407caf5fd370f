\* A pinned array of shorts is passed with an offset.
SPECIFICATION Spec
CONSTANTS
  byteArray = byteArray
  shortArray = shortArray
  Objects <- MCObjects
  Prim <- MCPrim
  Length <- MCLength
  ParamLists <- Pairs
  MaxStackArray = 2
CHECK_DEADLOCK FALSE
INVARIANT PointsToOffset

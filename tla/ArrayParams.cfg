\* Both paths: every pair of object parameters, and triples of arrays.
SPECIFICATION Spec
CONSTANTS
  byteArray = byteArray
  shortArray = shortArray
  Objects <- MCObjects
  Prim <- MCPrim
  Length <- MCLength
  ParamLists <- PairsAndTriples
  MaxStackArray = 2
CHECK_DEADLOCK FALSE
INVARIANTS Balanced JniOnlyAfterFailedPin OutDelivered FirstParameterWins
PROPERTY ImplementsArrayCall

SPECIFICATION Spec
CONSTANTS
  Threads = {t1, t2}
  Arrays = {a1, a2}
  Objs = {o1, o2}
  Builtin <- SmallTypes
  Lists <- SomeLists
  Lengths = {1, 3}
  SizeBits = 5
  None = None
SYMMETRY Symmetry
INVARIANTS LayoutOfC ElementsOutliveUse
PROPERTY ImplementsWeakCache
CHECK_DEADLOCK FALSE

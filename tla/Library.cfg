SPECIFICATION Spec
CONSTANTS
  t1 = t1
  t2 = t2
  l1 = l1
  l2 = l2
  a = a
  Threads = {t1, t2}
  Libs = {l1, l2}
  Names = {a}
  Null = Null
  None = None
  Unknown = Unknown
  SharedDlerror = FALSE
SYMMETRY MCSymmetry
INVARIANTS
  HandlesAccounted
  UsableIsOpen
  SymbolFromOpenHandle
  ErrorOfOwnOpen
PROPERTY ImplementsWeakCache

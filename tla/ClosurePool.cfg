\* Threads may share Handles; two magazines of two slots.
SPECIFICATION Spec
CONSTANTS
  Threads = {t1, t2}
  Magazines = {m1, m2}
  N = 2
  Handles = {h1, h2, h3, h4}
  Holders = {o1, o2}
  Closures = {c1}
  None = None
  MaxStale = 1
  SharedHandles = TRUE
  OuterThis = FALSE
SYMMETRY Symmetry
INVARIANTS SlotExclusive CallReachesClosure RetiredOnlyIfPinned PoolInv
PROPERTY ImplementsAllocator

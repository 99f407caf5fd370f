\* The cache as it is, where no context is ever collected, and the cache on its
\* own, with contexts that can be: culling races with lookups and puts.
SPECIFICATION Spec
CONSTANTS
  Threads = {t1, t2}
  Signatures = {s1, s2}
  FixedCounts = {n1}
  Contexts = {c1, c2, c3}
  None = None
SYMMETRY Symmetry
INVARIANTS OneContextPerThread NoDeadEntryLeaked
PROPERTY ImplementsWeakCache

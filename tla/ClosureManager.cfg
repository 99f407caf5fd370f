SPECIFICATION Spec
CONSTANTS
  Threads = {t1, t2}
  Contexts = {c1, c2, c3}
  Signatures = {s1, s2}
  Pools = {p1, p2}
  Magazines = {m1, m2}
  Closures = {x1}
  None = None
SYMMETRY Symmetry
INVARIANTS
  PoolInUseIsFound
  TrampolineValid
CHECK_DEADLOCK FALSE

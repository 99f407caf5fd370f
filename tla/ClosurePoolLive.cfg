\* Handles confined to one thread at a time, fair threads and a fair Cleaner.
SPECIFICATION FairSpec
CONSTANTS
  Threads = {t1, t2}
  Magazines = {m1}
  N = 2
  Handles = {h1, h2, h3, h4}
  Holders = {o1, o2}
  Closures = {c1}
  None = None
  MaxStale = 1
  SharedHandles = FALSE
  OuterThis = FALSE
INVARIANT QueuedSlotIsFresh
PROPERTIES PinRespected DisposedSlotReturns 

SPECIFICATION Spec
CONSTANTS
  Threads = {t1, t2}
  Magazines = {m1}
  N = 2
  Proxies = {x1, x2}
  None = None
  Machines <- MCMachines
  Signatures <- MCSignatures
SYMMETRY MCSymmetry
INVARIANTS
  
  CallReachesProxy
  ParametersDelivered
  ReplyDelivered
CHECK_DEADLOCK FALSE

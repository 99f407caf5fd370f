SPECIFICATION Spec
CONSTANTS
  Machines <- MCMachines
  Signatures <- MCSignatures
INVARIANTS
  ArgumentsDelivered
  ResultDelivered
  ResolvedOnce
  PositionsAgree

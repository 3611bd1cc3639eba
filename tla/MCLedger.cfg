CONSTANTS
  v1 = v1
  v2 = v2
  v3 = v3
  v4 = v4
  z1 = z1
  z2 = z2
  Validators <- MCValidators
  Submitters <- MCSubmitters
  BlockSize = 3
  Proposers = {v1}
  MaxBurst = 1
  MaxTxs = 2
  MaxBlocks = 3
  MaxRejected = 1
SPECIFICATION Spec
INVARIANTS TypeOK ChainVerifies InOrder NeverFull AuditTells
PROPERTIES KeepsAuditLog
CHECK_DEADLOCK FALSE

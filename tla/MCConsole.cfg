CONSTANTS
  r1 = r1
  r2 = r2
  Requests <- MCRequests
  max_log_entries = 1
  MaxSystems = 2
  MaxLoops = 2
  MaxRequests = 3
SPECIFICATION Spec
SYMMETRY MCSymmetry
INVARIANTS OnlyOneRuns StartedAsAWhole UpHasLoop LogBounded
CHECK_DEADLOCK FALSE

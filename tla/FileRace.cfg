CONSTANTS
  r1 = r1 r2 = r2 r3 = r3 r4 = r4 r5 = r5
  Request = {r1, r2, r3, r4, r5}
  Operation <- Mixed
  Inputs <- TwoReadsOrDeletes
  MaxConcurrent = 2
  Patience = 3
SPECIFICATION Spec
INVARIANT NoReadDuringDelete
CHECK_DEADLOCK FALSE

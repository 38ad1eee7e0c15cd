CONSTANTS
  Depth = 8
  Lead = 3
  Batch = 3
  Burst = 1
  MaxAhead = 10
  MaxRun = 0
  Horizon = 4
  Settle = 14
SPECIFICATION Spec
INVARIANTS Heals

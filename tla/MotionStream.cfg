CONSTANTS
  Depth = 6
  Lead = 3
  Batch = 3
  Burst = 2
  MaxAhead = 9
  MaxRun = 9
  Horizon = 4
  Settle = 11
SPECIFICATION Spec
INVARIANTS  HealsWithRoom 

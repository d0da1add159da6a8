\* The CPU count read by a call and the one its pool is made with differ.
SPECIFICATION Spec
CONSTANTS
  Callers = {c1}
  PoolMax = 3
  MaxThreads = 3
  MaxRows = 3
  CpuCounts = {1, 3}
  MaxCalls = 2
  MaxFailures = 0
  None = None
INVARIANT RowsComputedOnce

\* Two callers share the pool while CPUs come and go and a pthread_create may
\* fail: the safety of the rounds, the partition, and that calls return.
SPECIFICATION FairSpec
CONSTANTS
  Callers = {c1, c2}
  PoolMax = 3
  MaxThreads = 3
  MaxRows = 3
  CpuCounts = {2, 3}
  MaxCalls = 1
  MaxFailures = 1
  None = None
INVARIANTS TypeOK NoBandOutlivesCall DispatchedBandsRunOnce UntruncatedRowsOnce
PROPERTIES ImplementsParallelFor CallReturns UnloadCompletes

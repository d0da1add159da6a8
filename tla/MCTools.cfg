\* Input and outputs larger than the pipes; more tests than threads; a path
\* and a git dependency, two processes, three commands.
SPECIFICATION Spec
CONSTANTS
  PipeSize = 2
  InputSize = 3
  MaxOutput = 3
  NumTests = 4
  Threads = 3
  Deps <- DepOrder
  Git = {"repo"}
  Files = {f1, f2}
  Procs = {p1, p2}
  MaxRev = 2
  MaxCommands = 3
  Missing = Missing
  Torn = Torn
INVARIANTS OutputComplete ReportExact CacheWhole UpdateRepairs LockVerifies
PROPERTIES CallEnds RunEnds
\* All of them end.
CHECK_DEADLOCK FALSE

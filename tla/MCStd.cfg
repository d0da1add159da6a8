\* A ring of up to three bytes, tables of one and two connections, arenas of up
\* to 25 bytes, six senders, a vector and a map of up to three entries.
SPECIFICATION Spec
CONSTANTS
  Conns = {1, 2}
  MaxConns = 2
  Sizes = {0, 1, 2, 3}
  Batch = 3
  Ops = {0}
  Results = {0, 1}
  MaxReq = 1
  MaxFlight = 2
  MaxCap = 3
  ByteBase = 2
  Asked = {0, 1, 2, 3, 4}
  Inputs = {0, 1, 2}
  MaxPos = 6
  MaxBulk = 3
  Junk = Junk
  Unset = Unset
  Blank = Blank
  ArenaMaxCap = 25
  ArenaCaps = {0, 7, 16, 25, 26}
  ArenaSizes = {0, 1, 7, 8, 9, 16, 17, 25}
  MinCap = 3
  Works = {1, 2}
  MaxSenders = 6
  MaxTrace = 4
  NumBlocks = 4
  FirstCap = 1
  Items = {1, 2}
  MaxItems = 3
INVARIANTS DrainCanonical KeysUnique BlocksApart PipelinesKept TraceExact BlocksOwned ContainersExact
PROPERTIES ImplementsFifo ImplementsTable
\* A sequence of calls that reached a bound has no next one.
CHECK_DEADLOCK FALSE

\* The table doubles once or twice; three generations per slot.
SPECIFICATION Spec
CONSTANTS
  Addrs = {a1, a2, a3}
  Null = Null
  InitCap = 1
  GenBase = 4
  MaxSlots = 3
  Probes <- AllHandles
INVARIANTS TypeOK HeapExact
PROPERTIES ImplementsHandleMap
\* abort() ends the program.
CHECK_DEADLOCK FALSE

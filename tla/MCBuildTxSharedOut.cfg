\* Two projects share one --out path.
SPECIFICATION Spec
CONSTANTS
  b1 = b1  b2 = b2  b3 = b3
  f1 = f1  f2 = f2
  p1 = p1  p2 = p2
  o1 = o1  o2 = o2
  Builds = {b1, b2, b3}
  Projects = {p1, p2}
  Files = {f1, f2}
  Outs = {o1, o2}
  ProjectOf <- TwoProject
  EntryOf <- TwoEntry
  OutOf <- OneOut
  CleanOuts <- TwoCleanOuts
  Direct = {b1, b3}
  Ineligible = {}
  Standalone = {p1, p2}
  Nested = {}
  MaxVersion = 0
  MaxEdits = 0
  MaxFaults = 0
  MaxCrashes = 0
  MaxRot = 0
  MaxEvents = 0
  NoEntry = NoEntry
  Absent = Absent
  Torn = Torn
  Garbage = Garbage
  None = None
INVARIANTS CacheHonest

\* Named files of a directory without a Mind.toml; every build ends.
SPECIFICATION FairSpec
CONSTANTS
  b1 = b1  b2 = b2  b3 = b3
  f1 = f1  f2 = f2
  p1 = p1  p2 = p2
  o1 = o1  o2 = o2
  Builds = {b1, b2, b3}
  Projects = {p1}
  Files = {f1, f2}
  Outs = {o1, o2}
  ProjectOf <- OneProject
  EntryOf <- ScratchEntry
  OutOf <- ScratchOut
  CleanOuts <- ScratchCleanOuts
  Direct = {b1, b3}
  Ineligible = {b2}
  Standalone = {p1}
  Nested = {}
  MaxVersion = 0
  MaxEdits = 0
  MaxFaults = 4
  MaxCrashes = 1
  MaxRot = 1
  MaxEvents = 5
  NoEntry = NoEntry
  Absent = Absent
  Torn = Torn
  Garbage = Garbage
  None = None
INVARIANTS ManifestRestored StandaloneScope StandaloneOpens
PROPERTIES BuildEnds
\* A run stops when every build has ended; stopping earlier violates BuildEnds.
CHECK_DEADLOCK FALSE

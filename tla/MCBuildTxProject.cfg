\* A project under any two of: edits of sources and Mind.toml, failing calls, a kill, a damaged object.
SPECIFICATION Spec
CONSTANTS
  b1 = b1  b2 = b2  b3 = b3
  f1 = f1  f2 = f2
  p1 = p1  p2 = p2
  o1 = o1  o2 = o2
  Builds = {b1, b2, b3}
  Projects = {p1}
  Files = {f1, f2}
  Outs = {o1, o2}
  ProjectOf <- OneProject
  EntryOf <- OneEntry
  OutOf <- OneOut
  CleanOuts <- OneCleanOuts
  Direct = {b1, b3}
  Ineligible = {}
  Standalone = {}
  Nested = {p1}
  MaxVersion = 1
  MaxEdits = 1
  MaxFaults = 2
  MaxCrashes = 1
  MaxRot = 1
  MaxEvents = 2
  NoEntry = NoEntry
  Absent = Absent
  Torn = Torn
  Garbage = Garbage
  None = None
INVARIANTS ArtifactFresh ManifestRestored
SYMMETRY Interchangeable

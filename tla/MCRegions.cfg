\* All programs with up to six nested scopes.
SPECIFICATION Spec
CONSTANTS
  Addrs = {a1, a2, a3, a4}
  StackDepth = 3
  MaxScopes = 6
SYMMETRY Interchangeable
INVARIANTS OpenRegionsLive NoMemoryError RegionFreesAll FramesMatchRegions
\* The program may end or abort.
CHECK_DEADLOCK FALSE

\* Two resolvers overlap each other and the launch; everything may fail, and checkpoints
\* lag behind the graph or are lost.
CONSTANTS
  x = x
  y = y
  l1 = l1
  l2 = l2
  r1 = r1
  r2 = r2
  r3 = r3
  Items = {x}
  Launches = {l1}
  Resolvers = {r1, r2}
  CeleryLaunches = {}
  HitlOn = {l1, r1, r2}
  MaxActive = 3
  MaxInFlight = 2
  Fallible = {l1, r1, r2}
  SideStoresMayFail = TRUE
SPECIFICATION Spec
INVARIANTS ReviewBeforeGraph PausedMeansUnwritten  SideStoresFollowGraph
SYMMETRY SymmetryAll
CHECK_DEADLOCK FALSE

\* r1 may fail, die or lose checkpoints, r2 runs with HITL off, Postgres and Qdrant come
\* and go; the others keep going.
CONSTANTS
  x = x
  y = y
  l1 = l1
  l2 = l2
  r1 = r1
  r2 = r2
  r3 = r3
  Items = {x}
  Launches = {l1}
  Resolvers = {r1, r2}
  CeleryLaunches = {}
  HitlOn = {l1, r1}
  MaxActive = 2
  MaxInFlight = 2
  Fallible = {r1}
  SideStoresMayFail = TRUE
SPECIFICATION FairSpec
PROPERTIES OutageNeverBlocks ReviewedRunCompletes
CHECK_DEADLOCK FALSE

\* One process at a time; nodes and checkpoint writes fail and processes crash.
CONSTANTS
  x = x
  y = y
  l1 = l1
  l2 = l2
  r1 = r1
  r2 = r2
  r3 = r3
  Items = {x, y}
  Launches = {l1}
  Resolvers = {r1, r2}
  CeleryLaunches = {l1}
  HitlOn = {l1, r1, r2}
  MaxActive = 1
  MaxInFlight = 8
  Fallible = {l1, r1, r2}
  SideStoresMayFail = FALSE
SPECIFICATION Spec
INVARIANTS TypeOK TrailMatchesCheckpoint AuditAgreesAtRest
 
SYMMETRY SymmetryAll
CHECK_DEADLOCK FALSE

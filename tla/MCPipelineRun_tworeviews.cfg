\* Two resolvers overlap with different resolutions.
CONSTANTS
  x = x
  y = y
  l1 = l1
  l2 = l2
  r1 = r1
  r2 = r2
  r3 = r3
  Items = {x}
  Launches = {l1}
  Resolvers = {r1, r2}
  CeleryLaunches = {l1}
  HitlOn = {l1, r1, r2}
  MaxActive = 2
  MaxInFlight = 2
  Fallible = {}
  SideStoresMayFail = FALSE
SPECIFICATION Spec
INVARIANTS RejectedIsDropped
CHECK_DEADLOCK FALSE

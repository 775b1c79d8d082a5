\* Two files, four registries, a launch and a relaunch; tasks finish in any
\* order, raise, die and are resumed.
CONSTANTS
  f1 = f1
  f2 = f2
  Files = {f1, f2}
  Registries <- MCRegistries
  MaxLaunches = 2
SPECIFICATION Spec
INVARIANTS TypeOK ReadsAreCurrent RunsOnce ReviewPrecedesWrite LeaksExplained
SYMMETRY Symmetry
CHECK_DEADLOCK FALSE

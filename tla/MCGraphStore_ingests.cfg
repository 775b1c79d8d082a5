CONSTANTS
  MaxDepth = 4
  p1 = p1  p2 = p2  p3 = p3
  Repos <- MCRepos
  Nodes <- MCNodes
  Edges <- MCEdges
  Runs = {p1, p2, p3}
  Batches <- MCBatches
  Root <- MCRoot
  NoRepo = NoRepo
  NoRun = NoRun
SPECIFICATION Spec
INVARIANTS
  LatestRunIsDocumented
  LeftoversRecognisable
  BlendThroughSharedKeys
CHECK_DEADLOCK FALSE

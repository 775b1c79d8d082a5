CONSTANTS
  Repos = {"shop", "bank"}
  Names = {"web", "api"}
  Components <- MCComponents
  Declared <- MCDeclared
  Calls <- MCCalls
  Mentions <- MCMentions
  Topics = {"orders", "orders-sub"}
  Strip <- MCStrip
  Pairs <- MCPairs
  MinConfidence = {50, 60}
  s1 = s1  s2 = s2
  Scans = {s1, s2}
  v1 = v1  v2 = v2
  Lists = {v1, v2}
  Shows <- MCShows
  None = None
SYMMETRY Symmetry
SPECIFICATION Spec
INVARIANTS
  ShownAsFound
  ReportedIsWritten
  WeakestEvidenceShown
  ReviewedLinksAreDecided
CHECK_DEADLOCK FALSE

CONSTANTS
  t1 = t1  t2 = t2  t3 = t3
  Started <- MCStarted
  Label <- MCLabel
  FactsOf <- MCFactsOf
  Requests = {"q"}
  Replies <- MCReplies
  Registry <- MCRegistry
  GraphNodes <- MCGraphNodes
  Edits <- MCEdits
  UnitLimit = 2
  MaxAnalyses = 2
  MaxSecond = 2
  None = None
SPECIFICATION Spec
INVARIANTS
  PickedAsWanted
  LatestAnalysisShown
  VerifiedExists
  DependenciesAccounted
  ProposalOnDisk
  LostFieldsWarned
CHECK_DEADLOCK FALSE

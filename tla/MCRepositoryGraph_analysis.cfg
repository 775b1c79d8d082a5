CONSTANTS
  MaxDepth = 2
  Repositories <- MCRepositories
  Partitions <- MCPartitions
  Names <- MCNames
SPECIFICATION RunSpec
INVARIANTS
  GranularitiesAgree
  EdgesEndInBatch
  WorkflowsFollowCalls
CHECK_DEADLOCK FALSE

CONSTANTS
  Names = {}
  Programs <- MCPrograms
  Counts <- MCCounts
SPECIFICATION Spec
INVARIANT TypeOK
INVARIANT JumpsAreCaught
PROPERTY FollowsFlowGraph
CHECK_DEADLOCK FALSE

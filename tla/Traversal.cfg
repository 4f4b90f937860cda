SPECIFICATION TraversalSpec
CONSTANT Programs <- TraversedPrograms
INVARIANTS
  PathsStayOnTheirSide
  MissingBlocksWait
  EveryOutcomeWalked
CHECK_DEADLOCK FALSE

SPECIFICATION ReorderSpec
CONSTANT Programs <- ReorderedPrograms
INVARIANTS
  RunsOnce
  RunKeepsOrder
CHECK_DEADLOCK FALSE
